----------------------------- MODULE Quarantine -----------------------------
(***************************************************************************)
(* Reversible quarantine (internal/quarantine, internal/store/quarantine.go). *)
(*                                                                         *)
(* One file below $HOME, called the path, and the records that eligible    *)
(* selections of the inventory derive for it.  Every `ssc-init quarantine` *)
(* command is a process of its own: several run at once, each may be       *)
(* cancelled or killed between any two system calls, and the user edits,   *)
(* replaces or deletes the file while they run.  The record table is       *)
(* SQLite: one save is one transaction.                                    *)
(*                                                                         *)
(* A file is an inode: os.SameFile compares inodes, an open descriptor     *)
(* keeps reading the inode it opened, and an in-place edit keeps the       *)
(* inode.  A digest is the content itself (SHA-256 without collisions).    *)
(***************************************************************************)
EXTENDS FiniteSets, Integers

CONSTANTS
    Procs,          \* running quarantine commands
    Recs,           \* record identifiers: (asset, observation, evidence, digest)
    Contents,       \* what a file may hold
    Empty,          \* the content of a file just created
    Digest,         \* the digest each record identifier is derived from
    Modes,          \* permission bits of a regular file
    Private,        \* 0o600
    Irregular,      \* the "mode" of a symbolic link, directory or device
    Inodes,
    None,
    ConcurrentUser, \* may the user touch the file while a command runs?
    MaxUserSteps,   \* bound: changes the user makes
    MaxFaults       \* bound: crashes, failed saves and failed clean-ups

ASSUME QuarantineAssumption ==
    /\ Empty \notin Contents
    /\ Digest \in [Recs -> Contents]
    /\ Private \in Modes
    /\ Irregular \notin Modes
    /\ None \notin Inodes /\ None \notin Recs /\ None \notin Modes
    /\ ConcurrentUser \in BOOLEAN
    /\ MaxUserSteps \in Nat /\ MaxFaults \in Nat

States == {"none", "requested", "quarantined", "restored", "failed"}

VARIABLES
    path,       \* the inode the original name refers to, or None
    copy,       \* the managed copy of each record, or None
    content,    \* what each inode holds
    perm,       \* the permission bits of each inode
    rstate,     \* the persisted state of each record
    rmode,      \* the persisted original mode of each record
    approvals,  \* proposals previewed so far: [action, rec, mode]
    pc, rec, mode, src, dst,   \* the locals of each command
    owned,      \* history: contents the user left in the file and never deleted
    userSteps, faults

store == <<rstate, rmode>>
disk  == <<path, copy, content, perm>>
locals == <<pc, rec, mode, src, dst>>
ghosts == <<owned, userSteps, faults>>
vars == <<disk, store, approvals, locals, ghosts>>

-----------------------------------------------------------------------------
(* Record states. *)

(* Mutant of ValidTransition: requesting again is idempotent. *)
BugRepeatRequest(previous, next) ==
    \/ previous \in {"none", "requested"} /\ next = "requested"
    \/ previous = "requested" /\ next \in {"quarantined", "failed"}
    \/ previous = "quarantined" /\ next = "restored"

(* validQuarantineTransition, and the rule that a new record is requested. *)
ValidTransition(previous, next) ==
    \/ previous = "none" /\ next = "requested"
    \/ previous = "requested" /\ next \in {"quarantined", "failed"}
    \/ previous = "quarantined" /\ next = "restored"

(* SaveQuarantineRecord: one transaction, refused on an invalid transition. *)
Save(r, next, m) ==
    /\ ValidTransition(rstate[r], next)
    /\ rstate' = [rstate EXCEPT ![r] = next]
    /\ rmode' = [rmode EXCEPT ![r] = m]

(* A save the database refuses: the transition is invalid, or the          *)
(* transaction fails (a fault).                                            *)
SaveRefused(r, next) ==
    \/ ~ValidTransition(rstate[r], next) /\ UNCHANGED faults
    \/ faults < MaxFaults /\ faults' = faults + 1

-----------------------------------------------------------------------------
(* Commands. *)

Approval(action, r, m) == [action |-> action, rec |-> r, mode |-> m]

Approvals == [action : {"quarantine", "restore"}, rec : Recs, mode : Modes]

Goto(p, label) == pc' = [pc EXCEPT ![p] = label]

(* The command returns: its descriptors close and its locals die. *)
Return(p) ==
    /\ Goto(p, "idle")
    /\ rec' = [rec EXCEPT ![p] = None]
    /\ mode' = [mode EXCEPT ![p] = None]
    /\ src' = [src EXCEPT ![p] = None]
    /\ dst' = [dst EXCEPT ![p] = None]

(* Inodes no name and no running command refers to. *)
Free == Inodes \ ({path} \cup {copy[r] : r \in Recs}
                  \cup {src[p] : p \in Procs} \cup {dst[p] : p \in Procs})

(* os.OpenFile with O_CREATE|O_EXCL and 0o600. *)
NewFile(i) ==
    /\ content' = [content EXCEPT ![i] = Empty]
    /\ perm' = [perm EXCEPT ![i] = Private]

Regular(i) == i # None /\ perm[i] \in Modes

(* Mutant of Preview: the regular-file check is missing. *)
BugPreviewAnything(r) ==
    /\ path # None
    /\ content[path] = Digest[r]
    /\ approvals' = approvals \cup {Approval("quarantine", r, perm[path])}
    /\ UNCHANGED <<disk, store, locals, ghosts>>

(* Preview and verifyPreviewSource: the bytes at the path hash to the      *)
(* digest of the selected evidence, and the approval binds the mode.       *)
Preview(r) ==
    /\ Regular(path)
    /\ content[path] = Digest[r]
    /\ approvals' = approvals \cup {Approval("quarantine", r, perm[path])}
    /\ UNCHANGED <<disk, store, locals, ghosts>>

(* PreviewRestore, from the stored record. *)
PreviewRestore(r) ==
    /\ rstate[r] = "quarantined"
    /\ approvals' = approvals \cup {Approval("restore", r, rmode[r])}
    /\ UNCHANGED <<disk, store, locals, ghosts>>

-----------------------------------------------------------------------------
(* quarantine apply: Manager.Apply and Manager.Quarantine. *)

(* Mutant of ApplyOpen: the approval's mode is not compared. *)
BugModeNotBound(p) ==
    /\ pc[p] = "idle"
    /\ Regular(path)
    /\ \E a \in approvals :
          /\ a.action = "quarantine"
          /\ rec' = [rec EXCEPT ![p] = a.rec]
          /\ mode' = [mode EXCEPT ![p] = perm[path]]
    /\ src' = [src EXCEPT ![p] = path]
    /\ Goto(p, "verify")
    /\ UNCHANGED <<disk, store, approvals, dst, ghosts>>

(* Apply: Preview again, opening the source and reading its mode ... *)
ApplyOpen(p) ==
    /\ pc[p] = "idle"
    /\ Regular(path)
    /\ \E a \in approvals :
          /\ a.action = "quarantine"
          /\ a.mode = perm[path]
          /\ rec' = [rec EXCEPT ![p] = a.rec]
          /\ mode' = [mode EXCEPT ![p] = a.mode]
    /\ src' = [src EXCEPT ![p] = path]
    /\ Goto(p, "verify")
    /\ UNCHANGED <<disk, store, approvals, dst, ghosts>>

(* ... and then hashing it; a mismatch or a cancellation ends the command. *)
ApplyVerify(p) ==
    /\ pc[p] = "verify"
    /\ \/ /\ content[src[p]] = Digest[rec[p]]
          /\ Goto(p, "request")
          /\ src' = [src EXCEPT ![p] = None]
          /\ UNCHANGED <<rec, mode, dst>>
       \/ Return(p)
    /\ UNCHANGED <<disk, store, approvals, ghosts>>

(* The requested record is saved before anything is touched. *)
Request(p) ==
    /\ pc[p] = "request"
    /\ \/ /\ Save(rec[p], "requested", mode[p])
          /\ Goto(p, "lstat")
          /\ UNCHANGED <<rec, mode, src, dst, faults>>
       \/ /\ SaveRefused(rec[p], "requested")
          /\ Return(p)
          /\ UNCHANGED store
    /\ UNCHANGED <<disk, approvals, owned, userSteps>>

(* Mutant of Lstat: an early return that skips fail. *)
BugReturnWithoutFail(p) ==
    /\ pc[p] = "lstat"
    /\ \/ /\ Regular(path) /\ perm[path] = mode[p]
          /\ src' = [src EXCEPT ![p] = path]
          /\ Goto(p, "open")
          /\ UNCHANGED <<rec, mode, dst>>
       \/ Return(p)
    /\ UNCHANGED <<disk, store, approvals, ghosts>>

(* Lstat: the file must be regular and of the approved mode.  Cancellation *)
(* and an unavailable directory also lead to fail.                         *)
Lstat(p) ==
    /\ pc[p] = "lstat"
    /\ \/ /\ Regular(path) /\ perm[path] = mode[p]
          /\ src' = [src EXCEPT ![p] = path]
          /\ Goto(p, "open")
       \/ Goto(p, "fail") /\ UNCHANGED src
    /\ UNCHANGED <<disk, store, approvals, rec, mode, dst, ghosts>>

(* OpenFile without following links, then SameFile against Lstat's answer. *)
OpenSource(p) ==
    /\ pc[p] = "open"
    /\ \/ path = src[p] /\ Regular(path) /\ Goto(p, "create")
       \/ Goto(p, "fail")
    /\ UNCHANGED <<disk, store, approvals, rec, mode, src, dst, ghosts>>

(* The managed copy is created exclusively; a collision fails. *)
CreateCopy(p) ==
    /\ pc[p] = "create"
    /\ \/ /\ copy[rec[p]] = None
          /\ \E i \in Free :
                /\ NewFile(i)
                /\ copy' = [copy EXCEPT ![rec[p]] = i]
                /\ dst' = [dst EXCEPT ![p] = i]
          /\ Goto(p, "copy")
          /\ UNCHANGED path
       \/ Goto(p, "fail") /\ UNCHANGED <<disk, dst>>
    /\ UNCHANGED <<store, approvals, rec, mode, src, ghosts>>

(* Mutant of CopyBytes: the digest of what was copied is not compared. *)
BugCopyUnverified(p) ==
    /\ pc[p] = "copy"
    /\ content' = [content EXCEPT ![dst[p]] = content[src[p]]]
    /\ Goto(p, "save")
    /\ UNCHANGED <<path, copy, perm, store, approvals, rec, mode, src, dst, ghosts>>

(* copyQuarantine while hashing, the digest comparison, Chmod and Sync.    *)
CopyBytes(p) ==
    /\ pc[p] = "copy"
    /\ \/ /\ content' = [content EXCEPT ![dst[p]] = content[src[p]]]
          /\ \/ content[src[p]] = Digest[rec[p]] /\ Goto(p, "save")
             \/ Goto(p, "fail")
       \/ Goto(p, "fail") /\ UNCHANGED content
    /\ UNCHANGED <<path, copy, perm, store, approvals, rec, mode, src, dst, ghosts>>

(* Mutant of SaveQuarantined: the error of the save is dropped. *)
BugSaveErrorDropped(p) ==
    /\ pc[p] = "save"
    /\ \/ Save(rec[p], "quarantined", mode[p]) /\ UNCHANGED faults
       \/ SaveRefused(rec[p], "quarantined") /\ UNCHANGED store
    /\ Goto(p, "recheck")
    /\ UNCHANGED <<disk, approvals, rec, mode, src, dst, owned, userSteps>>

(* The quarantined record is saved; from then on the copy is kept. *)
SaveQuarantined(p) ==
    /\ pc[p] = "save"
    /\ \/ /\ Save(rec[p], "quarantined", mode[p])
          /\ Goto(p, "recheck")
          /\ UNCHANGED faults
       \/ /\ SaveRefused(rec[p], "quarantined")
          /\ Goto(p, "discard")
          /\ UNCHANGED store
    /\ UNCHANGED <<disk, approvals, rec, mode, src, dst, owned, userSteps>>

(* fail: the failed record is saved, then the deferred cleanup runs if the *)
(* copy was created.                                                       *)
Fail(p) ==
    /\ pc[p] = "fail"
    /\ \/ Save(rec[p], "failed", mode[p]) /\ UNCHANGED faults
       \/ SaveRefused(rec[p], "failed") /\ UNCHANGED store
    /\ IF dst[p] = None
       THEN Return(p)
       ELSE Goto(p, "discard") /\ UNCHANGED <<rec, mode, src, dst>>
    /\ UNCHANGED <<disk, approvals, owned, userSteps>>

(* A deferred removal may fail, which is ignored. *)
CleanupFails == faults < MaxFaults /\ faults' = faults + 1

(* The deferred removal of a copy that was created but not kept. *)
DiscardCopy(p) ==
    /\ pc[p] = "discard"
    /\ \/ copy' = [copy EXCEPT ![rec[p]] = None] /\ UNCHANGED faults
       \/ CleanupFails /\ UNCHANGED copy
    /\ Return(p)
    /\ UNCHANGED <<path, content, perm, store, approvals, owned, userSteps>>

(* Lstat again: a replaced or missing source is left alone. *)
Recheck(p) ==
    /\ pc[p] = "recheck"
    /\ \/ /\ path = src[p]
          /\ Goto(p, "remove")
          /\ UNCHANGED <<rec, mode, src, dst>>
       \/ path # src[p] /\ Return(p)
    /\ UNCHANGED <<disk, store, approvals, ghosts>>

(* Remove(basename): whatever the name refers to by now, if it succeeds.   *)
RemoveSource(p) ==
    /\ pc[p] = "remove"
    /\ path' \in {path, None}
    /\ Return(p)
    /\ UNCHANGED <<copy, content, perm, store, approvals, ghosts>>

-----------------------------------------------------------------------------
(* quarantine restore-apply: Manager.ApplyRestore and Manager.Restore. *)

(* The record is loaded and must be quarantined, with a matching approval. *)
RestoreLoad(p) ==
    /\ pc[p] = "idle"
    /\ \E r \in Recs :
          /\ rstate[r] = "quarantined"
          /\ Approval("restore", r, rmode[r]) \in approvals
          /\ rec' = [rec EXCEPT ![p] = r]
          /\ mode' = [mode EXCEPT ![p] = rmode[r]]
    /\ Goto(p, "target")
    /\ UNCHANGED <<disk, store, approvals, src, dst, ghosts>>

(* Mutant of RestoreOpen: an occupied name is waited for, not refused. *)
BugWaitForName(p) ==
    /\ pc[p] = "target"
    /\ path = None
    /\ \/ /\ copy[rec[p]] # None
          /\ src' = [src EXCEPT ![p] = copy[rec[p]]]
          /\ Goto(p, "restore")
          /\ UNCHANGED <<rec, mode, dst>>
       \/ Return(p)
    /\ UNCHANGED <<disk, store, approvals, ghosts>>

(* The original name must be free; the managed copy is opened. *)
RestoreOpen(p) ==
    /\ pc[p] = "target"
    /\ LET i == copy[rec[p]] IN
       \/ /\ path = None
          /\ i # None /\ perm[i] = Private
          /\ src' = [src EXCEPT ![p] = i]
          /\ Goto(p, "restore")
          /\ UNCHANGED <<rec, mode, dst>>
       \/ Return(p)
    /\ UNCHANGED <<disk, store, approvals, ghosts>>

(* The destination is created exclusively: an existing file is a collision. *)
RestoreCreate(p) ==
    /\ pc[p] = "restore"
    /\ \/ /\ path = None
          /\ \E i \in Free :
                /\ NewFile(i)
                /\ path' = i
                /\ dst' = [dst EXCEPT ![p] = i]
          /\ Goto(p, "write")
          /\ UNCHANGED <<copy, rec, mode, src>>
       \/ Return(p) /\ UNCHANGED disk
    /\ UNCHANGED <<store, approvals, ghosts>>

(* Mutant of RestoreWrite: the original mode is not given back. *)
BugModeNotRestored(p) ==
    /\ pc[p] = "write"
    /\ \/ /\ content' = [content EXCEPT ![dst[p]] = content[src[p]]]
          /\ content[src[p]] = Digest[rec[p]]
          /\ Goto(p, "confirm")
       \/ Goto(p, "undo") /\ UNCHANGED content
    /\ UNCHANGED <<path, copy, perm, store, approvals, rec, mode, src, dst, ghosts>>

(* Copy and hash, compare the digest, give back the original mode. *)
RestoreWrite(p) ==
    /\ pc[p] = "write"
    /\ \/ /\ content' = [content EXCEPT ![dst[p]] = content[src[p]]]
          /\ \/ /\ content[src[p]] = Digest[rec[p]]
                /\ perm' = [perm EXCEPT ![dst[p]] = mode[p]]
                /\ Goto(p, "confirm")
             \/ Goto(p, "undo") /\ UNCHANGED perm
       \/ Goto(p, "undo") /\ UNCHANGED <<content, perm>>
    /\ UNCHANGED <<path, copy, store, approvals, rec, mode, src, dst, ghosts>>

(* Mutant of RestoreConfirm: the copy is removed before the record changes. *)
BugReleaseEarly(p) ==
    /\ pc[p] = "confirm"
    /\ copy[rec[p]] = src[p]
    /\ copy' = [copy EXCEPT ![rec[p]] = None]
    /\ Goto(p, "commit")
    /\ UNCHANGED <<path, content, perm, store, approvals, rec, mode, src, dst, ghosts>>

(* The managed copy must still be the file that was opened. *)
RestoreConfirm(p) ==
    /\ pc[p] = "confirm"
    /\ \/ copy[rec[p]] = src[p] /\ Goto(p, "commit")
       \/ copy[rec[p]] # src[p] /\ Goto(p, "undo")
    /\ UNCHANGED <<disk, store, approvals, rec, mode, src, dst, ghosts>>

(* The restored record is saved; from then on the destination is kept. *)
RestoreCommit(p) ==
    /\ pc[p] = "commit"
    /\ \/ /\ Save(rec[p], "restored", mode[p])
          /\ Goto(p, "release")
          /\ UNCHANGED faults
       \/ /\ SaveRefused(rec[p], "restored")
          /\ Goto(p, "undo")
          /\ UNCHANGED store
    /\ UNCHANGED <<disk, approvals, rec, mode, src, dst, owned, userSteps>>

(* The managed copy is removed; a failure to do so is ignored. *)
ReleaseCopy(p) ==
    /\ pc[p] = "release"
    /\ \/ copy' = [copy EXCEPT ![rec[p]] = None]
       \/ UNCHANGED copy
    /\ Return(p)
    /\ UNCHANGED <<path, content, perm, store, approvals, ghosts>>

(* The deferred removal of the destination, by name. *)
UndoRestore(p) ==
    /\ pc[p] = "undo"
    /\ \/ path' = None /\ UNCHANGED faults
       \/ CleanupFails /\ UNCHANGED path
    /\ Return(p)
    /\ UNCHANGED <<copy, content, perm, store, approvals, owned, userSteps>>

-----------------------------------------------------------------------------
(* The environment. *)

(* The process is killed: no deferred function runs. *)
Crash(p) ==
    /\ pc[p] # "idle"
    /\ faults < MaxFaults
    /\ faults' = faults + 1
    /\ Return(p)
    /\ UNCHANGED <<disk, store, approvals, owned, userSteps>>

UserMayAct ==
    /\ userSteps < MaxUserSteps
    /\ ConcurrentUser \/ \A p \in Procs : pc[p] = "idle"
    /\ userSteps' = userSteps + 1

(* What the user gives up by changing the file at the path. *)
Disowned == IF path = None THEN {} ELSE {content[path]}

(* A new file is put at the path, in place of what was there. *)
UserReplace(c, m) ==
    /\ UserMayAct
    /\ \E i \in Free :
          /\ content' = [content EXCEPT ![i] = c]
          /\ perm' = [perm EXCEPT ![i] = m]
          /\ path' = i
    /\ owned' = (owned \ Disowned) \cup {c}
    /\ UNCHANGED <<copy, store, approvals, locals, faults>>

(* The file at the path is rewritten in place: same inode, new bytes. *)
UserEdit(c) ==
    /\ UserMayAct
    /\ Regular(path)
    /\ content' = [content EXCEPT ![path] = c]
    /\ owned' = (owned \ Disowned) \cup {c}
    /\ UNCHANGED <<path, copy, perm, store, approvals, locals, faults>>

UserDelete ==
    /\ UserMayAct
    /\ path # None
    /\ path' = None
    /\ owned' = owned \ Disowned
    /\ UNCHANGED <<copy, content, perm, store, approvals, locals, faults>>

User ==
    \/ \E c \in Contents, m \in Modes \cup {Irregular} : UserReplace(c, m)
    \/ \E c \in Contents : UserEdit(c)
    \/ UserDelete

-----------------------------------------------------------------------------
Init ==
    /\ path = None
    /\ copy = [r \in Recs |-> None]
    /\ content = [i \in Inodes |-> Empty]
    /\ perm = [i \in Inodes |-> Private]
    /\ rstate = [r \in Recs |-> "none"]
    /\ rmode = [r \in Recs |-> None]
    /\ approvals = {}
    /\ pc = [p \in Procs |-> "idle"]
    /\ rec = [p \in Procs |-> None]
    /\ mode = [p \in Procs |-> None]
    /\ src = [p \in Procs |-> None]
    /\ dst = [p \in Procs |-> None]
    /\ owned = {}
    /\ userSteps = 0
    /\ faults = 0

Apply(p) ==
    \/ ApplyOpen(p) \/ ApplyVerify(p) \/ Request(p) \/ Lstat(p) \/ OpenSource(p)
    \/ CreateCopy(p) \/ CopyBytes(p) \/ SaveQuarantined(p) \/ Fail(p)
    \/ DiscardCopy(p) \/ Recheck(p) \/ RemoveSource(p)

Restore(p) ==
    \/ RestoreLoad(p) \/ RestoreOpen(p) \/ RestoreCreate(p) \/ RestoreWrite(p)
    \/ RestoreConfirm(p) \/ RestoreCommit(p) \/ ReleaseCopy(p) \/ UndoRestore(p)

Next ==
    \/ \E r \in Recs : Preview(r) \/ PreviewRestore(r)
    \/ \E p \in Procs : Apply(p) \/ Restore(p) \/ Crash(p)
    \/ User

Spec == Init /\ [][Next]_vars

(* A running command takes its next step unless it is killed: nothing in   *)
(* it waits for another command.  Starting a command is the user's choice. *)
Running(p) == pc[p] # "idle" /\ (Apply(p) \/ Restore(p))

FairSpec == Spec /\ \A p \in Procs : WF_vars(Running(p))

-----------------------------------------------------------------------------
(* Properties. *)

Labels ==
    {"idle", "verify", "request", "lstat", "open", "create", "copy", "save",
     "fail", "discard", "recheck", "remove",
     "target", "restore", "write", "confirm", "commit", "release", "undo"}

(* Every variable stays within its type. *)
TypeOK ==
    /\ path \in Inodes \cup {None}
    /\ copy \in [Recs -> Inodes \cup {None}]
    /\ content \in [Inodes -> Contents \cup {Empty}]
    /\ perm \in [Inodes -> Modes \cup {Irregular}]
    /\ rstate \in [Recs -> States]
    /\ rmode \in [Recs -> Modes \cup {None}]
    /\ approvals \subseteq Approvals
    /\ pc \in [Procs -> Labels]
    /\ rec \in [Procs -> Recs \cup {None}]
    /\ mode \in [Procs -> Modes \cup {None}]
    /\ src \in [Procs -> Inodes \cup {None}]
    /\ dst \in [Procs -> Inodes \cup {None}]
    /\ owned \subseteq Contents \cup {Empty}
    /\ userSteps \in Nat
    /\ faults \in Nat

(* The managed copy of r exists, holds exactly the bytes the record names  *)
(* and is private.                                                         *)
Intact(r) ==
    /\ copy[r] # None
    /\ content[copy[r]] = Digest[r]
    /\ perm[copy[r]] = Private

(* A record that says quarantined always has its verified private copy,    *)
(* whatever commands race, crash or fail: the copy is complete before the  *)
(* record says so (manager.go:130-148) and leaves only after the record    *)
(* says restored (manager.go:240-244).                                     *)
QuarantinedCopyIntact == \A r \in Recs : rstate[r] = "quarantined" => Intact(r)

(* The steps of Quarantine between the requested record and the return.    *)
Owns(p, r) ==
    /\ rec[p] = r
    /\ pc[p] \in {"lstat", "open", "create", "copy", "save", "fail", "discard"}

(* However many commands apply the same selection at once, one of them     *)
(* wins the requested record and only that one touches the copy            *)
(* (store/quarantine.go:34-50).                                            *)
OneWinner ==
    \A p, q \in Procs, r \in Recs : Owns(p, r) /\ Owns(q, r) => p = q

(* A record is left requested with nobody working on it only after a crash *)
(* or a failed save: every other early return goes through fail            *)
(* (manager.go:54-61).                                                     *)
OrphanNeedsFault ==
    \A r \in Recs :
        rstate[r] = "requested" /\ (\A p \in Procs : ~Owns(p, r)) => faults > 0

(* No record exists whose identity and mode the user did not preview       *)
(* (proposal.go:97-103): a file whose mode drifted needs a new preview.    *)
RecordsApproved ==
    \A r \in Recs :
        rstate[r] # "none" => Approval("quarantine", r, rmode[r]) \in approvals

(* Whatever the user left in the file and did not delete is still there or *)
(* in the custody of a quarantined record.                                 *)
NothingLost ==
    \A c \in owned \ {Empty} :
        \/ path # None /\ content[path] = c
        \/ \E r \in Recs : rstate[r] = "quarantined" /\ Intact(r) /\ Digest[r] = c

(* Quarantine removes the original only when the bytes removed are the     *)
(* bytes it verified and stored (manager.go:138-158).                      *)
RemovesOnlyVerified ==
    [][\A p \in Procs :
          pc[p] = "remove" /\ pc'[p] = "idle" /\ path # None /\ path' = None
          => content[path] = Digest[rec[p]]]_vars

(* A record becomes restored only while the original name holds the exact  *)
(* bytes with the original mode (manager.go:220-243).                      *)
RestoredExactly ==
    [][\A r \in Recs :
          rstate[r] = "quarantined" /\ rstate'[r] = "restored"
          => /\ path # None
             /\ content[path] = Digest[r]
             /\ perm[path] = rmode[r]]_vars

(* Every command returns. *)
CommandsReturn == \A p \in Procs : pc[p] # "idle" ~> pc[p] = "idle"

(* A requested record is settled, unless a crash or a failed save left it  *)
(* behind.                                                                 *)
RequestsSettle ==
    \A r \in Recs : rstate[r] = "requested" ~> (rstate[r] # "requested" \/ faults > 0)

(* Nobody is left waiting and no approval stays used up: with every branch *)
(* of Quarantine and Restore, every command returns and every requested    *)
(* record is settled (manager.go:54-61, 213-219).                          *)
EveryoneSettles == CommandsReturn /\ RequestsSettle

(* Quarantine keeps the promise of QuarantineCustody: the vault holds the  *)
(* bytes of a record as long as its state says so.                         *)
Custody == INSTANCE QuarantineCustody
    WITH state <- rstate, held <- {r \in Recs : Intact(r)}
ImplementsCustody == Custody!Spec

=============================================================================
