-------------------------- MODULE QuarantineProofs --------------------------
(***************************************************************************)
(* Proofs about Quarantine for any number of commands, records, contents,  *)
(* modes and inodes, any user interference and any number of faults.       *)
(***************************************************************************)
EXTENDS Quarantine, TLAPS

(* The commands' locals are set wherever they are used, and a stored       *)
(* record has a mode.                                                      *)
LocalsOK ==
    /\ \A p \in Procs :
          /\ pc[p] # "idle" => rec[p] \in Recs /\ mode[p] \in Modes
          /\ pc[p] \in {"verify", "open", "create", "copy", "restore", "write"}
                => src[p] \in Inodes
          /\ pc[p] \in {"copy", "save", "write"} => dst[p] \in Inodes
    /\ \A r \in Recs : rstate[r] # "none" => rmode[r] \in Modes

TypeInv == TypeOK /\ LocalsOK

LEMMA TypeInit == Init => TypeInv
BY QuarantineAssumption
   DEF Init, TypeInv, TypeOK, LocalsOK, States, Labels, Approvals

LEMMA TypeStep == TypeInv /\ [Next]_vars => TypeInv'
<1> SUFFICES ASSUME TypeInv, [Next]_vars PROVE TypeInv'
  OBVIOUS
<1> USE QuarantineAssumption DEF TypeInv, TypeOK, LocalsOK
<1>1. ASSUME NEW r \in Recs, Preview(r) PROVE TypeInv'
  BY <1>1 DEF Preview, Approval, Approvals, Regular, disk, store, locals, ghosts
<1>2. ASSUME NEW r \in Recs, PreviewRestore(r) PROVE TypeInv'
  BY <1>2 DEF PreviewRestore, Approval, Approvals, disk, store, locals, ghosts
<1>3. ASSUME NEW p \in Procs, Apply(p) PROVE TypeInv'
  <2>1. CASE ApplyOpen(p)
    BY <2>1 DEF ApplyOpen, Regular, Goto, Return, Labels, States, Approvals,
       disk, store, locals, ghosts
  <2>2. CASE ApplyVerify(p)
    BY <2>2 DEF ApplyVerify, Goto, Return, Labels, States, Approvals,
       disk, store, locals, ghosts
  <2>3. CASE Request(p)
    BY <2>3 DEF Request, Save, SaveRefused, Goto, Return, Labels, States, Approvals,
       disk, store, locals, ghosts
  <2>4. CASE Lstat(p)
    BY <2>4 DEF Lstat, Regular, Goto, Return, Labels, States, Approvals,
       disk, store, locals, ghosts
  <2>5. CASE OpenSource(p)
    BY <2>5 DEF OpenSource, Regular, Goto, Return, Labels, States, Approvals,
       disk, store, locals, ghosts
  <2>6. CASE CreateCopy(p)
    BY <2>6 DEF CreateCopy, NewFile, Free, Goto, Return, Labels, States, Approvals,
       disk, store, locals, ghosts
  <2>7. CASE CopyBytes(p)
    BY <2>7 DEF CopyBytes, Goto, Return, Labels, States, Approvals,
       disk, store, locals, ghosts
  <2>8. CASE SaveQuarantined(p)
    BY <2>8 DEF SaveQuarantined, Save, SaveRefused, Goto, Return, Labels, States, Approvals,
       disk, store, locals, ghosts
  <2>9. CASE Fail(p)
    BY <2>9 DEF Fail, Save, SaveRefused, Goto, Return, Labels, States, Approvals,
       disk, store, locals, ghosts
  <2>10. CASE DiscardCopy(p)
    BY <2>10 DEF DiscardCopy, CleanupFails, Goto, Return, Labels, States, Approvals,
       disk, store, locals, ghosts
  <2>11. CASE Recheck(p)
    BY <2>11 DEF Recheck, Goto, Return, Labels, States, Approvals,
       disk, store, locals, ghosts
  <2>12. CASE RemoveSource(p)
    BY <2>12 DEF RemoveSource, Goto, Return, Labels, States, Approvals,
       disk, store, locals, ghosts
  <2> QED
    BY <1>3, <2>1, <2>2, <2>3, <2>4, <2>5, <2>6, <2>7, <2>8, <2>9, <2>10, <2>11, <2>12 DEF Apply
<1>4. ASSUME NEW p \in Procs, Restore(p) PROVE TypeInv'
  <2>1. CASE RestoreLoad(p)
    BY <2>1 DEF RestoreLoad, Approval, Goto, Return, Labels, States, Approvals,
       disk, store, locals, ghosts
  <2>2. CASE RestoreOpen(p)
    BY <2>2 DEF RestoreOpen, Goto, Return, Labels, States, Approvals,
       disk, store, locals, ghosts
  <2>3. CASE RestoreCreate(p)
    BY <2>3 DEF RestoreCreate, NewFile, Free, Goto, Return, Labels, States, Approvals,
       disk, store, locals, ghosts
  <2>4. CASE RestoreWrite(p)
    BY <2>4 DEF RestoreWrite, Goto, Return, Labels, States, Approvals,
       disk, store, locals, ghosts
  <2>5. CASE RestoreConfirm(p)
    BY <2>5 DEF RestoreConfirm, Goto, Return, Labels, States, Approvals,
       disk, store, locals, ghosts
  <2>6. CASE RestoreCommit(p)
    BY <2>6 DEF RestoreCommit, Save, SaveRefused, Goto, Return, Labels, States, Approvals,
       disk, store, locals, ghosts
  <2>7. CASE ReleaseCopy(p)
    BY <2>7 DEF ReleaseCopy, Goto, Return, Labels, States, Approvals,
       disk, store, locals, ghosts
  <2>8. CASE UndoRestore(p)
    BY <2>8 DEF UndoRestore, CleanupFails, Goto, Return, Labels, States, Approvals,
       disk, store, locals, ghosts
  <2> QED
    BY <1>4, <2>1, <2>2, <2>3, <2>4, <2>5, <2>6, <2>7, <2>8 DEF Restore
<1>5. ASSUME NEW p \in Procs, Crash(p) PROVE TypeInv'
  BY <1>5 DEF Crash, Goto, Return, Labels, disk, store, ghosts
<1>6. CASE User
  <2>1. ASSUME NEW c \in Contents, NEW m \in Modes \cup {Irregular}, UserReplace(c, m)
        PROVE TypeInv'
    BY <2>1 DEF UserReplace, UserMayAct, Disowned, Free, store, locals
  <2>2. ASSUME NEW c \in Contents, UserEdit(c) PROVE TypeInv'
    BY <2>2 DEF UserEdit, UserMayAct, Disowned, Regular, store, locals
  <2>3. CASE UserDelete
    BY <2>3 DEF UserDelete, UserMayAct, Disowned, store, locals
  <2> QED
    BY <1>6, <2>1, <2>2, <2>3 DEF User
<1>7. CASE UNCHANGED vars
  BY <1>7 DEF vars, disk, store, locals, ghosts
<1> QED
  BY <1>1, <1>2, <1>3, <1>4, <1>5, <1>6, <1>7 DEF Next

(* The type invariant of Quarantine. *)
THEOREM TypeCorrect == Spec => []TypeOK
<1>1. TypeInv => TypeOK
  BY DEF TypeInv
<1> QED
  BY <1>1, TypeInit, TypeStep, PTL DEF Spec

-----------------------------------------------------------------------------
(* The inductive invariant behind custody.  A command that owns a record   *)
(* finds it requested; the copy it writes is the one under the record's    *)
(* name; and no managed copy is the file at the path, the destination of a *)
(* restore, or the copy of another record, so that nobody else's write or  *)
(* edit reaches it.                                                        *)
Claims ==
    \A p \in Procs :
        /\ pc[p] \in {"lstat", "open", "create", "copy", "save", "fail"}
              => rstate[rec[p]] = "requested"
        /\ pc[p] = "discard" => rstate[rec[p]] \in {"requested", "failed"}
        /\ pc[p] = "release" => rstate[rec[p]] = "restored"

CopyInProgress ==
    \A p \in Procs :
        /\ pc[p] = "copy" => copy[rec[p]] = dst[p] /\ perm[dst[p]] = Private
        /\ pc[p] = "save" => Intact(rec[p])

Separate ==
    \A r \in Recs : copy[r] # None =>
        /\ copy[r] # path
        /\ \A s \in Recs : copy[s] = copy[r] => s = r
        /\ \A p \in Procs : pc[p] = "write" => dst[p] # copy[r]

CustodyInv ==
    /\ TypeInv
    /\ Claims
    /\ OneWinner
    /\ CopyInProgress
    /\ Separate
    /\ QuarantinedCopyIntact

LEMMA CustodyInit == Init => CustodyInv
<1> SUFFICES ASSUME Init PROVE CustodyInv
  OBVIOUS
<1>1. TypeInv
  BY TypeInit
<1> QED
  BY <1>1 DEF Init, CustodyInv, Claims, OneWinner, Owns, CopyInProgress, Separate,
              QuarantinedCopyIntact, TypeInv, TypeOK, LocalsOK

LEMMA CustodyStep == CustodyInv /\ [Next]_vars => CustodyInv'
<1> SUFFICES ASSUME CustodyInv, [Next]_vars PROVE CustodyInv'
  OBVIOUS
<1>t. TypeInv'
  BY TypeStep DEF CustodyInv
<1> USE QuarantineAssumption, <1>t
    DEF CustodyInv, TypeInv, TypeOK, LocalsOK, Claims, OneWinner, Owns,
        CopyInProgress, Separate, QuarantinedCopyIntact, Intact
<1>1. ASSUME NEW r \in Recs, Preview(r) PROVE CustodyInv'
  BY <1>1 DEF Preview, disk, store, locals, ghosts
<1>2. ASSUME NEW r \in Recs, PreviewRestore(r) PROVE CustodyInv'
  BY <1>2 DEF PreviewRestore, disk, store, locals, ghosts
<1>3. ASSUME NEW p \in Procs, Apply(p) PROVE CustodyInv'
  <2>1. CASE ApplyOpen(p)
    BY <2>1 DEF ApplyOpen, Regular, Goto, Return,
       disk, store, locals, ghosts
  <2>2. CASE ApplyVerify(p)
    BY SMTT(40), <2>2 DEF ApplyVerify, Goto, Return,
       disk, store, locals, ghosts
  <2>3. CASE Request(p)
    BY SMTT(40), <2>3 DEF Request, Save, SaveRefused, ValidTransition, Goto, Return,
       disk, store, locals, ghosts
  <2>4. CASE Lstat(p)
    BY <2>4 DEF Lstat, Regular, Goto, Return,
       disk, store, locals, ghosts
  <2>5. CASE OpenSource(p)
    BY <2>5 DEF OpenSource, Regular, Goto, Return,
       disk, store, locals, ghosts
  <2>6. CASE CreateCopy(p)
    BY SMTT(40), <2>6 DEF CreateCopy, NewFile, Free, Goto, Return,
       disk, store, locals, ghosts
  <2>7. CASE CopyBytes(p)
    BY <2>7 DEF CopyBytes, Goto, Return,
       disk, store, locals, ghosts
  <2>8. CASE SaveQuarantined(p)
    BY <2>8 DEF SaveQuarantined, Save, SaveRefused, ValidTransition, Goto, Return,
       disk, store, locals, ghosts
  <2>9. CASE Fail(p)
    BY SMTT(40), <2>9 DEF Fail, Save, SaveRefused, ValidTransition, Goto, Return,
       disk, store, locals, ghosts
  <2>10. CASE DiscardCopy(p)
    BY <2>10 DEF DiscardCopy, CleanupFails, Goto, Return,
       disk, store, locals, ghosts
  <2>11. CASE Recheck(p)
    BY SMTT(40), <2>11 DEF Recheck, Goto, Return,
       disk, store, locals, ghosts
  <2>12. CASE RemoveSource(p)
    BY <2>12 DEF RemoveSource, Goto, Return,
       disk, store, locals, ghosts
  <2> QED
    BY <1>3, <2>1, <2>2, <2>3, <2>4, <2>5, <2>6, <2>7, <2>8, <2>9, <2>10, <2>11, <2>12 DEF Apply
<1>4. ASSUME NEW p \in Procs, Restore(p) PROVE CustodyInv'
  <2>1. CASE RestoreLoad(p)
    BY <2>1 DEF RestoreLoad, Approval, Goto, Return,
       disk, store, locals, ghosts
  <2>2. CASE RestoreOpen(p)
    BY SMTT(40), <2>2 DEF RestoreOpen, Goto, Return,
       disk, store, locals, ghosts
  <2>3. CASE RestoreCreate(p)
    <3>1. CASE Return(p) /\ UNCHANGED disk
      BY <2>3, <3>1 DEF RestoreCreate, Goto, Return, disk, store, ghosts
    <3>2. CASE ~(Return(p) /\ UNCHANGED disk)
      <4>1. PICK i \in Free :
               /\ NewFile(i)
               /\ path' = i
               /\ dst' = [dst EXCEPT ![p] = i]
        BY <2>3, <3>2 DEF RestoreCreate
      <4>2. /\ pc[p] = "restore"
            /\ pc' = [pc EXCEPT ![p] = "write"]
            /\ UNCHANGED <<copy, rec, rstate>>
        BY <2>3, <3>2 DEF RestoreCreate, Goto, store
      <4>3. \A r \in Recs : copy[r] # i
        BY <4>1 DEF Free
      <4>4. \A q \in Procs : dst[q] # i
        BY <4>1 DEF Free
      <4>5. Claims' /\ OneWinner'
        BY <4>2
      <4>6. CopyInProgress'
        BY <4>1, <4>2, <4>3, <4>4 DEF NewFile
      <4>7. Separate'
        BY <4>1, <4>2, <4>3
      <4>8. QuarantinedCopyIntact'
        BY <4>1, <4>2, <4>3 DEF NewFile
      <4> QED
        BY <4>5, <4>6, <4>7, <4>8
    <3> QED
      BY <3>1, <3>2
  <2>4. CASE RestoreWrite(p)
    BY <2>4 DEF RestoreWrite, Goto, Return,
       disk, store, locals, ghosts
  <2>5. CASE RestoreConfirm(p)
    BY <2>5 DEF RestoreConfirm, Goto, Return,
       disk, store, locals, ghosts
  <2>6. CASE RestoreCommit(p)
    BY <2>6 DEF RestoreCommit, Save, SaveRefused, ValidTransition, Goto, Return,
       disk, store, locals, ghosts
  <2>7. CASE ReleaseCopy(p)
    BY <2>7 DEF ReleaseCopy, Goto, Return,
       disk, store, locals, ghosts
  <2>8. CASE UndoRestore(p)
    BY <2>8 DEF UndoRestore, CleanupFails, Goto, Return,
       disk, store, locals, ghosts
  <2> QED
    BY <1>4, <2>1, <2>2, <2>3, <2>4, <2>5, <2>6, <2>7, <2>8 DEF Restore
<1>5. ASSUME NEW p \in Procs, Crash(p) PROVE CustodyInv'
  BY <1>5 DEF Crash, Goto, Return, disk, store, ghosts
<1>6. CASE User
  <2>1. ASSUME NEW c \in Contents, NEW m \in Modes \cup {Irregular}, UserReplace(c, m)
        PROVE CustodyInv'
    BY <2>1 DEF UserReplace, UserMayAct, Free, store, locals
  <2>2. ASSUME NEW c \in Contents, UserEdit(c) PROVE CustodyInv'
    BY <2>2 DEF UserEdit, UserMayAct, Regular, store, locals
  <2>3. CASE UserDelete
    BY <2>3 DEF UserDelete, UserMayAct, store, locals
  <2> QED
    BY <1>6, <2>1, <2>2, <2>3 DEF User
<1>7. CASE UNCHANGED vars
  BY <1>7 DEF vars, disk, store, locals, ghosts
<1> QED
  BY <1>1, <1>2, <1>3, <1>4, <1>5, <1>6, <1>7 DEF Next

(* Whatever commands race, crash, fail or are disturbed by the user, a     *)
(* quarantined record has its verified, private managed copy               *)
(* (manager.go:130-148, 240-244).                                          *)
THEOREM CustodyKept == Spec => []QuarantinedCopyIntact
<1>1. CustodyInv => QuarantinedCopyIntact
  BY DEF CustodyInv
<1> QED
  BY <1>1, CustodyInit, CustodyStep, PTL DEF Spec

(* Of any number of commands that apply the same selection, at most one    *)
(* works on the record (store/quarantine.go:34-50).                        *)
THEOREM SingleWinner == Spec => []OneWinner
<1>1. CustodyInv => OneWinner
  BY DEF CustodyInv
<1> QED
  BY <1>1, CustodyInit, CustodyStep, PTL DEF Spec
-----------------------------------------------------------------------------
(* Approval and orphaned records. *)

(* A running command works for an approved record. *)
CommandsApproved ==
    \A p \in Procs :
        pc[p] # "idle" => Approval("quarantine", rec[p], mode[p]) \in approvals

(* A copy is discarded under a requested record only after a failed save.  *)
DiscardExplained ==
    \A p \in Procs :
        pc[p] = "discard" /\ rstate[rec[p]] = "requested" => faults > 0

RecordInv ==
    /\ CustodyInv
    /\ CommandsApproved
    /\ RecordsApproved
    /\ DiscardExplained
    /\ OrphanNeedsFault

LEMMA RecordInit == Init => RecordInv
<1> SUFFICES ASSUME Init PROVE RecordInv
  OBVIOUS
<1>1. CustodyInv
  BY CustodyInit
<1> QED
  BY <1>1 DEF Init, RecordInv, CommandsApproved, RecordsApproved,
              DiscardExplained, OrphanNeedsFault

LEMMA RecordStep == RecordInv /\ [Next]_vars => RecordInv'
<1> SUFFICES ASSUME RecordInv, [Next]_vars PROVE RecordInv'
  OBVIOUS
<1>c. CustodyInv'
  BY CustodyStep DEF RecordInv
<1> USE QuarantineAssumption, <1>c
    DEF RecordInv, CommandsApproved, RecordsApproved, DiscardExplained,
        OrphanNeedsFault, Owns,
        CustodyInv, TypeInv, TypeOK, LocalsOK, Claims, OneWinner
<1>1. ASSUME NEW r \in Recs, Preview(r) PROVE RecordInv'
  BY <1>1 DEF Preview, disk, store, locals, ghosts
<1>2. ASSUME NEW r \in Recs, PreviewRestore(r) PROVE RecordInv'
  BY <1>2 DEF PreviewRestore, disk, store, locals, ghosts
<1>3. ASSUME NEW p \in Procs, Apply(p) PROVE RecordInv'
  <2>1. CASE ApplyOpen(p)
    BY <2>1 DEF ApplyOpen, Approval, Approvals, Regular, Goto, Return,
       disk, store, locals, ghosts
  <2>2. CASE ApplyVerify(p)
    BY SMTT(40), <2>2 DEF ApplyVerify, Goto, Return,
       disk, store, locals, ghosts
  <2>3. CASE Request(p)
    <3>1. CASE Save(rec[p], "requested", mode[p]) /\ Goto(p, "lstat")
      <4>1. UNCHANGED <<rec, mode, faults, approvals>> /\ pc[p] = "request"
        BY <2>3, <3>1 DEF Request, Return, Goto
      <4>2. CommandsApproved' /\ RecordsApproved'
        BY <3>1, <4>1 DEF Save, Goto
      <4>3. DiscardExplained' /\ OrphanNeedsFault'
        BY <3>1, <4>1 DEF Save, Goto, ValidTransition
      <4> QED
        BY <4>2, <4>3
    <3>2. CASE Return(p) /\ UNCHANGED store
      <4>1. UNCHANGED approvals /\ faults' \in {faults, faults + 1} /\ pc[p] = "request"
        BY <2>3, <3>2 DEF Request, Return, Goto, SaveRefused
      <4> QED
        BY <3>2, <4>1 DEF Return, Goto, store
    <3> QED
      BY <2>3, <3>1, <3>2 DEF Request
  <2>4. CASE Lstat(p)
    BY <2>4 DEF Lstat, Regular, Goto, Return,
       disk, store, locals, ghosts
  <2>5. CASE OpenSource(p)
    BY <2>5 DEF OpenSource, Regular, Goto, Return,
       disk, store, locals, ghosts
  <2>6. CASE CreateCopy(p)
    BY <2>6 DEF CreateCopy, NewFile, Free, Goto, Return,
       disk, store, locals, ghosts
  <2>7. CASE CopyBytes(p)
    BY <2>7 DEF CopyBytes, Goto, Return,
       disk, store, locals, ghosts
  <2>8. CASE SaveQuarantined(p)
    BY <2>8 DEF SaveQuarantined, Save, SaveRefused, ValidTransition, Goto, Return,
       disk, store, locals, ghosts
  <2>9. CASE Fail(p)
    <3>1. /\ pc[p] = "fail" /\ rec[p] \in Recs /\ rstate[rec[p]] = "requested"
          /\ UNCHANGED approvals
          /\ Return(p) \/ (Goto(p, "discard") /\ UNCHANGED <<rec, mode, src, dst>>)
      BY <2>9 DEF Fail
    <3>2. CASE Save(rec[p], "failed", mode[p]) /\ UNCHANGED faults
      <4>1. CommandsApproved' /\ RecordsApproved'
        BY <3>1, <3>2 DEF Save, Goto, Return
      <4>2. rstate' = [rstate EXCEPT ![rec[p]] = "failed"]
        BY <3>2 DEF Save
      <4>3. \A q \in Procs : q # p => pc'[q] = pc[q] /\ rec'[q] = rec[q]
        BY <3>1 DEF Goto, Return
      <4>4. pc'[p] = "idle" \/ (pc'[p] = "discard" /\ rec'[p] = rec[p])
        BY <3>1 DEF Goto, Return
      <4>5. DiscardExplained'
        BY <3>1, <3>2, <4>2, <4>3, <4>4
      <4>6. OrphanNeedsFault'
        BY <3>1, <3>2, <4>2, <4>3
      <4> QED
        BY <4>1, <4>5, <4>6
    <3>3. CASE SaveRefused(rec[p], "failed") /\ UNCHANGED store
      <4>1. faults' = faults + 1
        BY <3>1, <3>3 DEF SaveRefused, ValidTransition
      <4> QED
        BY SMTT(40), <3>1, <3>3, <4>1 DEF Goto, Return, store
    <3> QED
      BY <2>9, <3>2, <3>3 DEF Fail
  <2>10. CASE DiscardCopy(p)
    BY <2>10 DEF DiscardCopy, CleanupFails, Goto, Return,
       disk, store, locals, ghosts
  <2>11. CASE Recheck(p)
    BY SMTT(40), <2>11 DEF Recheck, Goto, Return,
       disk, store, locals, ghosts
  <2>12. CASE RemoveSource(p)
    BY <2>12 DEF RemoveSource, Goto, Return,
       disk, store, locals, ghosts
  <2> QED
    BY <1>3, <2>1, <2>2, <2>3, <2>4, <2>5, <2>6, <2>7, <2>8, <2>9, <2>10, <2>11, <2>12 DEF Apply
<1>4. ASSUME NEW p \in Procs, Restore(p) PROVE RecordInv'
  <2>1. CASE RestoreLoad(p)
    BY <2>1 DEF RestoreLoad, Approval, Goto, Return,
       disk, store, locals, ghosts
  <2>2. CASE RestoreOpen(p)
    BY SMTT(40), <2>2 DEF RestoreOpen, Goto, Return,
       disk, store, locals, ghosts
  <2>3. CASE RestoreCreate(p)
    BY SMTT(40), <2>3 DEF RestoreCreate, NewFile, Free, Goto, Return,
       disk, store, locals, ghosts
  <2>4. CASE RestoreWrite(p)
    BY <2>4 DEF RestoreWrite, Goto, Return,
       disk, store, locals, ghosts
  <2>5. CASE RestoreConfirm(p)
    BY <2>5 DEF RestoreConfirm, Goto, Return,
       disk, store, locals, ghosts
  <2>6. CASE RestoreCommit(p)
    BY <2>6 DEF RestoreCommit, Save, SaveRefused, ValidTransition, Goto, Return,
       disk, store, locals, ghosts
  <2>7. CASE ReleaseCopy(p)
    BY <2>7 DEF ReleaseCopy, Goto, Return,
       disk, store, locals, ghosts
  <2>8. CASE UndoRestore(p)
    BY <2>8 DEF UndoRestore, CleanupFails, Goto, Return,
       disk, store, locals, ghosts
  <2> QED
    BY <1>4, <2>1, <2>2, <2>3, <2>4, <2>5, <2>6, <2>7, <2>8 DEF Restore
<1>5. ASSUME NEW p \in Procs, Crash(p) PROVE RecordInv'
  BY <1>5 DEF Crash, Goto, Return, disk, store, ghosts
<1>6. CASE User
  BY <1>6 DEF User, UserReplace, UserEdit, UserDelete, UserMayAct, store, locals
<1>7. CASE UNCHANGED vars
  BY <1>7 DEF vars, disk, store, locals, ghosts
<1> QED
  BY <1>1, <1>2, <1>3, <1>4, <1>5, <1>6, <1>7 DEF Next

(* No record is ever written for a digest and mode the user did not        *)
(* preview (proposal.go:97-103).                                           *)
THEOREM OnlyApproved == Spec => []RecordsApproved
<1>1. RecordInv => RecordsApproved
  BY DEF RecordInv
<1> QED
  BY <1>1, RecordInit, RecordStep, PTL DEF Spec

(* Without a crash or a failed save no record stays requested with nobody  *)
(* working on it (manager.go:54-61).                                       *)
THEOREM NoOrphanWithoutFault == Spec => []OrphanNeedsFault
<1>1. RecordInv => OrphanNeedsFault
  BY DEF RecordInv
<1> QED
  BY <1>1, RecordInit, RecordStep, PTL DEF Spec

-----------------------------------------------------------------------------
(* Quarantine implements QuarantineCustody. *)

Held == {r \in Recs : Intact(r)}

LEMMA CustodyRefinedInit == Init => Custody!Init
BY QuarantineAssumption DEF Init, Custody!Init, Intact

LEMMA CustodyRefinedStep ==
    CustodyInv /\ CustodyInv' /\ [Next]_vars => [Custody!Next]_(Custody!vars)
<1> SUFFICES ASSUME CustodyInv, CustodyInv', [Next]_vars
             PROVE  \/ Custody!Next
                    \/ rstate' = rstate /\ Held' = Held
  BY DEF Custody!vars, Held
<1> DEFINE Goal == Custody!Next \/ (rstate' = rstate /\ Held' = Held)
<1> USE QuarantineAssumption
    DEF CustodyInv, TypeInv, TypeOK, LocalsOK, Claims, OneWinner, Owns, CopyInProgress,
        Separate, QuarantinedCopyIntact, Intact, Held, Custody!Next, Custody!Step
<1>1. ASSUME NEW r \in Recs, Preview(r) PROVE Goal
  BY <1>1 DEF Preview, disk, store, locals, ghosts
<1>2. ASSUME NEW r \in Recs, PreviewRestore(r) PROVE Goal
  BY <1>2 DEF PreviewRestore, disk, store, locals, ghosts
<1>3. ASSUME NEW p \in Procs, Apply(p) PROVE Goal
  <2>1. CASE ApplyOpen(p)
    BY <2>1 DEF ApplyOpen, Approval, Approvals, Regular, Goto, Return,
       disk, store, locals, ghosts
  <2>2. CASE ApplyVerify(p)
    BY <2>2 DEF ApplyVerify, Goto, Return,
       disk, store, locals, ghosts
  <2>3. CASE Request(p)
    BY <2>3 DEF Request, Save, SaveRefused, ValidTransition, Custody!Request, Goto, Return,
       disk, store, locals, ghosts
  <2>4. CASE Lstat(p)
    BY <2>4 DEF Lstat, Regular, Goto, Return,
       disk, store, locals, ghosts
  <2>5. CASE OpenSource(p)
    BY <2>5 DEF OpenSource, Regular, Goto, Return,
       disk, store, locals, ghosts
  <2>6. CASE CreateCopy(p)
    BY <2>6 DEF CreateCopy, NewFile, Free, Goto, Return,
       disk, store, locals, ghosts
  <2>7. CASE CopyBytes(p)
    <3>1. PICK s \in Recs : s = rec[p]
      BY <2>7 DEF CopyBytes
    <3>2. /\ copy[s] = dst[p] /\ perm[dst[p]] = Private /\ dst[p] \in Inodes
          /\ rstate[s] = "requested"
          /\ UNCHANGED <<copy, perm, rstate>>
          /\ \/ content' = [content EXCEPT ![dst[p]] = content[src[p]]]
             \/ UNCHANGED content
      BY <2>7, <3>1 DEF CopyBytes, store
    <3>3. \A r \in Recs : r # s => (Intact(r)' <=> Intact(r))
      BY <3>2
    <3>4. CASE Intact(s)'
      <4>1. Held' = Held \cup {s}
        BY <3>3, <3>4
      <4> QED
        BY <3>2, <4>1 DEF Custody!Deposit
    <3>5. CASE ~Intact(s)'
      <4>1. Held' = Held \ {s}
        BY <3>3, <3>5
      <4> QED
        BY <3>2, <4>1 DEF Custody!Discard
    <3> QED
      BY <3>4, <3>5
  <2>8. CASE SaveQuarantined(p)
    BY <2>8 DEF SaveQuarantined, Save, SaveRefused, ValidTransition, Custody!Secure, Goto, Return,
       disk, store, locals, ghosts
  <2>9. CASE Fail(p)
    BY <2>9 DEF Fail, Save, SaveRefused, ValidTransition, Custody!Reject, Goto, Return,
       disk, store, locals, ghosts
  <2>10. CASE DiscardCopy(p)
    BY <2>10 DEF DiscardCopy, CleanupFails, Custody!Discard, Goto, Return,
       disk, store, locals, ghosts
  <2>11. CASE Recheck(p)
    BY <2>11 DEF Recheck, Goto, Return,
       disk, store, locals, ghosts
  <2>12. CASE RemoveSource(p)
    BY <2>12 DEF RemoveSource, Goto, Return,
       disk, store, locals, ghosts
  <2> QED
    BY <1>3, <2>1, <2>2, <2>3, <2>4, <2>5, <2>6, <2>7, <2>8, <2>9, <2>10, <2>11, <2>12 DEF Apply
<1>4. ASSUME NEW p \in Procs, Restore(p) PROVE Goal
  <2>1. CASE RestoreLoad(p)
    BY <2>1 DEF RestoreLoad, Approval, Goto, Return,
       disk, store, locals, ghosts
  <2>2. CASE RestoreOpen(p)
    BY <2>2 DEF RestoreOpen, Goto, Return,
       disk, store, locals, ghosts
  <2>3. CASE RestoreCreate(p)
    BY <2>3 DEF RestoreCreate, NewFile, Free, Goto, Return,
       disk, store, locals, ghosts
  <2>4. CASE RestoreWrite(p)
    BY <2>4 DEF RestoreWrite, Goto, Return,
       disk, store, locals, ghosts
  <2>5. CASE RestoreConfirm(p)
    BY <2>5 DEF RestoreConfirm, Goto, Return,
       disk, store, locals, ghosts
  <2>6. CASE RestoreCommit(p)
    BY <2>6 DEF RestoreCommit, Save, SaveRefused, ValidTransition, Custody!Release, Goto, Return,
       disk, store, locals, ghosts
  <2>7. CASE ReleaseCopy(p)
    BY <2>7 DEF ReleaseCopy, Custody!Discard, Goto, Return,
       disk, store, locals, ghosts
  <2>8. CASE UndoRestore(p)
    BY <2>8 DEF UndoRestore, CleanupFails, Goto, Return,
       disk, store, locals, ghosts
  <2> QED
    BY <1>4, <2>1, <2>2, <2>3, <2>4, <2>5, <2>6, <2>7, <2>8 DEF Restore
<1>5. ASSUME NEW p \in Procs, Crash(p) PROVE Goal
  BY <1>5 DEF Crash, disk, store
<1>6. CASE User
  <2>1. ASSUME NEW c \in Contents, NEW m \in Modes \cup {Irregular}, UserReplace(c, m)
        PROVE Goal
    BY <2>1 DEF UserReplace, UserMayAct, Free, store, locals
  <2>2. ASSUME NEW c \in Contents, UserEdit(c) PROVE Goal
    BY <2>2 DEF UserEdit, UserMayAct, Regular, store, locals
  <2>3. CASE UserDelete
    BY <2>3 DEF UserDelete, UserMayAct, store, locals
  <2> QED
    BY <1>6, <2>1, <2>2, <2>3 DEF User
<1>7. CASE UNCHANGED vars
  BY <1>7 DEF vars, disk, store, locals, ghosts
<1> QED
  BY <1>1, <1>2, <1>3, <1>4, <1>5, <1>6, <1>7 DEF Next

(* Every behaviour of the commands, the user and the faults is a behaviour *)
(* of the custody promise: a record is quarantined only once the vault     *)
(* holds its bytes, and the vault gives them up only after the record says *)
(* restored (manager.go:42-246, store/quarantine.go:16-51).                *)
THEOREM CustodyRefined == Spec => ImplementsCustody
<1>1. Init /\ [][Next]_vars => []CustodyInv
  BY CustodyInit, CustodyStep, PTL
<1> QED
  BY <1>1, CustodyRefinedInit, CustodyRefinedStep, PTL
     DEF Spec, ImplementsCustody, Custody!Spec
-----------------------------------------------------------------------------
(* A user who keeps away while a command runs, and selections of different *)
(* bytes.  Then the file at the path stays what a command has seen until a *)
(* command changes it: whoever saved a record finds its bytes there and    *)
(* nowhere else to go, and whoever restores one is alone at the path.      *)
DistinctDigests == \A r, s \in Recs : Digest[r] = Digest[s] => r = s

(* An apply: what it has copied from the path is still there until its own *)
(* removal.                                                                *)
TakingOK(p) ==
    /\ pc[p] = "copy" => content[dst[p]] = Empty
    /\ pc[p] \in {"create", "copy"} =>
          /\ path = src[p] \/ content[src[p]] # Digest[rec[p]]
          /\ \A r \in Recs : copy[r] # src[p]
    /\ pc[p] \in {"save", "recheck", "remove"} =>
          path # None /\ path = src[p] /\ content[path] = Digest[rec[p]]
    /\ pc[p] \in {"recheck", "remove"} => rstate[rec[p]] = "quarantined"

(* A restore: its record is quarantined as long as the path is free, and   *)
(* what it has put there is its own.                                       *)
GivingBack == {"write", "confirm", "commit", "undo"}

RestoringOK(q) ==
    /\ pc[q] \in GivingBack \cup {"target", "restore"} =>
          /\ mode[q] = rmode[rec[q]]
          /\ \/ rstate[rec[q]] = "quarantined"
             \/ rstate[rec[q]] = "restored" /\ path # None /\ content[path] = Digest[rec[q]]
    /\ pc[q] \in {"restore", "write"} => content[src[q]] = Digest[rec[q]]
    /\ pc[q] \in GivingBack =>
          /\ rstate[rec[q]] = "quarantined"
          /\ path # None /\ path = dst[q]
          /\ content[path] \in {Empty, Digest[rec[q]]}
    /\ pc[q] = "write" => content[path] = Empty
    /\ pc[q] \in {"confirm", "commit"} => content[path] = Digest[rec[q]] /\ perm[path] = mode[q]

OneAtThePath ==
    \A p, q \in Procs :
        pc[q] \in GivingBack =>
            /\ pc[p] \notin {"save", "recheck", "remove"}
            /\ pc[p] \in GivingBack => p = q

OneRemover ==
    \A p, q \in Procs :
        pc[p] \in {"recheck", "remove"} /\ pc[q] \in {"recheck", "remove"} /\ rec[p] = rec[q] => p = q

QuietInv ==
    /\ \A p \in Procs : TakingOK(p) /\ RestoringOK(p)
    /\ OneAtThePath
    /\ OneRemover

LEMMA QuietStep ==
    ASSUME DistinctDigests, ~ConcurrentUser, CustodyInv, QuietInv, [Next]_vars
    PROVE  QuietInv'
<1>t. TypeInv'
  BY TypeStep DEF CustodyInv
<1>q. (\A q \in Procs : TakingOK(q) /\ RestoringOK(q)) /\ OneAtThePath /\ OneRemover
  BY DEF QuietInv
<1> USE QuarantineAssumption, <1>t, <1>q
    DEF DistinctDigests, CustodyInv, TypeInv, TypeOK, LocalsOK, Claims, OneWinner, Owns, CopyInProgress,
        Separate, QuarantinedCopyIntact, Intact, GivingBack, OneAtThePath, OneRemover
<1>3. ASSUME NEW p \in Procs, Apply(p) PROVE QuietInv'
  <2>1. CASE ApplyOpen(p)
    <3>1. \A q \in Procs : TakingOK(q)'
      BY SMTT(60), <2>1 DEF ApplyOpen, Regular, Goto, Return, disk, store, locals, ghosts, TakingOK, RestoringOK
    <3>2. \A q \in Procs : RestoringOK(q)'
      BY SMTT(60), <2>1 DEF ApplyOpen, Regular, Goto, Return, disk, store, locals, ghosts, TakingOK, RestoringOK
    <3>3. OneAtThePath' /\ OneRemover'
      BY SMTT(60), <2>1 DEF ApplyOpen, Regular, Goto, Return, disk, store, locals, ghosts, TakingOK, RestoringOK
    <3> QED
      BY <3>1, <3>2, <3>3 DEF QuietInv
  <2>2. CASE ApplyVerify(p)
    <3>1. \A q \in Procs : TakingOK(q)'
      BY SMTT(60), <2>2 DEF ApplyVerify, Goto, Return, disk, store, locals, ghosts, TakingOK, RestoringOK
    <3>2. \A q \in Procs : RestoringOK(q)'
      BY SMTT(60), <2>2 DEF ApplyVerify, Goto, Return, disk, store, locals, ghosts, TakingOK, RestoringOK
    <3>3. OneAtThePath' /\ OneRemover'
      BY SMTT(60), <2>2 DEF ApplyVerify, Goto, Return, disk, store, locals, ghosts, TakingOK, RestoringOK
    <3> QED
      BY <3>1, <3>2, <3>3 DEF QuietInv
  <2>3. CASE Request(p)
    <3>1. \A q \in Procs : TakingOK(q)'
      BY SMTT(60), <2>3 DEF Request, Save, SaveRefused, ValidTransition, Goto, Return, disk, store, locals, ghosts, TakingOK, RestoringOK
    <3>2. \A q \in Procs : RestoringOK(q)'
      BY SMTT(60), <2>3 DEF Request, Save, SaveRefused, ValidTransition, Goto, Return, disk, store, locals, ghosts, TakingOK, RestoringOK
    <3>3. OneAtThePath' /\ OneRemover'
      BY SMTT(60), <2>3 DEF Request, Save, SaveRefused, ValidTransition, Goto, Return, disk, store, locals, ghosts, TakingOK, RestoringOK
    <3> QED
      BY <3>1, <3>2, <3>3 DEF QuietInv
  <2>4. CASE Lstat(p)
    <3>1. \A q \in Procs : TakingOK(q)'
      BY SMTT(60), <2>4 DEF Lstat, Regular, Goto, Return, disk, store, locals, ghosts, TakingOK, RestoringOK
    <3>2. \A q \in Procs : RestoringOK(q)'
      BY SMTT(60), <2>4 DEF Lstat, Regular, Goto, Return, disk, store, locals, ghosts, TakingOK, RestoringOK
    <3>3. OneAtThePath' /\ OneRemover'
      BY SMTT(60), <2>4 DEF Lstat, Regular, Goto, Return, disk, store, locals, ghosts, TakingOK, RestoringOK
    <3> QED
      BY <3>1, <3>2, <3>3 DEF QuietInv
  <2>5. CASE OpenSource(p)
    <3>1. \A q \in Procs : TakingOK(q)'
      BY SMTT(60), <2>5 DEF OpenSource, Regular, Goto, Return, disk, store, locals, ghosts, TakingOK, RestoringOK
    <3>2. \A q \in Procs : RestoringOK(q)'
      BY SMTT(60), <2>5 DEF OpenSource, Regular, Goto, Return, disk, store, locals, ghosts, TakingOK, RestoringOK
    <3>3. OneAtThePath' /\ OneRemover'
      BY SMTT(60), <2>5 DEF OpenSource, Regular, Goto, Return, disk, store, locals, ghosts, TakingOK, RestoringOK
    <3> QED
      BY <3>1, <3>2, <3>3 DEF QuietInv
  <2>6. CASE CreateCopy(p)
    <3>1. \A q \in Procs : TakingOK(q)'
      BY SMTT(60), <2>6 DEF CreateCopy, NewFile, Free, Goto, Return, disk, store, locals, ghosts, TakingOK, RestoringOK
    <3>2. \A q \in Procs : RestoringOK(q)'
      BY SMTT(60), <2>6 DEF CreateCopy, NewFile, Free, Goto, Return, disk, store, locals, ghosts, TakingOK, RestoringOK
    <3>3. OneAtThePath' /\ OneRemover'
      BY SMTT(60), <2>6 DEF CreateCopy, NewFile, Free, Goto, Return, disk, store, locals, ghosts, TakingOK, RestoringOK
    <3> QED
      BY <3>1, <3>2, <3>3 DEF QuietInv
  <2>7. CASE CopyBytes(p)
    <3>1. \A q \in Procs : TakingOK(q)'
      BY SMTT(60), <2>7 DEF CopyBytes, Goto, Return, disk, store, locals, ghosts, TakingOK, RestoringOK
    <3>2. \A q \in Procs : RestoringOK(q)'
      BY SMTT(60), <2>7 DEF CopyBytes, Goto, Return, disk, store, locals, ghosts, TakingOK, RestoringOK
    <3>3. OneAtThePath' /\ OneRemover'
      BY SMTT(60), <2>7 DEF CopyBytes, Goto, Return, disk, store, locals, ghosts, TakingOK, RestoringOK
    <3> QED
      BY <3>1, <3>2, <3>3 DEF QuietInv
  <2>8. CASE SaveQuarantined(p)
    <3>1. \A q \in Procs : TakingOK(q)'
      BY SMTT(60), <2>8 DEF SaveQuarantined, Save, SaveRefused, ValidTransition, Goto, Return, disk, store, locals, ghosts, TakingOK, RestoringOK
    <3>2. \A q \in Procs : RestoringOK(q)'
      BY SMTT(60), <2>8 DEF SaveQuarantined, Save, SaveRefused, ValidTransition, Goto, Return, disk, store, locals, ghosts, TakingOK, RestoringOK
    <3>3. OneAtThePath' /\ OneRemover'
      BY SMTT(60), <2>8 DEF SaveQuarantined, Save, SaveRefused, ValidTransition, Goto, Return, disk, store, locals, ghosts, TakingOK, RestoringOK
    <3> QED
      BY <3>1, <3>2, <3>3 DEF QuietInv
  <2>9. CASE Fail(p)
    <3>1. \A q \in Procs : TakingOK(q)'
      BY SMTT(60), <2>9 DEF Fail, Save, SaveRefused, ValidTransition, Goto, Return, disk, store, locals, ghosts, TakingOK, RestoringOK
    <3>2. \A q \in Procs : RestoringOK(q)'
      BY SMTT(60), <2>9 DEF Fail, Save, SaveRefused, ValidTransition, Goto, Return, disk, store, locals, ghosts, TakingOK, RestoringOK
    <3>3. OneAtThePath' /\ OneRemover'
      BY SMTT(60), <2>9 DEF Fail, Save, SaveRefused, ValidTransition, Goto, Return, disk, store, locals, ghosts, TakingOK, RestoringOK
    <3> QED
      BY <3>1, <3>2, <3>3 DEF QuietInv
  <2>10. CASE DiscardCopy(p)
    <3>1. \A q \in Procs : TakingOK(q)'
      BY SMTT(60), <2>10 DEF DiscardCopy, CleanupFails, Goto, Return, disk, store, locals, ghosts, TakingOK, RestoringOK
    <3>2. \A q \in Procs : RestoringOK(q)'
      BY SMTT(60), <2>10 DEF DiscardCopy, CleanupFails, Goto, Return, disk, store, locals, ghosts, TakingOK, RestoringOK
    <3>3. OneAtThePath' /\ OneRemover'
      BY SMTT(60), <2>10 DEF DiscardCopy, CleanupFails, Goto, Return, disk, store, locals, ghosts, TakingOK, RestoringOK
    <3> QED
      BY <3>1, <3>2, <3>3 DEF QuietInv
  <2>11. CASE Recheck(p)
    <3>1. \A q \in Procs : TakingOK(q)'
      BY SMTT(60), <2>11 DEF Recheck, Goto, Return, disk, store, locals, ghosts, TakingOK, RestoringOK
    <3>2. \A q \in Procs : RestoringOK(q)'
      BY SMTT(60), <2>11 DEF Recheck, Goto, Return, disk, store, locals, ghosts, TakingOK, RestoringOK
    <3>3. OneAtThePath' /\ OneRemover'
      BY SMTT(60), <2>11 DEF Recheck, Goto, Return, disk, store, locals, ghosts, TakingOK, RestoringOK
    <3> QED
      BY <3>1, <3>2, <3>3 DEF QuietInv
  <2>12. CASE RemoveSource(p)
    <3>1. \A q \in Procs : TakingOK(q)'
      BY SMTT(60), <2>12 DEF RemoveSource, Goto, Return, disk, store, locals, ghosts, TakingOK, RestoringOK
    <3>2. \A q \in Procs : RestoringOK(q)'
      BY SMTT(60), <2>12 DEF RemoveSource, Goto, Return, disk, store, locals, ghosts, TakingOK, RestoringOK
    <3>3. OneAtThePath' /\ OneRemover'
      BY SMTT(60), <2>12 DEF RemoveSource, Goto, Return, disk, store, locals, ghosts, TakingOK, RestoringOK
    <3> QED
      BY <3>1, <3>2, <3>3 DEF QuietInv
  <2> QED
    BY <1>3, <2>1, <2>2, <2>3, <2>4, <2>5, <2>6, <2>7, <2>8, <2>9, <2>10, <2>11, <2>12 DEF Apply
<1>4. ASSUME NEW p \in Procs, Restore(p) PROVE QuietInv'
  <2>1. CASE RestoreLoad(p)
    <3>1. \A q \in Procs : TakingOK(q)'
      BY SMTT(60), <2>1 DEF RestoreLoad, Approval, Goto, Return, disk, store, locals, ghosts, TakingOK, RestoringOK
    <3>2. \A q \in Procs : RestoringOK(q)'
      BY SMTT(60), <2>1 DEF RestoreLoad, Approval, Goto, Return, disk, store, locals, ghosts, TakingOK, RestoringOK
    <3>3. OneAtThePath' /\ OneRemover'
      BY SMTT(60), <2>1 DEF RestoreLoad, Approval, Goto, Return, disk, store, locals, ghosts, TakingOK, RestoringOK
    <3> QED
      BY <3>1, <3>2, <3>3 DEF QuietInv
  <2>2. CASE RestoreOpen(p)
    <3>1. \A q \in Procs : TakingOK(q)'
      BY SMTT(60), <2>2 DEF RestoreOpen, Goto, Return, disk, store, locals, ghosts, TakingOK, RestoringOK
    <3>2. \A q \in Procs : RestoringOK(q)'
      BY SMTT(60), <2>2 DEF RestoreOpen, Goto, Return, disk, store, locals, ghosts, TakingOK, RestoringOK
    <3>3. OneAtThePath' /\ OneRemover'
      BY SMTT(60), <2>2 DEF RestoreOpen, Goto, Return, disk, store, locals, ghosts, TakingOK, RestoringOK
    <3> QED
      BY <3>1, <3>2, <3>3 DEF QuietInv
  <2>3. CASE RestoreCreate(p)
    <3>1. \A q \in Procs : TakingOK(q)'
      BY SMTT(60), <2>3 DEF RestoreCreate, NewFile, Free, Goto, Return, disk, store, locals, ghosts, TakingOK, RestoringOK
    <3>2. \A q \in Procs : RestoringOK(q)'
      BY SMTT(60), <2>3 DEF RestoreCreate, NewFile, Free, Goto, Return, disk, store, locals, ghosts, TakingOK, RestoringOK
    <3>3. OneAtThePath' /\ OneRemover'
      BY SMTT(60), <2>3 DEF RestoreCreate, NewFile, Free, Goto, Return, disk, store, locals, ghosts, TakingOK, RestoringOK
    <3> QED
      BY <3>1, <3>2, <3>3 DEF QuietInv
  <2>4. CASE RestoreWrite(p)
    <3>1. \A q \in Procs : TakingOK(q)'
      BY SMTT(60), <2>4 DEF RestoreWrite, Goto, Return, disk, store, locals, ghosts, TakingOK, RestoringOK
    <3>2. \A q \in Procs : RestoringOK(q)'
      BY SMTT(60), <2>4 DEF RestoreWrite, Goto, Return, disk, store, locals, ghosts, TakingOK, RestoringOK
    <3>3. OneAtThePath' /\ OneRemover'
      BY SMTT(60), <2>4 DEF RestoreWrite, Goto, Return, disk, store, locals, ghosts, TakingOK, RestoringOK
    <3> QED
      BY <3>1, <3>2, <3>3 DEF QuietInv
  <2>5. CASE RestoreConfirm(p)
    <3>1. \A q \in Procs : TakingOK(q)'
      BY SMTT(60), <2>5 DEF RestoreConfirm, Goto, Return, disk, store, locals, ghosts, TakingOK, RestoringOK
    <3>2. \A q \in Procs : RestoringOK(q)'
      BY SMTT(60), <2>5 DEF RestoreConfirm, Goto, Return, disk, store, locals, ghosts, TakingOK, RestoringOK
    <3>3. OneAtThePath' /\ OneRemover'
      BY SMTT(60), <2>5 DEF RestoreConfirm, Goto, Return, disk, store, locals, ghosts, TakingOK, RestoringOK
    <3> QED
      BY <3>1, <3>2, <3>3 DEF QuietInv
  <2>6. CASE RestoreCommit(p)
    <3>1. \A q \in Procs : TakingOK(q)'
      BY SMTT(60), <2>6 DEF RestoreCommit, Save, SaveRefused, ValidTransition, Goto, Return, disk, store, locals, ghosts, TakingOK, RestoringOK
    <3>2. \A q \in Procs : RestoringOK(q)'
      BY SMTT(60), <2>6 DEF RestoreCommit, Save, SaveRefused, ValidTransition, Goto, Return, disk, store, locals, ghosts, TakingOK, RestoringOK
    <3>3. OneAtThePath' /\ OneRemover'
      BY SMTT(60), <2>6 DEF RestoreCommit, Save, SaveRefused, ValidTransition, Goto, Return, disk, store, locals, ghosts, TakingOK, RestoringOK
    <3> QED
      BY <3>1, <3>2, <3>3 DEF QuietInv
  <2>7. CASE ReleaseCopy(p)
    <3>1. \A q \in Procs : TakingOK(q)'
      BY SMTT(60), <2>7 DEF ReleaseCopy, Goto, Return, disk, store, locals, ghosts, TakingOK, RestoringOK
    <3>2. \A q \in Procs : RestoringOK(q)'
      BY SMTT(60), <2>7 DEF ReleaseCopy, Goto, Return, disk, store, locals, ghosts, TakingOK, RestoringOK
    <3>3. OneAtThePath' /\ OneRemover'
      BY SMTT(60), <2>7 DEF ReleaseCopy, Goto, Return, disk, store, locals, ghosts, TakingOK, RestoringOK
    <3> QED
      BY <3>1, <3>2, <3>3 DEF QuietInv
  <2>8. CASE UndoRestore(p)
    <3>1. \A q \in Procs : TakingOK(q)'
      BY SMTT(60), <2>8 DEF UndoRestore, CleanupFails, Goto, Return, disk, store, locals, ghosts, TakingOK, RestoringOK
    <3>2. \A q \in Procs : RestoringOK(q)'
      BY SMTT(60), <2>8 DEF UndoRestore, CleanupFails, Goto, Return, disk, store, locals, ghosts, TakingOK, RestoringOK
    <3>3. OneAtThePath' /\ OneRemover'
      BY SMTT(60), <2>8 DEF UndoRestore, CleanupFails, Goto, Return, disk, store, locals, ghosts, TakingOK, RestoringOK
    <3> QED
      BY <3>1, <3>2, <3>3 DEF QuietInv
  <2> QED
    BY <1>4, <2>1, <2>2, <2>3, <2>4, <2>5, <2>6, <2>7, <2>8 DEF Restore
<1>1. CASE UNCHANGED <<disk, store, locals>>
  BY <1>1 DEF disk, store, locals, QuietInv, TakingOK, RestoringOK
<1>2. ASSUME NEW r \in Recs, Preview(r) \/ PreviewRestore(r) PROVE QuietInv'
  BY <1>1, <1>2 DEF Preview, PreviewRestore
<1>5. ASSUME NEW p \in Procs, Crash(p) PROVE QuietInv'
  <2>1. \A q \in Procs : TakingOK(q)' /\ RestoringOK(q)'
    BY SMTT(60), <1>5 DEF Crash, Goto, Return, disk, store, ghosts, TakingOK, RestoringOK
  <2>2. OneAtThePath' /\ OneRemover'
    BY SMTT(60), <1>5 DEF Crash, Goto, Return, disk, store, ghosts
  <2> QED
    BY <2>1, <2>2 DEF QuietInv
<1>6. CASE User
  <2>1. (\A q \in Procs : pc'[q] = "idle")
    BY <1>6 DEF User, UserReplace, UserEdit, UserDelete, UserMayAct, locals
  <2> QED
    BY <2>1 DEF QuietInv, TakingOK, RestoringOK
<1>7. CASE UNCHANGED vars
  BY <1>1, <1>7 DEF vars
<1> QED
  BY <1>2, <1>3, <1>4, <1>5, <1>6, <1>7 DEF Next

LEMMA QuietInit == Init => QuietInv
BY DEF Init, QuietInv, TakingOK, RestoringOK, OneAtThePath, OneRemover, GivingBack

(* A step keeps the evidence of what the user owns, or moves it between    *)
(* the path and a quarantined record.                                      *)
LEMMA NothingLostStep ==
    ASSUME DistinctDigests, ~ConcurrentUser, CustodyInv, QuietInv, NothingLost, [Next]_vars
    PROVE  NothingLost'
<1>t. TypeInv'
  BY TypeStep DEF CustodyInv
<1>c. CustodyInv'
  BY CustodyStep
<1>q. (\A q \in Procs : TakingOK(q) /\ RestoringOK(q)) /\ OneAtThePath
  BY DEF QuietInv
<1> USE QuarantineAssumption, <1>t, <1>q
    DEF CustodyInv, TypeInv, TypeOK, LocalsOK, Claims, CopyInProgress, Separate,
        QuarantinedCopyIntact, NothingLost, GivingBack
<1>0. CASE UNCHANGED <<disk, store, owned>>
  BY <1>0 DEF disk, store, Intact
<1>2. ASSUME NEW r \in Recs, Preview(r) \/ PreviewRestore(r) PROVE NothingLost'
  BY <1>0, <1>2 DEF Preview, PreviewRestore, ghosts
<1>3. ASSUME NEW p \in Procs, Apply(p) PROVE NothingLost'
  <2>1. CASE ApplyOpen(p) \/ ApplyVerify(p) \/ Lstat(p) \/ OpenSource(p) \/ Recheck(p)
    BY <1>0, <2>1 DEF ApplyOpen, ApplyVerify, Lstat, OpenSource, Recheck, ghosts
  <2>2. CASE Request(p)
    BY SMTT(60), <2>2 DEF Request, Save, SaveRefused, ValidTransition, disk, store, Intact
  <2>3. CASE CreateCopy(p)
    BY SMTT(60), <2>3 DEF CreateCopy, NewFile, Free, disk, store, ghosts, Intact
  <2>4. CASE CopyBytes(p)
    BY SMTT(60), <2>4 DEF CopyBytes, store, ghosts, Intact
  <2>5. CASE SaveQuarantined(p) \/ Fail(p)
    BY SMTT(60), <2>5
    DEF SaveQuarantined, Fail, Save, SaveRefused, ValidTransition, disk, store, Intact
  <2>6. CASE DiscardCopy(p)
    BY SMTT(60), <2>6 DEF DiscardCopy, CleanupFails, store, ghosts, Intact
  <2>7. CASE RemoveSource(p)
    BY SMTT(60), <2>7 DEF RemoveSource, TakingOK, store, ghosts, Intact
  <2> QED
    BY <1>3, <2>1, <2>2, <2>3, <2>4, <2>5, <2>6, <2>7 DEF Apply
<1>4. ASSUME NEW p \in Procs, Restore(p) PROVE NothingLost'
  <2>1. CASE RestoreLoad(p) \/ RestoreOpen(p) \/ RestoreConfirm(p)
    BY <1>0, <2>1 DEF RestoreLoad, RestoreOpen, RestoreConfirm, ghosts
  <2>2. CASE RestoreCreate(p)
    BY SMTT(60), <2>2 DEF RestoreCreate, NewFile, Free, disk, store, ghosts, Intact
  <2>3. CASE RestoreWrite(p)
    BY SMTT(60), <2>3 DEF RestoreWrite, RestoringOK, store, ghosts, Intact
  <2>4. CASE RestoreCommit(p)
    BY SMTT(60), <2>4
    DEF RestoreCommit, RestoringOK, Save, SaveRefused, ValidTransition, disk, store, Intact
  <2>5. CASE ReleaseCopy(p)
    BY SMTT(60), <2>5 DEF ReleaseCopy, store, ghosts, Intact
  <2>6. CASE UndoRestore(p)
    BY SMTT(60), <2>6 DEF UndoRestore, CleanupFails, RestoringOK, store, ghosts, Intact
  <2> QED
    BY <1>4, <2>1, <2>2, <2>3, <2>4, <2>5, <2>6 DEF Restore
<1>5. ASSUME NEW p \in Procs, Crash(p) PROVE NothingLost'
  BY <1>0, <1>5 DEF Crash
<1>6. CASE User
  <2>1. ASSUME NEW c \in Contents, NEW m \in Modes \cup {Irregular}, UserReplace(c, m)
        PROVE NothingLost'
    BY SMTT(60), <2>1 DEF UserReplace, UserMayAct, Disowned, Free, store, locals, Intact
  <2>2. ASSUME NEW c \in Contents, UserEdit(c) PROVE NothingLost'
    BY SMTT(60), <2>2 DEF UserEdit, UserMayAct, Disowned, Regular, store, locals, Intact
  <2>3. CASE UserDelete
    BY SMTT(60), <2>3 DEF UserDelete, UserMayAct, Disowned, store, locals, Intact
  <2> QED
    BY <1>6, <2>1, <2>2, <2>3 DEF User
<1>7. CASE UNCHANGED vars
  BY <1>0, <1>7 DEF vars, ghosts
<1> QED
  BY <1>2, <1>3, <1>4, <1>5, <1>6, <1>7 DEF Next

(* Whatever commands race, crash or fail, what the user left in the file   *)
(* is there or in the custody of a record (manager.go:130-158, 213-244).   *)
THEOREM NothingLostQuietly ==
    ASSUME DistinctDigests, ~ConcurrentUser
    PROVE  Spec => []NothingLost
<1>1. Init => NothingLost
  BY DEF Init, NothingLost
<1>2. CustodyInv /\ QuietInv /\ [Next]_vars => QuietInv'
  BY QuietStep
<1>3. CustodyInv /\ QuietInv /\ NothingLost /\ [Next]_vars => NothingLost'
  BY NothingLostStep
<1> QED
  BY <1>1, <1>2, <1>3, CustodyInit, CustodyStep, QuietInit, PTL DEF Spec

(* A record says restored only while the original name holds its bytes     *)
(* with its mode (manager.go:220-243).                                     *)
THEOREM RestoredExactlyQuietly ==
    ASSUME DistinctDigests, ~ConcurrentUser
    PROVE  Spec => RestoredExactly
<1>1. CustodyInv /\ QuietInv /\ [Next]_vars => QuietInv'
  BY QuietStep
<1>2. ASSUME CustodyInv, QuietInv, [Next]_vars, NEW r \in Recs,
             rstate[r] = "quarantined", rstate'[r] = "restored"
      PROVE  path # None /\ content[path] = Digest[r] /\ perm[path] = rmode[r]
  <2>1. rstate \in [Recs -> States]
    BY <1>2 DEF CustodyInv, TypeInv, TypeOK
  <2>2. PICK p \in Procs : RestoreCommit(p) /\ rec[p] = r
    BY <1>2, <2>1
    DEF Next, Apply, Restore, User, Preview, PreviewRestore, ApplyOpen, ApplyVerify, Request, Lstat,
        OpenSource, CreateCopy, CopyBytes, SaveQuarantined, Fail, DiscardCopy, CleanupFails, Recheck, RemoveSource,
        RestoreLoad, RestoreOpen, RestoreCreate, RestoreWrite, RestoreConfirm, RestoreCommit,
        ReleaseCopy, UndoRestore, Crash, UserReplace, UserEdit, UserDelete, Save, store, vars
  <2> QED
    BY <1>2, <2>2 DEF RestoreCommit, QuietInv, RestoringOK, GivingBack
<1>3. CustodyInv /\ QuietInv /\ [Next]_vars =>
        [\A r \in Recs :
          rstate[r] = "quarantined" /\ rstate'[r] = "restored"
          => /\ path # None
             /\ content[path] = Digest[r]
             /\ perm[path] = rmode[r]]_vars
  BY <1>2
<1> QED
  BY <1>1, <1>3, CustodyInit, CustodyStep, QuietInit, PTL DEF Spec, RestoredExactly

=============================================================================
