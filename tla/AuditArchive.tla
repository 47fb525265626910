---------------------------- MODULE AuditArchive ----------------------------
(***************************************************************************)
(* The audit archive (internal/audit/manager.go): `scan` saves one ZIP per *)
(* run into a private directory, prunes by age and size, and `audit        *)
(* export` publishes a copy elsewhere.                                     *)
(*                                                                         *)
(* Every command is a process that works under one blocking file lock.     *)
(* The user and other programs take no lock: they may damage or delete an  *)
(* archive, or create a file at an export's destination, at any moment.    *)
(* A process may be killed between any two steps, and the wall clock may   *)
(* be set back between any two readings of it.                             *)
(***************************************************************************)
EXTENDS Shared, FiniteSets, Integers

CONSTANTS
    Runs,            \* run identifiers; an archive's name orders equal times
    Readings,           \* readings of the wall clock
    SizeOf,          \* size of each run's ZIP
    RetentionAge,
    RetentionBytes,
    MaxListed,       \* maxManagedArchives
    MaxAuditFaults,  \* bound: crashes, failed writes, renames, removals, syncs
    MaxTouches       \* bound: changes by the user

ASSUME AuditAssumption ==
    /\ Runs \subseteq Nat /\ IsFiniteSet(Runs)
    /\ Readings \subseteq Nat /\ 0 \in Readings
    /\ SizeOf \in [Runs -> Nat]
    /\ {RetentionAge, RetentionBytes, MaxListed, MaxAuditFaults, MaxTouches} \subseteq Nat
    /\ None \notin Int \cup {"save", "prune", "export"}

UserFile == -1   \* a file at the destination that no command wrote

VARIABLES
    archive,    \* per run: "missing", "whole" or "damaged" under its final name
    created,    \* the time in the name; 0 while it is missing
    orphans,    \* temporary files of ended commands in the archive directory
    out,        \* the file at the export destination: None, UserFile or a run
    outTemps,   \* temporary files left beside it
    auditLock,  \* the holder of the flock, or None
    apc, job, run, now, victims,  \* the locals of each command
    touched,    \* history: the archives the user damaged or deleted
    touches, auditFaults

auditFiles == <<archive, created, orphans, out, outTemps>>
auditLocals == <<apc, job, run, now, victims>>
auditVars == <<auditFiles, auditLock, auditLocals, touched, touches, auditFaults>>

Valid == {r \in Runs : archive[r] = "whole"}

(* The order of listLocked: later first, the greater name first on a tie. *)
Newer(m, n) == created[m] > created[n] \/ (created[m] = created[n] /\ m > n)
NoOlder(n, S) == {m \in S : m = n \/ Newer(m, n)}

(* The sizes of a set of archives, added up: one element per byte. *)
BytesOf(r) == {r} \X (1..SizeOf[r])
Bytes(S) == Cardinality(UNION {BytesOf(r) : r \in S})

(* What ReadDir counts: archives, left temporary files and the lock file. *)
Listable == Cardinality({r \in Runs : archive[r] # "missing"}) + orphans + 1 <= MaxListed

(* Mutant: the newest archive expires like any other. *)
BugNewestExpires(t) ==
    {n \in Valid : t - created[n] > RetentionAge \/ Bytes(NoOlder(n, Valid)) > RetentionBytes}

(* Mutant: the total at an archive leaves out its own size. *)
BugTotalBefore(t) ==
    {n \in Valid :
        /\ \E m \in Valid : Newer(m, n)
        /\ \/ t - created[n] > RetentionAge
           \/ Bytes(NoOlder(n, Valid) \ {n}) > RetentionBytes}

(* The loop of pruneLocked, from the oldest to the second newest.  Ages    *)
(* grow along it, so once one archive is kept every later one is: the      *)
(* total it sees at n is that of n and all newer ones.                     *)
Victims(t) ==
    {n \in Valid :
        /\ \E m \in Valid : Newer(m, n)
        /\ \/ t - created[n] > RetentionAge
           \/ Bytes(NoOlder(n, Valid)) > RetentionBytes}

AuditGoto(p, label) == apc' = [apc EXCEPT ![p] = label]
AuditFault == auditFaults < MaxAuditFaults /\ auditFaults' = auditFaults + 1

(* The command returns, with its deferred unlock. *)
AuditReturn(p) ==
    /\ AuditGoto(p, "idle")
    /\ job' = [job EXCEPT ![p] = None]
    /\ run' = [run EXCEPT ![p] = None]
    /\ now' = [now EXCEPT ![p] = 0]
    /\ victims' = [victims EXCEPT ![p] = {}]
    /\ auditLock' = IF auditLock = p THEN None ELSE auditLock

auditKept == <<auditLock, job, run, now, victims>>   \* what AuditReturn assigns besides apc
userKept == <<touched, touches>>

(* cleanup removes the temporary file and ignores the error. *)
DropTemp(p) ==
    /\ AuditReturn(p)
    /\ \/ UNCHANGED <<orphans, auditFaults>>
       \/ AuditFault /\ orphans' = orphans + 1

-----------------------------------------------------------------------------
(* Manager.Save *)

(* Render and Encode come before the lock; a new run has a fresh name. *)
BeginSave(p, r) ==
    /\ apc[p] = "idle"
    /\ archive[r] = "missing"
    /\ \A q \in Procs : run[q] # r
    /\ AuditGoto(p, "lock")
    /\ job' = [job EXCEPT ![p] = "save"]
    /\ run' = [run EXCEPT ![p] = r]
    /\ UNCHANGED <<auditFiles, auditLock, now, victims, userKept, auditFaults>>

(* Manager.Prune, Manager.List, Manager.Open and Manager.Export begin with *)
(* the same lock.                                                          *)
BeginPrune(p) ==
    /\ apc[p] = "idle"
    /\ AuditGoto(p, "lock")
    /\ job' = [job EXCEPT ![p] = "prune"]
    /\ UNCHANGED <<auditFiles, auditLock, run, now, victims, userKept, auditFaults>>

BeginExport(p, r) ==
    /\ apc[p] = "idle"
    /\ AuditGoto(p, "lock")
    /\ job' = [job EXCEPT ![p] = "export"]
    /\ run' = [run EXCEPT ![p] = r]
    /\ UNCHANGED <<auditFiles, auditLock, now, victims, userKept, auditFaults>>

(* lockAuditRoot waits; a cancelled context is seen once it has the lock. *)
LockAudit(p) ==
    /\ apc[p] = "lock"
    /\ auditLock = None
    /\ \/ /\ auditLock' = p
          /\ AuditGoto(p, CASE job[p] = "save" -> "create" [] job[p] = "prune" -> "list" [] OTHER -> "source")
          /\ UNCHANGED <<job, run, now, victims>>
       \/ AuditReturn(p)
    /\ UNCHANGED <<auditFiles, userKept, auditFaults>>

(* Mutant: the time is rounded up to the next second. *)
BugRoundsUp(p) ==
    /\ apc[p] = "create"
    /\ archive[run[p]] = "missing"
    /\ \E t \in Readings : now' = [now EXCEPT ![p] = t + 1]
    /\ AuditGoto(p, "write")
    /\ UNCHANGED <<auditFiles, auditLock, job, run, victims, userKept, auditFaults>>

(* Mutant: the archive is written under its final name. *)
BugWritesInPlace(p) ==
    /\ apc[p] = "create"
    /\ archive[run[p]] = "missing"
    /\ archive' = [archive EXCEPT ![run[p]] = "damaged"]
    /\ AuditGoto(p, "write")
    /\ UNCHANGED <<created, orphans, out, outTemps, auditKept, userKept, auditFaults>>

(* The name is taken from the clock; the temporary file is exclusive. *)
CreateTemp(p) ==
    /\ apc[p] = "create"
    /\ \/ /\ archive[run[p]] = "missing"
          /\ \E t \in Readings : now' = [now EXCEPT ![p] = t]
          /\ AuditGoto(p, "write")
          /\ UNCHANGED <<auditLock, job, run, victims, auditFaults>>
       \/ archive[run[p]] # "missing" /\ AuditReturn(p) /\ UNCHANGED auditFaults
       \/ AuditFault /\ AuditReturn(p)
    /\ UNCHANGED <<auditFiles, userKept>>

(* Mutant: a failed write returns without the cleanup. *)
BugNoCleanup(p) ==
    /\ apc[p] = "write"
    /\ \/ AuditGoto(p, "rename") /\ UNCHANGED <<auditKept, orphans>>
       \/ AuditReturn(p) /\ orphans' = orphans + 1
    /\ UNCHANGED <<archive, created, out, outTemps, userKept, auditFaults>>

(* Write, Sync, Stat and Verify of the temporary file, then the context. *)
WriteTemp(p) ==
    /\ apc[p] = "write"
    /\ \/ AuditGoto(p, "rename") /\ UNCHANGED <<auditKept, orphans, auditFaults>>
       \/ DropTemp(p)
    /\ UNCHANGED <<archive, created, out, outTemps, userKept>>

RenameTemp(p) ==
    /\ apc[p] = "rename"
    /\ \/ /\ archive' = [archive EXCEPT ![run[p]] = "whole"]
          /\ created' = [created EXCEPT ![run[p]] = now[p]]
          /\ touched' = touched \ {run[p]}
          /\ AuditGoto(p, "verify")
          /\ UNCHANGED <<auditKept, orphans, auditFaults>>
       \/ DropTemp(p) /\ UNCHANGED <<archive, created, touched>>
    /\ UNCHANGED <<out, outTemps, touches>>

(* Mutant: the error path of the verification skips the unlock. *)
BugErrorKeepsLock(p) ==
    /\ apc[p] = "verify"
    /\ \/ archive[run[p]] = "whole" /\ AuditGoto(p, "list") /\ UNCHANGED auditKept
       \/ archive[run[p]] # "whole" /\ AuditGoto(p, "idle") /\ UNCHANGED auditKept
    /\ UNCHANGED <<auditFiles, userKept, auditFaults>>

(* syncRoot and verifyRootFile of the published archive. *)
VerifyPublished(p) ==
    /\ apc[p] = "verify"
    /\ \/ archive[run[p]] = "whole" /\ AuditGoto(p, "list") /\ UNCHANGED <<auditKept, auditFaults>>
       \/ archive[run[p]] # "whole" /\ AuditReturn(p) /\ UNCHANGED auditFaults
       \/ AuditFault /\ AuditReturn(p)
    /\ UNCHANGED <<auditFiles, userKept>>

-----------------------------------------------------------------------------
(* pruneLocked *)

ListAndChoose(p) ==
    /\ apc[p] = "list"
    /\ \/ /\ Listable
          /\ \E t \in Readings :
                /\ now' = [now EXCEPT ![p] = t]
                /\ victims' = [victims EXCEPT ![p] = Victims(t)]
          /\ AuditGoto(p, "remove")
          /\ UNCHANGED <<auditLock, job, run>>
       \/ ~Listable /\ AuditReturn(p)
    /\ UNCHANGED <<auditFiles, userKept, auditFaults>>

(* The newest victim goes first; one the user deleted meanwhile, like one  *)
(* that cannot be removed, ends the command with an error.                 *)
RemoveVictim(p) ==
    /\ apc[p] = "remove"
    /\ \E n \in victims[p] :
        /\ \A m \in victims[p] : m = n \/ Newer(n, m)
        /\ \/ /\ archive[n] # "missing"
              /\ archive' = [archive EXCEPT ![n] = "missing"]
              /\ created' = [created EXCEPT ![n] = 0]
              /\ victims' = [victims EXCEPT ![p] = @ \ {n}]
              /\ UNCHANGED <<auditLock, apc, job, run, now, auditFaults>>
           \/ archive[n] = "missing" /\ AuditReturn(p) /\ UNCHANGED <<archive, created, auditFaults>>
           \/ AuditFault /\ AuditReturn(p) /\ UNCHANGED <<archive, created>>
    /\ UNCHANGED <<orphans, out, outTemps, userKept>>

(* The last syncRoot; a save then returns what it stored. *)
FinishPrune(p) ==
    /\ apc[p] = "remove"
    /\ victims[p] = {}
    /\ \/ AuditGoto(p, "done") /\ UNCHANGED <<auditKept, auditFaults>>
       \/ AuditFault /\ AuditReturn(p)
    /\ UNCHANGED <<auditFiles, userKept>>

AuditDone(p) ==
    /\ apc[p] = "done"
    /\ AuditReturn(p)
    /\ UNCHANGED <<auditFiles, userKept, auditFaults>>

-----------------------------------------------------------------------------
(* Manager.Export and publishExport *)

(* The listing must hold a valid archive of the run; it is read and        *)
(* verified again, redacted on request.                                    *)
ReadSource(p) ==
    /\ apc[p] = "source"
    /\ \/ /\ Listable /\ archive[run[p]] = "whole"
          /\ AuditGoto(p, "exists")
          /\ UNCHANGED auditKept
       \/ ~(Listable /\ archive[run[p]] = "whole") /\ AuditReturn(p)
    /\ UNCHANGED <<auditFiles, userKept, auditFaults>>

(* The destination is looked up first, then a temporary file beside it is  *)
(* written and verified.                                                   *)
WriteExport(p) ==
    /\ apc[p] = "exists"
    /\ \/ out = None /\ AuditGoto(p, "link") /\ UNCHANGED <<auditKept, outTemps, auditFaults>>
       \/ out # None /\ AuditReturn(p) /\ UNCHANGED <<outTemps, auditFaults>>
       \/ AuditFault /\ AuditReturn(p) /\ outTemps' \in {outTemps, outTemps + 1}
    /\ UNCHANGED <<archive, created, orphans, out, userKept>>

(* Mutant: the temporary file is renamed over the destination. *)
BugRenamesOver(p) ==
    /\ apc[p] = "link"
    /\ out' = run[p]
    /\ AuditGoto(p, "unlink")
    /\ UNCHANGED <<archive, created, orphans, outTemps, auditKept, userKept, auditFaults>>

(* Link refuses a name that exists by now; the error path drops the        *)
(* temporary file and ignores whether that worked.                         *)
LinkExport(p) ==
    /\ apc[p] = "link"
    /\ \/ out = None /\ out' = run[p] /\ AuditGoto(p, "unlink") /\ UNCHANGED <<auditKept, outTemps, auditFaults>>
       \/ out # None /\ AuditReturn(p) /\ UNCHANGED <<out, outTemps, auditFaults>>
       \/ AuditFault /\ AuditReturn(p) /\ outTemps' \in {outTemps, outTemps + 1} /\ UNCHANGED out
    /\ UNCHANGED <<archive, created, orphans, userKept>>

(* Remove of the temporary name, then the published file is verified. *)
UnlinkExport(p) ==
    /\ apc[p] = "unlink"
    /\ AuditReturn(p)
    /\ \/ UNCHANGED <<outTemps, auditFaults>>
       \/ AuditFault /\ outTemps' = outTemps + 1
    /\ UNCHANGED <<archive, created, orphans, out, userKept>>

-----------------------------------------------------------------------------
(* The process dies: its lock is free, its temporary file stays. *)
AuditCrash(p) ==
    /\ apc[p] # "idle"
    /\ AuditFault
    /\ AuditReturn(p)
    /\ orphans' = IF apc[p] \in {"write", "rename"} THEN orphans + 1 ELSE orphans
    /\ outTemps' = IF apc[p] \in {"link", "unlink"} THEN outTemps + 1 ELSE outTemps
    /\ UNCHANGED <<archive, created, out, userKept>>

(* The user damages or deletes an archive. *)
TouchArchive ==
    /\ touches < MaxTouches
    /\ touches' = touches + 1
    /\ \E r \in Runs :
        /\ archive[r] # "missing"
        /\ touched' = touched \cup {r}
        /\ \/ archive' = [archive EXCEPT ![r] = "damaged"] /\ UNCHANGED created
           \/ archive' = [archive EXCEPT ![r] = "missing"] /\ created' = [created EXCEPT ![r] = 0]
    /\ UNCHANGED <<orphans, out, outTemps, auditLock, auditLocals, auditFaults>>

(* The user creates, replaces or deletes the file at the destination. *)
TouchOutput ==
    /\ touches < MaxTouches
    /\ touches' = touches + 1
    /\ out' \in {None, UserFile} \ {out}
    /\ UNCHANGED <<archive, created, orphans, outTemps, auditLock, auditLocals, touched, auditFaults>>

AuditStep(p) ==
    \/ LockAudit(p) \/ CreateTemp(p) \/ WriteTemp(p) \/ RenameTemp(p) \/ VerifyPublished(p)
    \/ ListAndChoose(p) \/ RemoveVictim(p) \/ FinishPrune(p) \/ AuditDone(p)
    \/ ReadSource(p) \/ WriteExport(p) \/ LinkExport(p) \/ UnlinkExport(p)

AuditInit ==
    /\ archive = [r \in Runs |-> "missing"]
    /\ created = [r \in Runs |-> 0]
    /\ orphans = 0 /\ out = None /\ outTemps = 0
    /\ auditLock = None
    /\ apc = [p \in Procs |-> "idle"]
    /\ job = [p \in Procs |-> None]
    /\ run = [p \in Procs |-> None]
    /\ now = [p \in Procs |-> 0]
    /\ victims = [p \in Procs |-> {}]
    /\ touched = {} /\ touches = 0 /\ auditFaults = 0

AuditNext ==
    \/ \E p \in Procs :
        \/ AuditStep(p) \/ AuditCrash(p) \/ BeginPrune(p)
        \/ \E r \in Runs : BeginSave(p, r) \/ BeginExport(p, r)
    \/ TouchArchive \/ TouchOutput

(* A running command goes on unless it is killed; nothing makes the user   *)
(* start one.                                                              *)
AuditFairness == \A p \in Procs : WF_auditVars(AuditStep(p))
AuditSpec == AuditInit /\ [][AuditNext]_auditVars /\ AuditFairness

-----------------------------------------------------------------------------
AuditTypeOK ==
    /\ archive \in [Runs -> {"missing", "whole", "damaged"}]
    /\ created \in [Runs -> Readings]
    /\ orphans \in Nat /\ outTemps \in Nat
    /\ out \in {None, UserFile} \cup Runs
    /\ auditLock \in Procs \cup {None}
    /\ apc \in [Procs -> {"idle", "lock", "create", "write", "rename", "verify", "list", "remove", "done",
                          "source", "exists", "link", "unlink"}]
    /\ job \in [Procs -> {None, "save", "prune", "export"}]
    /\ run \in [Procs -> Runs \cup {None}]
    /\ now \in [Procs -> Readings]
    /\ victims \in [Procs -> SUBSET Runs]
    /\ touched \in SUBSET Runs
    /\ touches \in 0..MaxTouches
    /\ auditFaults \in 0..MaxAuditFaults

(* README "the newest valid archive is always preserved": no step of a     *)
(* command removes an archive unless a whole one that is newer in the      *)
(* listing's order stays, or stood there until the user touched it.  (A    *)
(* save whose clock was set back may so remove the archive it reports as   *)
(* stored.)                                                                *)
NewestArchiveSpared ==
    [][\A n \in Runs :
        archive[n] # "missing" /\ archive'[n] = "missing" /\ UNCHANGED touches =>
            \E m \in Runs \ {n} : m \in touched \/ (Newer(m, n) /\ archive[m] = "whole" /\ archive'[m] = "whole")]_auditVars

(* A finished prune kept the promised budgets: nothing but the newest is   *)
(* past its age or beyond the bytes.                                       *)
BudgetKept ==
    \A p \in Procs : apc[p] = "done" =>
        \/ Cardinality(Valid) <= 1
        \/ /\ Bytes(Valid) <= RetentionBytes
           /\ \A n \in Valid : now[p] - created[n] > RetentionAge => \A m \in Valid \ {n} : Newer(n, m)

(* Whatever crashed or failed, a file under a final name is a complete and *)
(* verified archive until the user touches it.                             *)
PublishedWhole == \A r \in Runs : archive[r] = "damaged" => r \in touched

(* publishExport never replaces what stands at the destination.            *)
ExportNeverReplaces == [][out # out' /\ out # None => TouchOutput]_auditVars

(* Every temporary file that stays is the trace of a fault.                *)
TempsExplained == orphans + outTemps <= auditFaults

=============================================================================
