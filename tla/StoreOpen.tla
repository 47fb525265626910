------------------------------ MODULE StoreOpen ------------------------------
(***************************************************************************)
(* Opening the snapshot store (internal/store/sqlite.go, migrations.go).   *)
(* Every command creates what is missing, the directory, the database file *)
(* and its schema, and takes no lock for it: first commands may run at     *)
(* once, of several versions of the program.  Each command here opens the  *)
(* store once, saves a snapshot and closes it.                             *)
(*                                                                         *)
(* A file keeps its connections when its name goes: files are numbered in  *)
(* the order of their creation.                                            *)
(***************************************************************************)
EXTENDS Shared, Sequences, Integers, FiniteSets, SequencesExt

CONSTANTS
    Known,            \* the number of migrations that each command's version knows
    MaxStoreFaults    \* bound: crashes, busy and failed operations

ASSUME StoreAssumption ==
    /\ Known \in [Procs -> Nat \ {0}]
    /\ MaxStoreFaults \in Nat

VARIABLES
    parent,     \* whether the directory exists
    dbFile,     \* the file that bears the name, or 0
    dbs,        \* every file: [tables, history, snapshots]
    mpc, guard, conn, made, applied,  \* the locals of each command
    reported,   \* per file: the snapshots whose command reported success
    alone,      \* history: commands that no other one overlapped so far
    blamed,     \* history: files whose creator failed to open them
    storeFaults

storeDisk == <<parent, dbFile, dbs>>
storeLocals == <<guard, conn, made, applied>>
storeHistory == <<reported, blamed>>
storeVars == <<storeDisk, mpc, storeLocals, storeHistory, alone, storeFaults>>

(* A file as it is created, after one more migration, after a save. *)
NewFile == [tables |-> {}, history |-> <<>>, snapshots |-> {}]
Migrated(db, v) == [tables |-> db.tables \cup {v}, history |-> Append(db.history, v), snapshots |-> db.snapshots]
Saved(db, p) == [tables |-> db.tables, history |-> db.history, snapshots |-> db.snapshots \cup {p}]

Active(p) == mpc[p] \notin {"start", "closed", "failed", "killed"}
StoreFault == storeFaults < MaxStoreFaults /\ storeFaults' = storeFaults + 1
StoreGoto(p, label) == mpc' = [mpc EXCEPT ![p] = label]

(* What every step of a command says of the others. *)
Overlap(p) == alone' = alone \ {q \in Procs : \E r \in Procs : r # q /\ Active(r) /\ (Active(q) \/ q = p)}

-----------------------------------------------------------------------------
(* Mutant: whoever fails removes the file. *)
BugFailRemoves(p) ==
    /\ StoreGoto(p, "failed")
    /\ dbFile' = IF guard[p] # 0 /\ dbFile = guard[p] THEN 0 ELSE dbFile
    /\ blamed' = IF made[p] THEN blamed \cup {guard[p]} ELSE blamed
    /\ UNCHANGED <<parent, dbs, storeLocals, reported>>

(* An error: the connection goes first, then, if this command created the  *)
(* file and the name still is that file's, the file (removeCreatedIfSame). *)
StoreFail(p) ==
    /\ StoreGoto(p, "failed")
    /\ dbFile' = IF made[p] /\ dbFile = guard[p] THEN 0 ELSE dbFile
    /\ blamed' = IF made[p] THEN blamed \cup {guard[p]} ELSE blamed
    /\ UNCHANGED <<parent, dbs, storeLocals, reported>>

StoreContinue == UNCHANGED storeHistory

(* openVerifiedParent: look, create what is missing, open. *)
LookupParent(p) ==
    /\ mpc[p] = "start"
    /\ StoreGoto(p, IF parent THEN "guard" ELSE "mkdir")
    /\ UNCHANGED <<storeDisk, storeLocals, storeHistory, storeFaults>>

MakeParent(p) ==
    /\ mpc[p] = "mkdir"
    /\ \/ ~parent /\ parent' = TRUE /\ StoreGoto(p, "guard")
          /\ UNCHANGED <<dbFile, dbs, storeLocals, storeHistory>>
       \/ parent /\ StoreFail(p)   \* another command was faster: EEXIST
    /\ UNCHANGED storeFaults

(* Mutant: whoever opens the file takes it for its own before it looks. *)
BugClaimsExisting(p) ==
    /\ mpc[p] = "guard"
    /\ made' = [made EXCEPT ![p] = TRUE]
    /\ IF dbFile # 0
       THEN guard' = [guard EXCEPT ![p] = dbFile] /\ StoreGoto(p, "connect")
       ELSE StoreGoto(p, "create") /\ UNCHANGED guard
    /\ UNCHANGED <<storeDisk, conn, applied, storeHistory, storeFaults>>

(* openDatabaseGuard: open the file, or else create it exclusively. *)
OpenGuard(p) ==
    /\ mpc[p] = "guard"
    /\ IF dbFile # 0
       THEN guard' = [guard EXCEPT ![p] = dbFile] /\ StoreGoto(p, "connect")
       ELSE StoreGoto(p, "create") /\ UNCHANGED guard
    /\ UNCHANGED <<storeDisk, conn, made, applied, storeHistory, storeFaults>>

CreateGuard(p) ==
    /\ mpc[p] = "create"
    /\ \/ /\ dbFile = 0
          /\ dbs' = Append(dbs, NewFile)
          /\ dbFile' = Len(dbs) + 1
          /\ guard' = [guard EXCEPT ![p] = Len(dbs) + 1]
          /\ made' = [made EXCEPT ![p] = TRUE]
          /\ StoreGoto(p, "connect")
          /\ UNCHANGED <<parent, conn, applied, storeHistory>>
       \/ dbFile # 0 /\ StoreFail(p)
    /\ UNCHANGED storeFaults

(* Ping opens by name and creates what is not there. *)
Connect(p) ==
    /\ mpc[p] = "connect"
    /\ LET missing == dbFile = 0
       IN  /\ dbs' = IF missing THEN Append(dbs, NewFile) ELSE dbs
           /\ dbFile' = IF missing THEN Len(dbs) + 1 ELSE dbFile
           /\ conn' = [conn EXCEPT ![p] = IF missing THEN Len(dbs) + 1 ELSE dbFile]
    /\ StoreGoto(p, "identity")
    /\ UNCHANGED <<parent, guard, made, applied, storeHistory, storeFaults>>

(* verifyPathIdentity, verifyPragmas *)
VerifyIdentity(p) ==
    /\ mpc[p] = "identity"
    /\ \/ dbFile = guard[p] /\ StoreGoto(p, "history") /\ UNCHANGED <<storeDisk, storeLocals, storeHistory>>
       \/ dbFile # guard[p] /\ StoreFail(p)
    /\ UNCHANGED storeFaults

-----------------------------------------------------------------------------
(* applyMigrations *)

(* Mutant: the history is not read, every command starts with version 1. *)
BugKnowsOnlyItsOwn(p) ==
    /\ mpc[p] = "history"
    /\ StoreGoto(p, "migrate")
    /\ UNCHANGED <<storeDisk, storeLocals, storeHistory, storeFaults>>

(* The history must count up from one and know no later version. *)
ReadHistory(p) ==
    /\ mpc[p] = "history"
    /\ LET h == dbs[conn[p]].history
       IN  \/ /\ \A i \in DOMAIN h : h[i] = i
              /\ Len(h) <= Known[p]
              /\ applied' = [applied EXCEPT ![p] = Len(h)]
              /\ StoreGoto(p, "migrate")
              /\ UNCHANGED <<storeDisk, guard, conn, made, storeHistory>>
           \/ ~((\A i \in DOMAIN h : h[i] = i) /\ Len(h) <= Known[p]) /\ StoreFail(p)
    /\ UNCHANGED storeFaults

(* Mutant: the tables of a version and its row commit one after the other. *)
BugTwoCommits(p) ==
    /\ mpc[p] = "migrate"
    /\ applied[p] < Known[p]
    /\ LET v == applied[p] + 1
           db == dbs[conn[p]]
       IN  \/ /\ v \notin db.tables
              /\ dbs' = [dbs EXCEPT ![conn[p]].tables = @ \cup {v}]
              /\ UNCHANGED <<parent, dbFile, mpc, storeLocals, storeHistory>>
           \/ /\ v \in db.tables /\ ~Contains(db.history, v)
              /\ dbs' = [dbs EXCEPT ![conn[p]].history = Append(@, v)]
              /\ applied' = [applied EXCEPT ![p] = v]
              /\ UNCHANGED <<parent, dbFile, mpc, guard, conn, made, storeHistory>>
    /\ UNCHANGED storeFaults

(* One transaction per version: its tables and its row.  A version whose   *)
(* tables exist by now cannot be applied; neither can any while another    *)
(* command holds the write lock longer than the busy timeout.              *)
Migrate(p) ==
    /\ mpc[p] = "migrate"
    /\ applied[p] < Known[p]
    /\ LET v == applied[p] + 1
       IN  \/ /\ v \notin dbs[conn[p]].tables
              /\ dbs' = [dbs EXCEPT ![conn[p]] = Migrated(@, v)]
              /\ applied' = [applied EXCEPT ![p] = v]
              /\ UNCHANGED <<parent, dbFile, mpc, guard, conn, made, storeHistory, storeFaults>>
           \/ v \in dbs[conn[p]].tables /\ StoreFail(p) /\ UNCHANGED storeFaults
           \/ StoreFault /\ StoreFail(p)

(* verifySchema compares every table this version knows with what it       *)
(* expects, so later tables pass unless their version changed one of       *)
(* those; then secureSQLiteFiles looks at the name once more.              *)
VerifySchema(p) ==
    /\ mpc[p] = "migrate"
    /\ applied[p] = Known[p]
    /\ \/ /\ 1..Known[p] \subseteq dbs[conn[p]].tables /\ dbFile = guard[p]
          /\ StoreGoto(p, "open")
          /\ UNCHANGED <<storeDisk, storeLocals, storeHistory>>
       \/ ~(dbs[conn[p]].tables = 1..Known[p] /\ dbFile = guard[p]) /\ StoreFail(p)
    /\ UNCHANGED storeFaults

(* SaveScan commits, then secureSQLiteFiles decides what is reported. *)
CommitSnapshot(p) ==
    /\ mpc[p] = "open"
    /\ dbs' = [dbs EXCEPT ![conn[p]] = Saved(@, p)]
    /\ reported' = IF dbFile = guard[p] THEN reported \cup {<<conn[p], p>>} ELSE reported
    /\ StoreGoto(p, "closed")
    /\ UNCHANGED <<parent, dbFile, storeLocals, blamed, storeFaults>>

(* The process dies; what it created stays. *)
StoreCrash(p) ==
    /\ Active(p)
    /\ StoreFault
    /\ StoreGoto(p, "killed")
    /\ UNCHANGED <<storeDisk, storeLocals, storeHistory>>

StoreInit ==
    /\ parent = FALSE /\ dbFile = 0 /\ dbs = <<>>
    /\ mpc = [p \in Procs |-> "start"]
    /\ guard = [p \in Procs |-> 0]
    /\ conn = [p \in Procs |-> 0]
    /\ made = [p \in Procs |-> FALSE]
    /\ applied = [p \in Procs |-> 0]
    /\ reported = {} /\ blamed = {} /\ alone = Procs /\ storeFaults = 0

StoreNext ==
    \E p \in Procs :
        /\ \/ LookupParent(p) \/ MakeParent(p) \/ OpenGuard(p) \/ CreateGuard(p) \/ Connect(p) \/ VerifyIdentity(p)
           \/ ReadHistory(p) \/ Migrate(p) \/ VerifySchema(p) \/ CommitSnapshot(p) \/ StoreCrash(p)
        /\ Overlap(p)

StoreSpec == StoreInit /\ [][StoreNext]_storeVars

-----------------------------------------------------------------------------
StoreTypeOK ==
    /\ parent \in BOOLEAN
    /\ dbFile \in 0..Len(dbs)
    /\ mpc \in [Procs -> {"start", "mkdir", "guard", "create", "connect", "identity", "history", "migrate", "open",
                          "closed", "failed", "killed"}]
    /\ guard \in [Procs -> 0..Len(dbs)] /\ conn \in [Procs -> 0..Len(dbs)]
    /\ made \in [Procs -> BOOLEAN]
    /\ applied \in [Procs -> Nat]
    /\ \A p \in Procs : (made[p] => guard[p] # 0) /\ applied[p] <= Known[p]
    /\ storeFaults \in 0..MaxStoreFaults

(* However many commands migrate one database at once and wherever one of  *)
(* them dies, the recorded history is that of the tables, each version     *)
(* once and in order.                                                      *)
SchemaSound ==
    \A i \in DOMAIN dbs :
        LET db == dbs[i] IN db.tables = ToSet(db.history) /\ \A v \in DOMAIN db.history : db.history[v] = v

(* A command that nobody overlapped opens the store, whatever was killed   *)
(* before it, unless a newer version of the program was there.             *)
AloneOpens ==
    \A p \in Procs :
        mpc[p] = "failed" /\ p \in alone =>
            storeFaults > Cardinality({q \in Procs : mpc[q] = "killed"}) \/ Len(dbs[guard[p]].history) > Known[p]

(* A snapshot that was reported as saved is in the database, or the        *)
(* command that had created the database failed to open it.                *)
LossExplained == \A r \in reported : dbFile = r[1] \/ r[1] \in blamed

(* README: "the newest snapshot is never deleted regardless of its age".   *)
(* It is when the command that created the file finds its first migration  *)
(* applied by another one and takes the file back.                         *)
NewestSnapshotKept == \A r \in reported : dbFile = r[1]

=============================================================================
