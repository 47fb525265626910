---------------------------- MODULE BundleUpdate ----------------------------
(***************************************************************************)
(* `ssc-init ti update` (internal/bundle/update.go): fetch the signed      *)
(* manifest of the latest release, compare it with the local bundle,       *)
(* download the bundle it names and install it into the store of Bundle.   *)
(*                                                                         *)
(* Two updates (a scheduled one and one the user starts) may run at once,  *)
(* together with rollbacks.  The local bundle is read before the store is  *)
(* locked and never read again before the install.  The server may answer  *)
(* any request with any release, an old one included, or not at all.       *)
(***************************************************************************)
EXTENDS Bundle

VARIABLES
    upc,        \* where each update is
    offer,      \* the bundle the verified manifest names
    fetched,    \* the bundle downloaded
    local,      \* the current pointer as Status read it
    code,       \* why the update fails: "rejected" is rollback-rejected
    out         \* the UpdateResult: status, error code and reported bundle

updates == <<upc, offer, fetched, local, code, out>>
uvars == <<vars, updates>>

NoResult == [status |-> "none", code |-> "none", bundle |-> None]

At(p, label) == upc[p] = label /\ pc[p] = "idle"

Proceed(p, label) == upc' = [upc EXCEPT ![p] = label]

(* The update returns a result and forgets its locals. *)
Finish(p, status, c, b) ==
    /\ Proceed(p, "idle")
    /\ out' = [out EXCEPT ![p] = [status |-> status, code |-> c, bundle |-> b]]
    /\ fetched' = [fetched EXCEPT ![p] = None]
    /\ local' = [local EXCEPT ![p] = 0]
    /\ code' = [code EXCEPT ![p] = "none"]

(* failed() is entered with an error code. *)
GiveUp(p, c) ==
    /\ Proceed(p, "failed")
    /\ code' = [code EXCEPT ![p] = c]

-----------------------------------------------------------------------------
StartUpdate(p) ==
    /\ At(p, "idle")
    /\ Proceed(p, "fetch")
    /\ offer' = [offer EXCEPT ![p] = None]
    /\ out' = [out EXCEPT ![p] = NoResult]
    /\ UNCHANGED <<vars, fetched, local, code>>

(* The manifest and its signature are fetched and verified; it carries the *)
(* validity interval of the bundle.                                        *)
FetchManifest(p) ==
    /\ At(p, "fetch")
    /\ \/ \E b \in Bundles :
             /\ Valid(b)
             /\ offer' = [offer EXCEPT ![p] = b]
          /\ Proceed(p, "pointer")
          /\ UNCHANGED code
       \/ GiveUp(p, "failed") /\ UNCHANGED offer
    /\ UNCHANGED <<vars, fetched, local, out>>

(* Manager.Status reads the pointer ... *)
LocalPointer(p) ==
    /\ At(p, "pointer")
    /\ local' = [local EXCEPT ![p] = current]
    /\ Proceed(p, "compare")
    /\ UNCHANGED <<vars, offer, fetched, code, out>>

(* ... and the bundle, which has sequence 0 when it cannot be read. *)
LocalSequence(p) == IF Stored(local[p]) THEN local[p] ELSE 0

(* Mutant of Compare: the local bundle itself is refused like an older one. *)
BugRejectsEqual(p) ==
    /\ At(p, "compare")
    /\ IF LocalSequence(p) >= SequenceOf[offer[p]]
       THEN GiveUp(p, "rejected")
       ELSE Proceed(p, "download") /\ UNCHANGED code
    /\ UNCHANGED <<vars, offer, fetched, local, out>>

(* An older manifest, or another bundle under the local sequence, is       *)
(* refused; the local bundle itself is current.                            *)
Compare(p) ==
    /\ At(p, "compare")
    /\ \/ /\ LocalSequence(p) = SequenceOf[offer[p]]
          /\ versions[local[p]] = offer[p]
          /\ Finish(p, "current", "none", offer[p])
       \/ /\ \/ LocalSequence(p) > SequenceOf[offer[p]]
             \/ LocalSequence(p) = SequenceOf[offer[p]] /\ versions[local[p]] # offer[p]
          /\ GiveUp(p, "rejected")
          /\ UNCHANGED <<fetched, local, out>>
       \/ /\ LocalSequence(p) < SequenceOf[offer[p]]
          /\ Proceed(p, "download")
          /\ UNCHANGED <<fetched, local, code, out>>
    /\ UNCHANGED <<vars, offer>>

(* Mutant of Download: an artifact that cannot be fetched is not an error. *)
BugMissingArtifact(p) ==
    /\ At(p, "download")
    /\ Proceed(p, "install")
    /\ \/ fetched' = [fetched EXCEPT ![p] = offer[p]]
       \/ UNCHANGED fetched
    /\ UNCHANGED <<vars, offer, local, code, out>>

(* Mutant of Download: the digest in the manifest is not compared. *)
BugArtifactNotCompared(p) ==
    /\ At(p, "download")
    /\ \/ \E b \in Bundles :
             /\ SequenceOf[b] = SequenceOf[offer[p]]
             /\ fetched' = [fetched EXCEPT ![p] = b]
          /\ Proceed(p, "install")
          /\ UNCHANGED code
       \/ GiveUp(p, "failed") /\ UNCHANGED fetched
    /\ UNCHANGED <<vars, offer, local, out>>

(* Whatever is downloaded must have the digest, the sequence and the       *)
(* interval of the manifest, and verify at the time the update began.      *)
Download(p) ==
    /\ At(p, "download")
    /\ \/ \E b \in Bundles :
             /\ b = offer[p]
             /\ fetched' = [fetched EXCEPT ![p] = b]
          /\ Proceed(p, "install")
          /\ UNCHANGED code
       \/ GiveUp(p, "failed") /\ UNCHANGED fetched
    /\ UNCHANGED <<vars, offer, local, out>>

(* Manager.Install is called; it fails at once when the lock is held, the  *)
(* bundle expired or the update is cancelled.                              *)
CallInstall(p) ==
    /\ At(p, "install")
    /\ \/ /\ BeginInstall(p, fetched[p])
          /\ Proceed(p, "wait")
          /\ UNCHANGED code
       \/ GiveUp(p, "failed") /\ UNCHANGED vars
    /\ UNCHANGED <<offer, fetched, local, out>>

(* Manager.Install returns. *)
InstallReturns(p) ==
    /\ At(p, "wait")
    /\ \/ result[p] = "installed" /\ Finish(p, "updated", "none", fetched[p])
       \/ /\ \/ result[p] = "rollback" /\ GiveUp(p, "rejected")
             \/ result[p] = "failed" /\ GiveUp(p, "failed")
          /\ UNCHANGED <<fetched, local, out>>
    /\ UNCHANGED <<vars, offer>>

(* failed() reads the status of what is active now, pointer first ... *)
FailedPointer(p) ==
    /\ At(p, "failed")
    /\ local' = [local EXCEPT ![p] = current]
    /\ Proceed(p, "report")
    /\ UNCHANGED <<vars, offer, fetched, code, out>>

(* Mutant of Report: it waits for the active bundle to become readable. *)
BugReportWaits(p) ==
    /\ At(p, "report")
    /\ local[p] = current
    /\ Stored(local[p])
    /\ Finish(p, "degraded", code[p], versions[local[p]])
    /\ UNCHANGED <<vars, offer>>

(* ... and reports a usable bundle as degraded, none as unavailable. *)
Report(p) ==
    /\ At(p, "report")
    /\ \/ /\ Stored(local[p])
          /\ Finish(p, IF Freshness(versions[local[p]]) \in {"fresh", "stale"}
                       THEN "degraded" ELSE "unavailable",
                    code[p], versions[local[p]])
       \/ /\ ~Stored(local[p])
          /\ Finish(p, "unavailable", code[p], None)
    /\ UNCHANGED <<vars, offer>>

(* The process is killed. *)
CrashUpdate(p) ==
    /\ upc[p] # "idle"
    /\ \/ pc[p] # "idle" /\ Crash(p)
       \/ pc[p] = "idle" /\ UNCHANGED vars
    /\ Finish(p, "none", "none", None)
    /\ UNCHANGED offer

-----------------------------------------------------------------------------
UInit ==
    /\ Init
    /\ upc = [p \in Procs |-> "idle"]
    /\ offer = [p \in Procs |-> None]
    /\ fetched = [p \in Procs |-> None]
    /\ local = [p \in Procs |-> 0]
    /\ code = [p \in Procs |-> "none"]
    /\ out = [p \in Procs |-> NoResult]

Updating(p) ==
    \/ FetchManifest(p) \/ LocalPointer(p) \/ Compare(p) \/ Download(p)
    \/ CallInstall(p) \/ InstallReturns(p) \/ FailedPointer(p) \/ Report(p)

(* The commands on the store itself: the install an update called, and     *)
(* rollbacks the user asks for.                                            *)
OnStore(p) ==
    /\ \/ Install(p) \/ Rollback(p)
       \/ upc[p] = "idle" /\ BeginRollback(p)
       \/ upc[p] = "idle" /\ Crash(p)
    /\ UNCHANGED updates

UNext ==
    \/ \E p \in Procs :
          StartUpdate(p) \/ Updating(p) \/ OnStore(p) \/ CrashUpdate(p)
    \/ Tick /\ UNCHANGED updates

USpec == UInit /\ [][UNext]_uvars

-----------------------------------------------------------------------------
(* Properties. *)

UpdateLabels ==
    {"idle", "fetch", "pointer", "compare", "download", "install", "wait",
     "failed", "report"}

Codes == {"none", "rejected", "failed"}

Outcomes ==
    [status : {"none", "current", "updated", "degraded", "unavailable"},
     code : Codes, bundle : Bundles \cup {None}]

(* The variables of the updates stay within their types, and an update     *)
(* that is past its manifest has one.                                      *)
UTypeOK ==
    /\ upc \in [Procs -> UpdateLabels]
    /\ offer \in [Procs -> Bundles \cup {None}]
    /\ fetched \in [Procs -> Bundles \cup {None}]
    /\ local \in [Procs -> Seqs \cup {0}]
    /\ code \in [Procs -> Codes]
    /\ out \in [Procs -> Outcomes]
    /\ \A p \in Procs :
          /\ upc[p] \in {"pointer", "compare", "download", "install", "wait"} => offer[p] # None
          /\ upc[p] \in {"install", "wait"} => fetched[p] # None

(* Whatever bundle a result names, as updated, current or still active, is *)
(* the one accepted for its sequence: no interleaving of two updates,      *)
(* rollbacks and crashes makes a result name other bytes                   *)
(* (update.go:96-105, 124-147, 190-201).                                   *)
ReportsAccepted ==
    \A p \in Procs :
        out[p].bundle # None => accepted[SequenceOf[out[p].bundle]] = out[p].bundle

(* An update that says updated or current installed or found exactly the   *)
(* bundle its manifest named (update.go:101-103, 124, 142, 162).           *)
ReportsOffered ==
    \A p \in Procs :
        out[p].status \in {"updated", "current"} =>
            out[p].bundle = offer[p] /\ SequenceOf[offer[p]] <= highest

(* Both: what a result names was accepted under its sequence, and is the   *)
(* offered bundle if it says so (update.go:96-147, 190-201).               *)
ReportsSound == ReportsAccepted /\ ReportsOffered

(* rollback-rejected is only reported with a reason: a newer sequence was  *)
(* accepted, other bytes were accepted under this one, the offered bundle  *)
(* expired, or the swap of its directory was interrupted                   *)
(* (update.go:97-105, 157; lifecycle.go:65-79).                            *)
RejectionExplained ==
    \A p \in Procs :
        out[p].code = "rejected" =>
            \/ SequenceOf[offer[p]] < highest
            \/ accepted[SequenceOf[offer[p]]] \notin {None, offer[p]}
            \/ ~Valid(offer[p])
            \/ SequenceOf[offer[p]] \in torn

(* A bundle that was active stays readable: once nobody works on the       *)
(* store, the current pointer leads to a bundle.                           *)
LastKnownGoodKept == lock = None /\ current # 0 => Stored(current)

=============================================================================
