---------------------------- MODULE EvidenceEngine ----------------------------
(***************************************************************************)
(* The evidence engine at work (internal/evidence/engine.go): a few        *)
(* workers take the accepted candidates of a scan from a closed channel.   *)
(* What a candidate needs from outside, a semantic hasher or the lookup in *)
(* the digest cache, is called in a goroutine of its own that holds one of *)
(* a few slots until it returns, however long its caller has given up      *)
(* (callbacks.go, session.go).  The callback is external and may hang.     *)
(***************************************************************************)
EXTENDS Shared, FiniteSets, Sequences, Integers

CONSTANTS
    Candidates,   \* 1..n, in the order the engine sorted them
    How,          \* per candidate: "preset" (answered at once), "semantic" or "filesystem"
    Workers,
    Slots         \* the capacity of the callback limiter

(* What a record may say. *)
EvidenceStatuses == {"complete", "partial", "oversize", "unavailable", "unsupported", "skipped"}

ASSUME EngineAssumption ==
    /\ How \in [Candidates -> {"preset", "semantic", "filesystem"}]
    /\ Slots \in Nat \ {0}
    /\ Candidates \subseteq Nat /\ IsFiniteSet(Candidates)
    /\ None \notin Candidates /\ None \notin EvidenceStatuses

VARIABLES
    jobs,       \* candidates left in the channel
    epc, work,   \* per worker: its place and its candidate
    expired,    \* candidates whose deadline passed
    callback,   \* per candidate, of its last one: "none", "running", "answered", "failed"
    slots,      \* slots taken
    completed   \* per candidate: the status of its record

engineVars == <<jobs, epc, work, expired, callback, slots, completed>>

EngineGoto(w, label) == epc' = [epc EXCEPT ![w] = label]

(* completed[index] = result, and the next job. *)
Complete(w, status) ==
    /\ completed' = [completed EXCEPT ![work[w]] = status]
    /\ EngineGoto(w, "next")
    /\ work' = [work EXCEPT ![w] = None]

-----------------------------------------------------------------------------
(* Mutant: the jobs are listed and not taken from a channel. *)
BugSharedList(w) ==
    /\ epc[w] = "next"
    /\ \E c \in jobs :
        /\ work' = [work EXCEPT ![w] = c]
        /\ EngineGoto(w, CASE How[c] = "preset" -> "preset" [] How[c] = "semantic" -> "acquire" [] OTHER -> "files")
    /\ UNCHANGED <<jobs, expired, callback, slots, completed>>

TakeJob(w) ==
    /\ epc[w] = "next"
    /\ \E c \in jobs :
        /\ \A d \in jobs : c <= d
        /\ jobs' = jobs \ {c}
        /\ work' = [work EXCEPT ![w] = c]
        /\ EngineGoto(w, CASE How[c] = "preset" -> "preset" [] How[c] = "semantic" -> "acquire" [] OTHER -> "files")
    /\ UNCHANGED <<expired, callback, slots, completed>>

(* presetRecord, the record of an invalid path, and that of a semantic     *)
(* candidate for which the engine has no hasher                            *)
Preset(w) ==
    /\ epc[w] = "preset"
    /\ \E status \in EvidenceStatuses \ {"partial"} : Complete(w, status)
    /\ UNCHANGED <<jobs, expired, callback, slots>>

(* collectFilesystem: a target that is opened, walked and hashed; each of  *)
(* its leaves may ask the cache first.  The deadline leaves what was       *)
(* found as partial, a panic leaves nothing.                               *)
CollectFiles(w) ==
    /\ epc[w] = "files"
    /\ \/ work[w] \notin expired /\ EngineGoto(w, "acquire") /\ UNCHANGED <<completed, work>>
       \/ work[w] \notin expired /\ \E status \in EvidenceStatuses \ {"skipped"} : Complete(w, status)
       \/ work[w] \in expired /\ \E status \in {"partial", "unavailable"} : Complete(w, status)
    /\ UNCHANGED <<jobs, expired, callback, slots>>

(* What a worker has after a callback that gave no answer. *)
WithoutAnswer(w) ==
    IF How[work[w]] = "semantic" THEN Complete(w, "unavailable")
    ELSE EngineGoto(w, "files") /\ UNCHANGED <<completed, work>>

(* Mutant: no slot is needed for a lookup. *)
BugNoSlot(w) ==
    /\ epc[w] = "acquire"
    /\ callback' = [callback EXCEPT ![work[w]] = "running"]
    /\ EngineGoto(w, "await")
    /\ UNCHANGED <<jobs, expired, completed, work, slots>>

(* Mutant: a worker waits for a slot whatever its deadline. *)
BugWaitsForSlot(w) ==
    /\ epc[w] = "acquire"
    /\ slots < Slots
    /\ slots' = slots + 1
    /\ callback' = [callback EXCEPT ![work[w]] = "running"]
    /\ EngineGoto(w, "await")
    /\ UNCHANGED <<jobs, expired, completed, work>>

(* callbackLimiter.acquire: a select between the slot and the deadline;    *)
(* with both ready either may be taken, and the deadline is asked again.   *)
Acquire(w) ==
    /\ epc[w] = "acquire"
    /\ \/ /\ slots < Slots /\ work[w] \notin expired
          /\ slots' = slots + 1
          /\ callback' = [callback EXCEPT ![work[w]] = "running"]
          /\ EngineGoto(w, "await")
          /\ UNCHANGED <<completed, work>>
       \/ work[w] \in expired /\ WithoutAnswer(w) /\ UNCHANGED <<callback, slots>>
    /\ UNCHANGED <<jobs, expired>>

(* Mutant: an answer that is there counts, late or not. *)
BugTakesLateAnswer(w) ==
    /\ epc[w] = "await"
    /\ \/ callback[work[w]] = "answered" /\ Complete(w, "complete")
       \/ callback[work[w]] = "failed" /\ WithoutAnswer(w)
    /\ UNCHANGED <<jobs, expired, callback, slots>>

(* Mutant: the caller that gives up returns the slot of its callback. *)
BugCallerReleases(w) ==
    /\ epc[w] = "await"
    /\ \/ callback[work[w]] = "answered" /\ work[w] \notin expired /\ Complete(w, "complete") /\ UNCHANGED slots
       \/ work[w] \in expired /\ WithoutAnswer(w) /\ slots' = slots - 1
    /\ UNCHANGED <<jobs, expired, callback>>

(* awaitSemanticResult and awaitCacheResult: whatever the select took, an  *)
(* expired deadline refuses the answer.                                    *)
Await(w) ==
    /\ epc[w] = "await"
    /\ \/ /\ callback[work[w]] = "answered" /\ work[w] \notin expired
          /\ IF How[work[w]] = "semantic" THEN Complete(w, "complete")
             ELSE EngineGoto(w, "files") /\ UNCHANGED <<completed, work>>
       \/ (callback[work[w]] = "failed" \/ work[w] \in expired) /\ WithoutAnswer(w)
    /\ UNCHANGED <<jobs, expired, callback, slots>>

(* safeCollectOne recovers a panic of the worker's own code. *)
WorkerPanics(w) ==
    /\ epc[w] = "files"
    /\ Complete(w, "unavailable")
    /\ UNCHANGED <<jobs, expired, callback, slots>>

WorkerDone(w) ==
    /\ epc[w] = "next"
    /\ jobs = {}
    /\ EngineGoto(w, "done")
    /\ UNCHANGED <<jobs, work, expired, callback, slots, completed>>

(* The callback returns, fails or panics, at any time or never, and frees  *)
(* its slot.                                                               *)
CallbackReturns(c) ==
    /\ callback[c] = "running"
    /\ \E r \in {"answered", "failed"} : callback' = [callback EXCEPT ![c] = r]
    /\ slots' = slots - 1
    /\ UNCHANGED <<jobs, epc, work, expired, completed>>

(* The deadline of a candidate that is being worked on passes, or the scan *)
(* was cancelled.                                                          *)
ExpireTarget(w) ==
    /\ work[w] # None /\ work[w] \notin expired
    /\ expired' = expired \cup {work[w]}
    /\ UNCHANGED <<jobs, epc, work, callback, slots, completed>>

EngineInit ==
    /\ jobs = Candidates
    /\ epc = [w \in Workers |-> "next"]
    /\ work = [w \in Workers |-> None]
    /\ expired = {}
    /\ callback = [c \in Candidates |-> "none"]
    /\ slots = 0
    /\ completed = [c \in Candidates |-> None]

WorkerStep(w) ==
    TakeJob(w) \/ Preset(w) \/ CollectFiles(w) \/ Acquire(w) \/ Await(w) \/ WorkerPanics(w) \/ WorkerDone(w)

EngineNext ==
    \/ \E w \in Workers : WorkerStep(w) \/ ExpireTarget(w)
    \/ \E c \in Candidates : CallbackReturns(c)

(* Go schedules the workers and its timers fire.  Nothing is assumed of    *)
(* the callbacks.                                                          *)
EngineFairness == \A w \in Workers : WF_engineVars(WorkerStep(w)) /\ WF_engineVars(ExpireTarget(w))
EngineSpec == EngineInit /\ [][EngineNext]_engineVars /\ EngineFairness

-----------------------------------------------------------------------------
EngineTypeOK ==
    /\ jobs \subseteq Candidates /\ expired \subseteq Candidates
    /\ epc \in [Workers -> {"next", "preset", "files", "acquire", "await", "done"}]
    /\ work \in [Workers -> Candidates \cup {None}]
    /\ callback \in [Candidates -> {"none", "running", "answered", "failed"}]
    /\ slots \in 0..Slots
    /\ completed \in [Candidates -> EvidenceStatuses \cup {None}]

(* A slot is held by the callback and not by its caller: as many are taken *)
(* as callbacks still run, the abandoned ones included.                    *)
SlotsAreCallbacks == slots = Cardinality({c \in Candidates : callback[c] = "running"})

(* An answer that came after the deadline never completes a record.        *)
NoLateDigest ==
    [][\A c \in Candidates :
        completed'[c] = "complete" /\ completed[c] = None /\ How[c] = "semantic" =>
            callback[c] = "answered" /\ c \notin expired]_engineVars

(* Every candidate gets exactly one record, from one worker.               *)
OneRecordPerCandidate ==
    /\ \A v, w \in Workers : v # w /\ work[v] # None => work[v] # work[w]
    /\ \A c \in Candidates : completed[c] # None <=> c \notin jobs /\ \A w \in Workers : work[w] # c

(* Every candidate has one record, a slot is held by a running callback    *)
(* and by nothing else, and an answer after the deadline is no digest      *)
(* (evidence/engine.go, evidence/callbacks.go).                            *)
EvidenceSound == [](SlotsAreCallbacks /\ OneRecordPerCandidate) /\ NoLateDigest

=============================================================================
