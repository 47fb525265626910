------------------------------- MODULE MCHost -------------------------------
(* The components of one machine, side by side.  A behaviour works one of  *)
(* them, `part`, and leaves the others as they start: TLC checks the union *)
(* of their state spaces.                                                  *)
EXTENDS AuditArchive, Schedule, DeviceIdentity, StoreOpen, Orchestrator, EvidenceEngine, TLC

CONSTANTS p1, p2, Parts

VARIABLE part

MCSizeOf == 1 :> 1 @@ 2 :> 2
MCKnown == p1 :> 2 @@ p2 :> 1
MCSpecs == <<None, {"a", "b"}, {"a"}>>
MCReport(t, i, s) == [target |-> t, instance |-> i, status |-> s]
MCReports ==
    {<<MCReport("a", None, "complete")>>}
        \cup {<<MCReport("a", None, "complete"), r>> :
                r \in {MCReport("a", None, "partial"), MCReport("a", 1, "partial"), MCReport("b", None, "partial")}}
MCHow == <<"semantic", "filesystem", "semantic", "preset">>

(* One release, for the updates: its store and its clock are Bundle's. *)
VARIABLES
    versions, staging, current, previous, highest, lock, storeNow,
    pc, arg, seen, got, storeResult, accepted, torn, faults,
    upc, offer, fetched, local, code, updateOut

U == INSTANCE BundleUpdate
    WITH Bundles <- {"release"}, SequenceOf <- "release" :> 1,
         ValidFrom <- "release" :> 0, ValidUntil <- "release" :> 0,
         MaxSeq <- 1, MaxTime <- 1, Grace <- 0, MaxFaults <- 1,
         now <- storeNow, result <- storeResult, out <- updateOut

updateVars ==
    <<versions, staging, current, previous, highest, lock, storeNow,
      pc, arg, seen, got, storeResult, accepted, torn, faults,
      upc, offer, fetched, local, code, updateOut>>

hostVars == <<part, auditVars, scheduleVars, deviceVars, storeVars, orchestratorVars, engineVars, updateVars>>

HostInit ==
    /\ part \in Parts
    /\ AuditInit /\ ScheduleInit /\ DeviceInit /\ StoreInit /\ OrchestratorInit /\ EngineInit /\ U!UInit
    /\ part # "schedule" => active = CHOOSE v \in CoreVersions : TRUE   \* one initial state

AuditPart(A) == part = "audit" /\ A /\ UNCHANGED <<part, scheduleVars, deviceVars, storeVars, orchestratorVars, engineVars, updateVars>>
SchedulePart(A) == part = "schedule" /\ A /\ UNCHANGED <<part, auditVars, deviceVars, storeVars, orchestratorVars, engineVars, updateVars>>
DevicePart(A) == part = "device" /\ A /\ UNCHANGED <<part, auditVars, scheduleVars, storeVars, orchestratorVars, engineVars, updateVars>>
StorePart(A) == part = "store" /\ A /\ UNCHANGED <<part, auditVars, scheduleVars, deviceVars, orchestratorVars, engineVars, updateVars>>
OrchestratorPart(A) == part = "orchestrator" /\ A /\ UNCHANGED <<part, auditVars, scheduleVars, deviceVars, storeVars, engineVars, updateVars>>
EnginePart(A) == part = "engine" /\ A /\ UNCHANGED <<part, auditVars, scheduleVars, deviceVars, storeVars, orchestratorVars, updateVars>>
UpdatePart(A) == part = "update" /\ A /\ UNCHANGED <<part, auditVars, scheduleVars, deviceVars, storeVars, orchestratorVars, engineVars>>

HostNext ==
    \/ AuditPart(AuditNext) \/ SchedulePart(ScheduleNext) \/ DevicePart(DeviceNext) \/ StorePart(StoreNext)
    \/ OrchestratorPart(OrchestratorNext) \/ EnginePart(EngineNext) \/ UpdatePart(U!UNext)

(* An update, or the command on the store that it called or the user gave. *)
Updating(p) == U!Updating(p) \/ ((U!Install(p) \/ U!Rollback(p)) /\ UNCHANGED <<upc, offer, fetched, local, code, updateOut>>)

(* The fairness of the part that runs: its n-th actor goes on.  Only one   *)
(* disjunct of an actor belongs to a part.  The third actor of the engine  *)
(* is its timers: they fire a finite number of times, so that to treat     *)
(* them alike is to be fair to each.                                       *)
ActorStep(n) ==
    \/ n = 1 /\ (AuditPart(AuditStep(p1)) \/ SchedulePart(ScheduleStep(p1)) \/ OrchestratorPart(FinishCollect) \/ UpdatePart(Updating(p1)))
    \/ n = 2 /\ (AuditPart(AuditStep(p2)) \/ SchedulePart(ScheduleStep(p2)) \/ UpdatePart(Updating(p2)))
    \/ OrchestratorPart(CollectorStep(n))
    \/ \E w \in Workers : w = n /\ EnginePart(WorkerStep(w))
    \/ n = 3 /\ EnginePart(\E w \in Workers : ExpireTarget(w))

HostSpec == HostInit /\ [][HostNext]_hostVars /\ \A n \in Collectors : WF_hostVars(ActorStep(n))

-----------------------------------------------------------------------------
(* Properties: those of the components, by the question they answer.       *)

(* The variables of every component stay within their types. *)
HostTypeOK ==
    AuditTypeOK /\ ScheduleTypeOK /\ DeviceTypeOK /\ StoreTypeOK /\ OrchestratorTypeOK /\ EngineTypeOK

(* Retention never costs the newest archive and keeps to its budget, no    *)
(* archive has its final name before it is whole, temporary files are left *)
(* only by faults, and an export replaces nothing, whatever two commands,  *)
(* the user, crashes and the clock do (audit/manager.go).                  *)
ArchiveSound ==
    /\ [](BudgetKept /\ PublishedWhole /\ TempsExplained)
    /\ NewestArchiveSpared
    /\ ExportNeverReplaces

(* A machine has one identity and one database: first commands at once     *)
(* draw one identity, migrations are applied once and whole, a command     *)
(* alone opens the store, and a snapshot that was reported is lost only    *)
(* with a database whose creator failed to open it                         *)
(* (cmd/ssc-init/main.go, store/sqlite.go, store/migrations.go).           *)
StoreSound == OneIdentity /\ PartialExplained /\ SchemaSound /\ AloneOpens /\ LossExplained

(* Collect answers for every collector once, in order, with no more of     *)
(* them at work than it allows; complete is never said for a target that   *)
(* was late, missing or refused, nor are its sealed paths kept             *)
(* (collector/orchestrator.go, collector/coverage.go).                     *)
CollectorsAnswer == ConcurrencyBounded /\ OneRecordEach /\ CompleteIsEarned /\ SealedOnlyAccepted

(* Everything that was begun ends: the locks of the archive, the schedule  *)
(* and the bundle store are let go, updates return, and so do Collect and  *)
(* the workers of the evidence engine, whatever hangs, fails or is late    *)
(* (audit/manager.go, schedule/manage.go, bundle/lifecycle.go,             *)
(* bundle/update.go, collector/orchestrator.go, evidence/engine.go).       *)
Settled(p) ==
    /\ part = "audit" => auditLock = None
    /\ part = "schedule" => scheduleLock = None
    /\ part = "update" => lock # p /\ upc[p] = "idle"
    /\ part = "orchestrator" => collected # None
    /\ part = "engine" => \A c \in Candidates : completed[c] # None

HostSettles == \A p \in Procs : []<>Settled(p)

=============================================================================
