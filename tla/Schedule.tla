------------------------------ MODULE Schedule ------------------------------
(***************************************************************************)
(* The daily scan (internal/schedule): `schedule install` publishes a      *)
(* property list and asks launchd to load it, `schedule remove` unloads    *)
(* the job and removes the list.  The list names the executable of the     *)
(* core version that was active when the command started, so this module   *)
(* also has the effect of `install` and `rollback` on that version.        *)
(*                                                                         *)
(* launchctl is a child process with a deadline of its own: it may fail,   *)
(* with or without having taken effect.                                    *)
(***************************************************************************)
EXTENDS Shared, Integers

CONSTANTS
    CoreVersions,
    MaxScheduleFaults,   \* bound: crashes, failed file operations and launchctl calls
    MaxUpgrades          \* bound: activations and rollbacks

ASSUME ScheduleAssumption ==
    /\ None \notin CoreVersions \cup {"install-failed", "remove-failed"}
    /\ {MaxScheduleFaults, MaxUpgrades} \subseteq Nat

VARIABLES
    plist,      \* the property list: the version it names, or None
    loaded,     \* the launchd job: the version it runs, or None
    active,     \* the active core version
    former,     \* the previous one, the target of a rollback, or None
    scheduleLock,
    spc, want, existed, result,  \* the locals of each command
    scheduleTemps,  \* temporary files left in LaunchAgents
    scheduleFaults, upgrades

scheduleHost == <<plist, loaded, active, former, scheduleTemps, upgrades>>
scheduleLocals == <<spc, want, existed, result>>
scheduleVars == <<scheduleHost, scheduleLock, scheduleLocals, scheduleFaults>>

(* Versions that still have a directory: prune keeps these two. *)
Installed == {active, former} \ {None}

ScheduleGoto(p, label) == spc' = [spc EXCEPT ![p] = label]
ScheduleFault == scheduleFaults < MaxScheduleFaults /\ scheduleFaults' = scheduleFaults + 1

(* Mutant: one status for every failure. *)
BugOneStatus(command) == "failed"

(* The error returns of either command, which answer with no Status. *)
Failed(command) == IF command = "install" THEN "install-failed" ELSE "remove-failed"

(* The command has its result and returns, with its deferred unlock. *)
Answer(p, r) ==
    /\ ScheduleGoto(p, "done")
    /\ result' = [result EXCEPT ![p] = r]
    /\ UNCHANGED <<want, existed, scheduleLock>>

scheduleKept == <<want, existed, result, scheduleLock>>   \* what a step inside a command leaves alone

-----------------------------------------------------------------------------
(* `schedule install` and `schedule remove` read the current pointer, and  *)
(* Preview looks at that version's executable, before any lock.            *)
BeginSchedule(p, command) ==
    /\ spc[p] = "idle"
    /\ ScheduleGoto(p, command)
    /\ want' = [want EXCEPT ![p] = active]
    /\ UNCHANGED <<scheduleHost, scheduleLock, existed, result, scheduleFaults>>

(* Mutant: a taken lock is an error at once. *)
BugNoWait(p) ==
    /\ spc[p] \in {"install", "remove"}
    /\ \/ /\ scheduleLock = None
          /\ scheduleLock' = p
          /\ ScheduleGoto(p, IF spc[p] = "install" THEN "compare" ELSE "match")
          /\ UNCHANGED <<want, existed, result>>
       \/ scheduleLock # None /\ Answer(p, Failed(spc[p]))
    /\ UNCHANGED <<scheduleHost, scheduleFaults>>

(* acquireScheduleLock polls until it has the lock or the context ends. *)
LockSchedule(p) ==
    /\ spc[p] \in {"install", "remove"}
    /\ \/ /\ scheduleLock = None
          /\ scheduleLock' = p
          /\ ScheduleGoto(p, IF spc[p] = "install" THEN "compare" ELSE "match")
          /\ UNCHANGED <<want, existed, result, scheduleFaults>>
       \/ ScheduleFault /\ Answer(p, Failed(spc[p]))
    /\ UNCHANGED scheduleHost

(* Mutant: any existing list counts as this one. *)
BugAnyList(p) ==
    /\ spc[p] = "compare"
    /\ existed' = [existed EXCEPT ![p] = plist # None]
    /\ ScheduleGoto(p, IF plist = None THEN "publish" ELSE "print")
    /\ UNCHANGED <<scheduleHost, want, result, scheduleLock, scheduleFaults>>

(* Install: a list with other bytes is left alone. *)
CompareList(p) ==
    /\ spc[p] = "compare"
    /\ \/ /\ plist \in {None, want[p]}
          /\ existed' = [existed EXCEPT ![p] = plist # None]
          /\ ScheduleGoto(p, IF plist = None THEN "publish" ELSE "print")
          /\ UNCHANGED <<want, result, scheduleLock>>
       \/ plist \notin {None, want[p]} /\ Answer(p, Failed("install"))
    /\ UNCHANGED <<scheduleHost, scheduleFaults>>

(* publishAtomic: write a temporary file, link it, remove it; a failed     *)
(* removal takes the published name back, and may fail at that as well.    *)
PublishList(p) ==
    /\ spc[p] = "publish"
    /\ \/ plist' = want[p] /\ ScheduleGoto(p, "print") /\ UNCHANGED <<scheduleKept, scheduleTemps, scheduleFaults>>
       \/ /\ ScheduleFault /\ Answer(p, Failed("install"))
          /\ plist' \in {plist, want[p]}
          /\ scheduleTemps' \in {scheduleTemps, scheduleTemps + 1}
    /\ UNCHANGED <<loaded, active, former, upgrades>>

(* launchctl print: a call that fails counts as "not loaded". *)
PrintJob(p) ==
    /\ spc[p] \in {"print", "probe"}
    /\ \/ /\ loaded # None
          /\ IF spc[p] = "print" THEN Answer(p, "already-installed")
             ELSE ScheduleGoto(p, "bootout") /\ UNCHANGED scheduleKept
          /\ UNCHANGED scheduleFaults
       \/ /\ \/ loaded = None /\ UNCHANGED scheduleFaults
             \/ ScheduleFault
          /\ ScheduleGoto(p, IF spc[p] = "print" THEN "bootstrap" ELSE "unlist")
          /\ UNCHANGED scheduleKept
    /\ UNCHANGED scheduleHost

(* launchctl bootstrap loads the list unless a job of the label is loaded. *)
BootstrapJob(p) ==
    /\ spc[p] = "bootstrap"
    /\ \/ /\ loaded = None /\ plist # None
          /\ loaded' = plist
          /\ \/ Answer(p, "installed") /\ UNCHANGED scheduleFaults
             \/ ScheduleFault /\ ScheduleGoto(p, "undo") /\ UNCHANGED scheduleKept
       \/ /\ \/ (loaded # None \/ plist = None) /\ UNCHANGED scheduleFaults
             \/ ScheduleFault
          /\ ScheduleGoto(p, "undo")
          /\ UNCHANGED <<scheduleKept, loaded>>
    /\ UNCHANGED <<plist, active, former, scheduleTemps, upgrades>>

(* A list this command published goes again; the error is ignored. *)
UndoList(p) ==
    /\ spc[p] = "undo"
    /\ Answer(p, Failed("install"))
    /\ \/ plist' = (IF existed[p] THEN plist ELSE None) /\ UNCHANGED scheduleFaults
       \/ ScheduleFault /\ UNCHANGED plist
    /\ UNCHANGED <<loaded, active, former, scheduleTemps, upgrades>>

(* Mutant: the list goes without asking for the job. *)
BugNoBootout(p) ==
    /\ spc[p] = "match"
    /\ \/ plist = None /\ Answer(p, "not-installed")
       \/ plist \notin {None, want[p]} /\ Answer(p, Failed("remove"))
       \/ plist = want[p] /\ ScheduleGoto(p, "unlist") /\ UNCHANGED scheduleKept
    /\ UNCHANGED <<scheduleHost, scheduleFaults>>

(* Remove: nothing without a list, and only the exact list is managed. *)
MatchList(p) ==
    /\ spc[p] = "match"
    /\ \/ plist = None /\ Answer(p, "not-installed")
       \/ plist \notin {None, want[p]} /\ Answer(p, Failed("remove"))
       \/ plist = want[p] /\ ScheduleGoto(p, "probe") /\ UNCHANGED scheduleKept
    /\ UNCHANGED <<scheduleHost, scheduleFaults>>

BootoutJob(p) ==
    /\ spc[p] = "bootout"
    /\ \/ loaded' = None /\ ScheduleGoto(p, "unlist") /\ UNCHANGED <<scheduleKept, scheduleFaults>>
       \/ ScheduleFault /\ loaded' \in {loaded, None} /\ Answer(p, Failed("remove"))
    /\ UNCHANGED <<plist, active, former, scheduleTemps, upgrades>>

UnlistJob(p) ==
    /\ spc[p] = "unlist"
    /\ \/ plist # None /\ plist' = None /\ Answer(p, "removed") /\ UNCHANGED scheduleFaults
       \/ plist = None /\ Answer(p, Failed("remove")) /\ UNCHANGED <<plist, scheduleFaults>>
       \/ ScheduleFault /\ Answer(p, Failed("remove")) /\ UNCHANGED plist
    /\ UNCHANGED <<loaded, active, former, scheduleTemps, upgrades>>

(* Mutant: a failed command returns before it unlocks. *)
BugFailureKeepsLock(p) ==
    /\ ScheduleGoto(p, "idle")
    /\ want' = [want EXCEPT ![p] = None]
    /\ existed' = [existed EXCEPT ![p] = FALSE]
    /\ result' = [result EXCEPT ![p] = None]
    /\ scheduleLock' = IF scheduleLock = p /\ result[p] \notin {"install-failed", "remove-failed"} THEN None ELSE scheduleLock

(* The locals die and the lock is released. *)
EndSchedule(p) ==
    /\ ScheduleGoto(p, "idle")
    /\ want' = [want EXCEPT ![p] = None]
    /\ existed' = [existed EXCEPT ![p] = FALSE]
    /\ result' = [result EXCEPT ![p] = None]
    /\ scheduleLock' = IF scheduleLock = p THEN None ELSE scheduleLock

ScheduleReturn(p) == spc[p] = "done" /\ EndSchedule(p) /\ UNCHANGED <<scheduleHost, scheduleFaults>>

(* The process dies; a temporary file may stay. *)
ScheduleCrash(p) ==
    /\ spc[p] # "idle"
    /\ ScheduleFault
    /\ EndSchedule(p)
    /\ scheduleTemps' \in IF spc[p] = "publish" THEN {scheduleTemps, scheduleTemps + 1} ELSE {scheduleTemps}
    /\ UNCHANGED <<plist, loaded, active, former, upgrades>>

(* `ssc-init install` of another version, with its prune, or a rollback. *)
SwitchCore ==
    /\ upgrades < MaxUpgrades
    /\ upgrades' = upgrades + 1
    /\ active' \in CoreVersions \ {active}
    /\ former' = active
    /\ UNCHANGED <<plist, loaded, scheduleTemps, scheduleLock, scheduleLocals, scheduleFaults>>

(* At login, which ended every command of the session, launchd loads what *)
(* is listed and nothing else.                                            *)
Login ==
    /\ \A p \in Procs : spc[p] = "idle"
    /\ loaded' = plist
    /\ UNCHANGED <<plist, active, former, scheduleTemps, upgrades, scheduleLock, scheduleLocals, scheduleFaults>>

ScheduleStep(p) ==
    \/ LockSchedule(p) \/ CompareList(p) \/ PublishList(p) \/ PrintJob(p) \/ BootstrapJob(p) \/ UndoList(p)
    \/ MatchList(p) \/ BootoutJob(p) \/ UnlistJob(p) \/ ScheduleReturn(p)

ScheduleInit ==
    /\ plist = None /\ loaded = None
    /\ active \in CoreVersions /\ former = None
    /\ scheduleLock = None
    /\ spc = [p \in Procs |-> "idle"]
    /\ want = [p \in Procs |-> None]
    /\ existed = [p \in Procs |-> FALSE]
    /\ result = [p \in Procs |-> None]
    /\ scheduleTemps = 0 /\ scheduleFaults = 0 /\ upgrades = 0

ScheduleNext ==
    \/ \E p \in Procs :
        \/ ScheduleStep(p) \/ ScheduleCrash(p)
        \/ \E command \in {"install", "remove"} : BeginSchedule(p, command)
    \/ SwitchCore \/ Login

(* A command goes on unless it is killed. *)
ScheduleFairness == \A p \in Procs : WF_scheduleVars(ScheduleStep(p))
ScheduleSpec == ScheduleInit /\ [][ScheduleNext]_scheduleVars /\ ScheduleFairness

-----------------------------------------------------------------------------
ScheduleTypeOK ==
    /\ plist \in CoreVersions \cup {None}
    /\ loaded \in CoreVersions \cup {None}
    /\ active \in CoreVersions
    /\ former \in CoreVersions \cup {None}
    /\ scheduleLock \in Procs \cup {None}
    /\ spc \in [Procs -> {"idle", "install", "remove", "compare", "publish", "print", "bootstrap", "undo",
                          "match", "probe", "bootout", "unlist", "done"}]
    /\ want \in [Procs -> CoreVersions \cup {None}]
    /\ existed \in [Procs -> BOOLEAN]
    /\ result \in [Procs -> {None, "installed", "already-installed", "removed", "not-installed", "install-failed", "remove-failed"}]
    /\ scheduleTemps \in Nat
    /\ scheduleFaults \in 0..MaxScheduleFaults
    /\ upgrades \in 0..MaxUpgrades

InCritical(p) == spc[p] \in {"compare", "publish", "print", "bootstrap", "undo", "match", "probe", "bootout", "unlist"}

(* While no command is between its first and its last effect, the list and *)
(* the job agree, whatever order commands, upgrades and logins came in,    *)
(* unless something failed.                                                *)
ListAndJobAgree ==
    (\A p \in Procs : ~InCritical(p)) /\ scheduleFaults = 0 => plist = loaded

(* A result tells the truth about the list, and, as long as nothing        *)
(* failed, about the job.                                                  *)
ResultTruthful ==
    \A p \in Procs : spc[p] = "done" /\ scheduleLock = p =>
        /\ result[p] \in {"installed", "already-installed"} =>
            plist = want[p] /\ (scheduleFaults = 0 => loaded = want[p])
        /\ result[p] \in {"removed", "not-installed"} =>
            plist = None /\ (scheduleFaults = 0 => loaded = None)

(* "Repeated or concurrent requests are idempotent" (README): without a    *)
(* failure a request is only refused because the list names the version    *)
(* that was active before an upgrade.                                      *)
ScheduleRefusalExplained ==
    \A p \in Procs : result[p] \in {"install-failed", "remove-failed"} /\ scheduleFaults = 0 => plist # None /\ plist # want[p]

(* Between commands the property list and the launchd job agree, a command *)
(* reports what it left behind, and it refuses only what is not its own    *)
(* (schedule/manage.go).                                                   *)
ScheduleSound == ListAndJobAgree /\ ResultTruthful /\ ScheduleRefusalExplained

(* README: "`remove` unloads and removes that exact managed job."  Every   *)
(* list here was written by `schedule install`; a remove that met no       *)
(* failure should never give up.  It does once the core was upgraded: the  *)
(* list it looks for names the version active now.                         *)
RemoveRemoves == \A p \in Procs : result[p] = "remove-failed" => scheduleFaults > 0

=============================================================================
