# Verification of SSC Init

SSC Init is a macOS command line tool that takes an inventory of the software
supply chain of one machine (agents, MCP servers, IDE extensions, packages,
projects), stores it as snapshots, reports the drift between scans, and acts on
request: it quarantines files, installs its own core binary, and keeps a signed
threat intelligence bundle up to date.  No daemon owns the state.  Every
command is a process of its own; a hook, a scheduled job and a terminal may run
several at once over the same SQLite database and the same directories, and
each of them may be killed between any two system calls.  What it reads belongs
to others, who write while it reads.  What has to be right is therefore mostly
the order of small file system steps, the reads that happen outside a lock or a
transaction, what a failure leaves behind, and what a report may still claim
after any of them.

This directory holds TLA+ models of the parts where that matters, TLC runs
over small instances and TLAPS proofs for every value of the constants.

1. [Inventory](#inventory)
2. [Modules and how they follow the code](#modules-and-how-they-follow-the-code)
3. [Runs](#runs)
4. [Bounds and fairness](#bounds-and-fairness)
5. [Proofs](#proofs)
6. [Disagreements](#disagreements-between-the-code-and-its-documents)
7. [Not modelled](#not-modelled)
8. [Limits](#limits)
9. [What is left](#what-is-left)

## Inventory

| Component | State | Operations | Hard behaviour | What makes it correct |
| --- | --- | --- | --- | --- |
| Quarantine (`internal/quarantine`, `store/quarantine.go`) | the file, its managed copy, the record and its state | Preview, Apply, PreviewRestore, ApplyRestore | the user edits the file meanwhile; two applies of one selection; a crash or failed save anywhere | bytes are always somewhere; a record says quarantined only with a verified private copy; one command wins |
| Verified bundles (`internal/bundle`) | `versions/`, `staging/`, the pointers `current`, `previous`, `highest`, a lock | Install, Rollback, Status, Active | lock-free readers; a crash between pointer writes; a directory replaced by remove and rename | no downgrade, no equivocation, readers agree, a rollback target |
| Bundle update (`bundle/update.go`) | locals of one update | Update | decides from an unlocked read; two HTTP requests that may see different releases | reports name accepted bundles only; a rejection has a reason; an update returns |
| Core installation (`internal/install`) | `versions/`, `staging/` per version, `current`, `previous`, a lock | Stage, Activate, Rollback, prune | Stage takes no lock; prune reads the directory before it removes | active versions passed the health check; a prune spares the pointers |
| Baseline scans and snapshots (`internal/scan`, `store/snapshots.go`) | snapshots, asset history | Baseline: collect, LatestSnapshot, Diff, SaveScan, report | the load is a dozen queries outside a transaction; saves out of order; clocks set back; retention | compares with whole snapshots; reports what it stores; history agrees with snapshots; the newest stays |
| Orchestrator (`collector/orchestrator.go`, `coverage.go`) | goroutines, a semaphore, the result channel | Collect | panics, deadlines that are only seen on return, broken promises | one record per collector, siblings unaffected, complete is earned |
| Collectors (`collector/*`) | the report under construction, budgets | discovery, walk, probing, parsing | files and tables that change between two looks; limits in the middle of a listing; sources that disagree | complete means all; what is reported was read from what is anchored |
| Evidence engine (`internal/evidence`) | workers, detached callbacks, slots | Engine.Collect, the tree digest | a callback that outlives its deadline; a file that changes while it is hashed | one record per candidate; a digest is of bytes that were there |
| Content cache (`store/content_cache.go`) | rows of digests by fingerprint | lookup, write after completion | a cached digest answers for a file that changed | only completed passes write; the answer is of the file looked at |
| Audit archive (`internal/audit`) | archives, temporary files, a lock | Save, List, Open, Prune, Export | publish, then prune by age and size; a failed prune after a publish; clocks set back | published archives are whole; the newest stays; an export replaces nothing |
| Schedule (`internal/schedule`) | the launchd job and its property list, a lock | Install, Remove | launchctl fails before or after its effect; the core is upgraded meanwhile | list and job agree; a command reports what it left |
| Device identity (`cmd/ssc-init/main.go`) | one file | loadDeviceID | two first commands; a crash before the file is written | one identity |
| Store (`store/sqlite.go`, `migrations.go`) | the database file and its schema version | OpenWithOptions, migrate | two first runs of two versions; the file removed while it is open | migrations apply once and whole; a reported snapshot stays |
| Inventory ladder (`inventory/ladder.go`) | none | the rungs of a difference | an upgrade is a removal and an addition; assets that could not be hashed | no deletion, addition or change of an asset that stays without a row; gaps are not passed off as changes |
| Version ranges (`analyzer/version`) | none | parsing, comparison, ranges, OSV events | prereleases, partial versions, wildcards | total orders; ranges are intervals |
| Policy and findings (`internal/policy`, `internal/finding`, `store/policy.go`, `cli/run.go`) | pins, decisions, the active bundles | `hook`, `scan`, `policy check`, `policy pin` | decisions are recorded row by row before the output; the snapshot, the pins and the bundles are read at different times | what is only counted was shown; what is passed over was reported; nothing hides known malicious |
| Static analyzers (`internal/analyzer`) | none | rules over the bytes of a file | | pure functions |
| Threat intelligence publisher (`internal/tipublish`) | a work directory | fetch, normalise, sign | build time, one process | deterministic output |
| Command line, reports, doctor, privacy, platform, model | none | dispatch, rendering | | |

How they interact: `scan` and `hook` run the collectors under the orchestrator;
project discovery hands roots to the walk and files to the MCP collector; the
evidence engine hashes what they anchored, asking the content cache; then come
`LatestSnapshot`, `Diff` with its ladder and `SaveScan`, findings (which compare
versions with ranges) and policy over the inventory, the audit archive, and last
the report.  Findings read the active bundle through `Active`, without the
bundle lock.  `ti update` calls the installer of bundles in the same process.
Quarantine takes its selections from the latest snapshot but afterwards depends
only on the file and its own records.  The schedule makes `scan` run again
while another may still be running, with the executable that the core
installation left active.  There is no lock common to two components.

`PROJECT.json` lists every component with its status, and every hazard at the
line where it bites with the properties that cover it.

## Modules and how they follow the code

A process is an element of `Procs` and runs one command at a time.  A `pc`
variable names the next system call, save or query of the command; one action is
what the code does from one such point to the next, with every early return.
Faults (a crash, or a write, removal, rename or save that fails) are counted
against a `Max...Faults` bound.  A crash ends a process between two actions and
leaves disk and database as they are; the lock of a dead process is free.

### Commands that change the host

**`Quarantine`**: one file below the home directory and the records that
selections derive for it.  `path`, `copy`, `content` and `perm` are the file
system by inodes; a descriptor keeps the inode it opened.  `Preview` and
`PreviewRestore` add approvals; `ApplyOpen`, `ApplyVerify`, `Request`, `Lstat`,
`OpenSource`, `CreateCopy`, `CopyBytes`, `SaveQuarantined`, `Recheck` and
`RemoveSource` are `Manager.Apply` and `Manager.Quarantine` in their order,
`Fail` and `DiscardCopy` their error paths, whose removals may fail in silence (`CleanupFails`); `RestoreLoad` to `ReleaseCopy` are
`ApplyRestore` and `Restore` with `UndoRestore`.  The user may replace, edit or
delete the file at any moment (`ConcurrentUser`) or between commands.

**`QuarantineCustody`**: the abstract promise, without files or processes.  A
record passes through its life once, and while it says quarantined the vault
holds its bytes.  `Quarantine` implements it with `state <- rstate` and `held`
the records whose managed copy is intact (`ImplementsCustody`).

**`Bundle`**: the store of bundles.  A bundle is a value with a sequence and a
validity interval; signature checking is the choice of correctly signed
bundles.  The high-water mark is taken as readable (see [Limits](#limits)), the
current pointer is not: `WritePrevious` passes over one that cannot be read.
`CheckHighWater`, `Stage`, `RemoveInstalled`, `RenameStaged`,
`WriteHighest`, `WritePrevious` and `WriteCurrent` are the steps of `Install`
under the lock, `RollbackPrevious` and `RollbackCurrent` those of `Rollback`,
`ReadStatus` and `ReadActive` the readers' separate reads.  `accepted` and
`torn` remember which bundle was accepted for a sequence and which swap of a
directory was interrupted.

**`BundleLedger`**: the abstract promise of the store, without files, locks,
processes or clocks: a sequence has one bundle for ever, none is accepted below
the mark, and a change of the pointers is one of a series, each completed or
abandoned: accept, remember (or fail to), activate, or exchange and activate.  `Bundle`
implements it with the pointer files as `mark`, `active` and `target`, and
`Pending`, where the holder of the lock is, as the change in progress
(`ImplementsLedger`).

**`BundleUpdate`** composes updates with `Bundle`: the manifest, the two reads of
the local status, the download and the verdict, then the real `Install` of the
same process, then the failure path with its own unlocked read.  The server may
answer any release, or fail, at each request.

**`CoreInstall`**: staging and version directories as records of a core and a
manifest, each possibly `Partial`; the steps of `Stage` outside the lock, and
those of `Activate`, `prune` and `Rollback` under it, with both verifications
around the health check.  `checked` remembers what passed that check, `misread`
that a prune could not read the previous pointer and so did not spare it.

**`Scan`**: the life of a baseline scan.  `Collect` chooses any inventory;
`LoadScan`, `LoadState`, `LoadAssets` and `LoadEvidence` are the separate
queries of `LatestSnapshot` with their row counts; `Finish` reads the clocks;
`Save` is the transaction of `SaveScan` with its insert, `RecordAssetHistory`,
`PruneSnapshots` and `PruneAssetHistory`; `Secure` is the work after the commit
whose error still fails the scan; `Report` is the caller.  An asset is `Absent`,
present without a trusted digest (`Unread`), or present with one.  `saved`,
`told` and `swallowed` remember what was ever stored and reported.

**`AuditArchive`**: one archive per run under its final name, the temporary files
of ended commands, and the destination of exports.  `CreateTemp`, `WriteTemp`,
`RenameTemp` and `VerifyPublished` are the publication, `ListAndChoose` (with
`Victims`, the choice by age, size and number), `RemoveVictim` and `FinishPrune`
the retention that every save ends with, `ReadSource`, `WriteExport`,
`LinkExport` and `UnlinkExport` an export.  The clock is any reading.

**`Schedule`**: the property list and the launchd job, each the core version it
names.  `CompareList`, `PublishList`, `PrintJob`, `BootstrapJob` and `UndoList` are
an install, `MatchList`, `BootoutJob` and `UnlistJob` a removal; launchctl may
fail before or after its effect; the code answers an error without a status, and
`install-failed` and `remove-failed` are the model's names for it (`Failed`); `SwitchCore` and `Login` are the upgrades and
rollbacks of the core and the next login.

**`DeviceIdentity`**, **`StoreOpen`**: what a first command creates.
`ReadIdentity`, `CreateIdentity` and `WriteIdentity` are `loadDeviceID`;
`LookupParent` to `VerifySchema` are `OpenWithOptions` with its guard descriptor,
its verification by identity and the migrations in one transaction
(`ReadHistory`, `Migrate`), and `StoreFail` its deferred cleanup, which removes a
file that this command created.

### What a scan is made of

**`Orchestrator`**: `Admit`, `CallCollector`, `CollectorReturns` or
`CollectorPanics`, `Deliver` and `FinishCollect` over the semaphore and the result
channel; `Contract` is the check of a report against the promised targets
(`Violates`, by target and instance; `Complement`, `Aggregate`).  `Deadline` may pass at any moment of a
run and is only looked at when the collector returns.

**`EvidenceEngine`**: workers take candidates from a closed channel (`TakeJob`),
answer presets, read files with one cache callback per leaf, or call outside in a
goroutine that holds a slot (`Acquire`, `Await`, `CallbackReturns`, `ExpireTarget`).

**`EvidenceTree`**: one tree target over a directory that is edited while it is
read.  `ListDirectory`, `StatEntry`, `LookupLeaf` with `RecheckHit`, `OpenForHash`,
`ReadBlock`, `CheckRead`, `RecordLeaf`, `Conclude` and `StoreRows` follow `tree.go`,
`file.go` and `session.go` with the entry, file and total limits and the error
sample; rows of the content cache outlive the scan and answer later ones.

**`ProjectDiscovery`**, **`ProjectWalk`**, **`Packages`**, **`McpServers`**,
**`IdeExtensions`**, **`AgentPlugins`**, **`HomeSurfaces`**, **`RuntimeProbes`**: one
module per collector, each with an actor that changes what is being read.  They
share one pattern of the code: look at a name, open it, read from the
descriptor, look again, and only then issue evidence that anchors the file; a
limit, a refusal or a change lowers the status of the target and, where the code
says so, drops what was staged.  The actions are the looks, openings, reads and
second looks in the order of the source, the operators the tests between them
(`Minimal` and `SelectRoots` in discovery, `Conservative` in the walk, `UniqueKeys` in
the IDE collector, `AcceptPlugins` for bundled skills).  Discovery takes the sources
by their number (`turn`) and each list in its order; what the code sorts is a set of
places of which the foremost one is next (`Foremost`), and a folder is below those in
its `Line`.  A list that cannot be read to its end keeps what came before, with an issue
(`ListSource`).  `agreed` and `rewrites` are history: the folders whose two links ever
agreed, and how often each link was written.  In the walk `IssueEvidence` opens the root
and the project anew and `HashEvidence` reads the file below them, with the user in
between; `errorRoom` is what earlier roots left of the errors that provenance may add.
In `McpServers` the variable `rooted` says what the file system opens below a root.
`ReportSkills` and `CheckPaper` may find an observation refused when it is made; the
target is then partial.

**`Ladder`**, **`VersionRange`**: the pure algorithms, evaluated on bounded inputs
in one step.  A snapshot of the ladder has assets and records (observations and
evidence), which come, go and change on their own and belong to an asset or to
nobody; `AssetRungs` and `RecordRungs` are the two passes over the delta (`NewOrChanged`:
what it has as added or changed), `Paired` the upgrades, `Highest` the row that
stays.  `VersionRange` is the order of versions, some of which do not parse, with
comparators, carets, tildes, wildcards and OSV events.  Components of a
version wrap at `TopNumber`.

**`Policy`**, **`PolicyCommands`**: what the rules of a document, intelligence and an
organization say of an inventory (`Evaluate`, with `Fires`, `Covers` and
`TrustsTooLong`; `Decide`, the precedence), and the commands that say it to the
user.  `LoadLatest` and `EvaluatePrevious` are what the hook wants to know of the
last snapshot, `TakeBaseline` is all of `Scan` in one step, `ReadPins`,
`ReadDecisions` and `RecordDecision` are `evaluatePolicy`, `EvaluateFindings` and
`WriteOutput` the rest; `Approve` is `policy pin`.  A failed read, save or output is a
branch of its action, and `WorldChanges` is the machine, a bundle or the clock.

**`Shared`** declares `Procs` and `None` for the modules of one machine.

### Proofs and instances

`QuarantineProofs`, `BundleProofs` (the store and the updates over it),
`CoreInstallProofs`, `ScanProofs`, `HostProofs` (the device identity, the store, the
orchestrator, the evidence engine, the archive, the schedule, and the machine that
`MCHost` composes), `EvidenceProofs` (the tree with its cache, the ladder, the runtime
probes, versions and ranges), `InventoryProofs` (packages, MCP servers, home
surfaces, agent plugins, IDE extensions and the walk of a project) and
`CollectProofs` (the discovery of projects, and the collectors that `MCCollect`
composes) hold the theorems.  `MCQuarantine`, `MCBundle`, `MCCoreInstall`, `MCScan`,
`MCHost` and `MCCollect` are the instances for TLC.  In `MCBundle`, `MCScan`, `MCHost`
and `MCCollect` a variable `part` chooses at the start which component a behaviour
works; the others stand still, so one run checks the union of their state
spaces, and a property there is the conjunction of what the components promise
about one question.  Next to some definitions stands a `Bug...` twin: a plausible
mistake in that code, which the property named in `PROJECT.json` must catch when
it takes the place of the definition.  The twins are part of no specification.

## Runs

| Run | Question | Instance | Size |
| --- | --- | --- | --- |
| `quarantine_quiet` | is anything lost, are restores exact, does every command return and every request settle, when the user keeps away while a command runs? | 2 commands, 2 selections of different bytes, 4 inodes, 1 fault, 1 user step | 240 000 states, about 100 s |
| `quarantine_race` | what holds whatever the user does, and does the protocol implement custody? | 2 commands, 1 selection, 4 inodes, 1 fault, 3 user steps | 420 000 states |
| `quarantine_edit` | violation: are removed bytes always verified ones? | 1 command, no fault | |
| `bundle` | pointers, directories and readers under crashes; does the store implement its ledger? what racing updates report | 2 commands and 3 bundles, two of one sequence, 2 faults; or 2 updates with one fault or one move of the clock | 2.4 million states |
| `bundle_update_gap` | violation: is last known good kept? | 2 updates, 1 bundle, 1 fault | |
| `install_store` | pointers, prunes, restages and rollback targets under a fault | 2 commands, 3 versions; the fault among two of them | 3.5 million states |
| `install_twins` | violation: is an install of one version by two commands usable? | 2 commands, 1 version, no fault | |
| `scan_store` | scans over one database; was everything shown that the commands on its snapshots take as known? | 2 scans, 1 asset with 2 contents, times 0 to 2, windows 1; or 2 of the policy commands, 1 asset with 4 records, 3 rules, 1 exception, 2 bundles of each family, 1 change, 1 fault | 1.9 million states |
| `host` | shared files of the other commands, orchestrator and engine; does everything that began end? | seven parts, each with 2 commands (3 collectors; 4 candidates, 2 workers, 1 slot) and 1 or 2 faults | 460 000 states |
| `store_first_run` | violation: does the newest snapshot stay? | 2 first commands, 1 fault | |
| `schedule_upgrade` | violation: does `schedule remove` remove what `schedule install` made? | 2 commands, 2 versions | |
| `collect` | are reports of the collectors, the tree digest, the ladder and the ranges true of what was there? | eleven parts, see below | 2.3 million states |

What the properties of the composed runs say, part by part:

| Property | Parts | In words |
| --- | --- | --- |
| `ArchiveSound` | audit | after a prune the budget is kept, a published archive is whole unless the user damaged it, temporary files are left by faults only, retention spares the newest, an export replaces no file |
| `ScheduleSound` | schedule | between commands list and job agree unless a fault was met, a result says what was left of the list and, without a fault, of the job, a refusal has a foreign or outdated list as its reason |
| `StoreSound` | device, store | one identity; a partial file has a crashed writer; tables and history of migrations agree and are a prefix; a command that nobody overlaps opens; a reported snapshot is lost only with a file whose creator failed |
| `CollectorsAnswer` | orchestrator | at most `MaxConcurrent` at work, one record each in order, complete is never said of a late, missing or refused target, refused collectors keep no sealed path |
| `EvidenceSound` | engine | slots are running callbacks, one record per candidate, no digest after a deadline |
| `PolicySound` | policy (`scan_store`) | a recorded violation was shown, is about to be, or its command could not; a finding that a hook passes over was reported, or the bundles moved or a command failed; known malicious is never allowed, excepted or pinned away |
| `HostSettles` | all with locks or workers | locks are let go, updates and Collect return, candidates are completed |
| `CompleteMeansAll` | tree, packages, discovery, walk, ide, agents | what was listed and did not change is in the report of a complete target |
| `ReportedAsRead` | tree, packages, walk, ide, agents, surfaces | the bytes behind a record are those of the file it names |
| `IdentitiesAgree` | discovery, walk, ide, agents, runtime | what two sources disagree about is not settled by their order |
| `TargetsExplained` | mcp, packages | a collection that returns has answered for every declaration and every accepted file, and for none twice; what was handed over is never called absent; a refused file is told unless another one of its declaration was accepted; an incomplete package target has a reason |
| `CacheHoldsCompleted` | tree | only a pass that completed writes to the cache |
| `DriftTold` | ladder | no asset has two rows; additions and deletions are told; an asset that stays has a row exactly if it or one of its present records is new or different; a gap is not passed off as an upgrade or a change |
| `RangesSound` | versions | comparisons are total orders, alternatives are intervals, windows hold their own version unless the component wraps |

Deadlock is checked in `bundle`, `bundle_update_gap`, `install_store`,
`install_twins` and `scan_store`.  In the quarantine runs the user runs out of
steps and every command may have come to an end with nothing left to select; in
`host` and `collect` a part ends when its commands do.

For every property of a passing run `PROJECT.json` names a twin that breaks it.
A composed property speaks for several modules, and one twin shows one of them.
These break the same property in the other parts; each replaces the definition
in front of it:

| Property | Definition and twin |
| --- | --- |
| `ArchiveSound` | `CreateTemp`/`BugRoundsUp`, `Victims`/`BugTotalBefore` |
| `StoreSound` | `CreateIdentity`/`BugTruncates` |
| `CollectorsAnswer` | `Running`/`BugSlotsKept` |
| `HostSettles` | `VerifyPublished`/`BugErrorKeepsLock` (audit), `Acquire`/`BugWaitsForSlot` (engine), `Bundle!CheckHighWater`/`BugRefusalKeepsLock`, `BundleUpdate!Report`/`BugReportWaits` (updates) |
| `CompleteMeansAll` | `StatEntry`/`BugSkipsVanished` (tree), `ReadDirectory`/`BugKeepsPrefix` (packages), `ListSource`/`BugSilentLimit` (discovery), `ReadBounded`/`BugForgetsRest` (walk), `BudgetSpent`/`BugForgetsProducts` (ide), `ReadAgentDirectory`/`BugSkipsCrowd` (agents) |
| `ReportedAsRead` | `Hit`/`BugKeyWithoutTime` (tree), `VerifyProbe`/`BugUnverified` (packages), `HashEvidence`/`BugAnchorsAnything`, `ConfirmLockfile`/`BugNoSecondLook` (walk), `CheckManifest`/`BugReadsOnce` (ide), `CheckMarker`/`BugTrustsRead` (agents), `CheckPaper`/`BugTrustsName`, `Helpers`/`BugNoReset` (surfaces) |
| `IdentitiesAgree` | `Minimal`/`BugByName`, `SelectRoots`/`BugConventionalExtra`, `LookAgain`/`BugGitReadOnce` (discovery), `Conservative`/`BugLastWins` (walk), `AcceptPlugins`/`BugAcceptsAll` (agents), `ProbeListeners`/`BugJoinsNow` (runtime) |
| `TargetsExplained` | `ParseJSONContainer`/`BugOtherContainer`, `ProjectStatus`/`BugProjectVanished`, `NoInstance`/`BugInvalidForgotten` (mcp), `AppendAssets`/`BugCutIsFine` (packages) |
| `CacheHoldsCompleted` | `Expire`/`BugExpiredStatus` |
| `RangesSound` | `Compare`/`BugPrereleaseAfter` |
| `EveryoneSettles` | `RestoreOpen`/`BugWaitForName` |
| `HistorySound` | `Sighting`/`BugDigestGoesBack` |
| `ImplementsLedger` | `Bundle!CheckHighWater`/`BugNoHighWater` |

## Bounds and fairness

Every race between commands is between two parties: one holds a lock or wins a
record and the other reads, waits outside or is refused, so two processes meet
all of it; in the long-lived models each process runs any number of commands one
after another, so longer histories are sequences of those.  Three versions, and
two sequences with an equivocating twin, are what it takes for `previous`,
`current` and a third to differ.  Four inodes are the file, its replacement, a
copy and a restored file.  One fault interrupts any step; `Bundle` has two
because what a first crash leaves is only dangerous to a second, and with a moved
clock it has one.  Among updates either one fault happens or the clock moves,
and a rollback is run by a process that holds no result of an update
(`UpdateBounds`; a rollback is a command of its own, and a killed update leaves
no result, so this only keeps a dead variable from multiplying the states).  In
`install_store` three versions are combined with no fault and two with one.

In `Scan` three times and windows of one make snapshots expire, stay at the edge
and stay as the newest, in either order of saving, and the retention clock may
be ahead of the window; assets are independent in every operation except the row
counts, which one asset already passes and fails.  Crashes and failures are not
counted there, and time is not increasing.

Of the policy commands two run after or beside each other: one records what the
other finds standing, or saves the snapshot that the other compares with.  The
asset changes between what intelligence knows, what nobody knows, what could not
be hashed and nothing; the exception is of the known content and ends with the
day, so a clock that goes on ends it and one that is set back makes it last too
long.  The bound on begun commands is why that part rests at its end
(`PolicyRests`).

In `host` two runs of different size exceed the archive's budget together and
not alone; two commands know one and two migrations; one slot with two workers
and two semantic candidates makes a hung callback refuse another one; a
collector without a contract, one with two targets and one with one cover the
branches of `Contract`.

In `collect` each collector has the smallest tree in which its cases meet: a
limit that is one below what is there, two sources of one thing (two spellings
of a folder, two lockfiles of one package, two products with one budget, two
plugins of one name), a document of each class, and one or two edits at any
step.  One edit between two looks is what every second look is there to notice;
two (`MaxMoves`, `MaxEdits`) undo it again.  The tree has three leaves and a limit of two
entries, so that the limit is met, and a cache of one row, so that rows are
expelled; at first each of its files has the inode of its own number
(`TreeFiles`: an edit may bring either to any name); no declared MCP file stands in
a home directory that cannot be opened (`HomeFiles`); the walk has room for one more error of
provenance (`ErrorRooms`).  No directory there is too deep or excluded: those branches
(`TooDeep`, `SkippedDirs`) are proved and not run.  In the ladder two assets of one
identity have a record each, a third asset an observation and evidence that come, go
and change status on their own, and one record is nobody's.  `Parts` starts with every tree in
`MC...Starts`, so that the interesting layouts are initial states and need no
edits to arise.

Fairness.  `FairSpec` of `Quarantine` asks weak fairness of each running command:
the operating system schedules it, and no system call it makes waits for another
process (the locks of bundles and installs are `LOCK_NB`, refused and not waited
for, SQLite waits with a timeout and fails).  `HostSpec` asks weak fairness of
the n-th actor of the part that runs: a command, a goroutine of a collector, or a
worker together with the deadline it waits for.  The locks of the archive and
the schedule do wait; their holder is an actor that goes on.  Nothing is assumed
about the user, about starting a command, about callbacks and launchctl calls
ending well, or about faults: a killed command has ended.  A collector is
assumed to return at last, which is what `Collect` needs of it
(`orchestrator.go:54`); a callback of the engine is not.

`NothingLost` depends on the two selections having different bytes: with equal
bytes two records would share the evidence.  It is checked with
`ConcurrentUser = FALSE`, since a concurrent edit is exactly what
`quarantine_edit` shows to be lost.  A run that checks liveness takes no symmetry.

## Proofs

All theorems hold for any number of processes, records, bundles, versions,
assets and faults.  They use only the assumptions the modules state: the
constants have their types, and distinguished values are not members of the
sets they must be told from.  Two theorems, `NothingLostQuietly` and
`RestoredExactlyQuietly`, assume in addition that the user keeps away while a
command runs (`~ConcurrentUser`) and that selections have different bytes
(`DistinctDigests`): `quarantine_edit` shows that without the first they fail.

| Theorem | States | Invariant it rests on |
| --- | --- | --- |
| `QuarantineProofs!CustodyKept`, `SingleWinner` | `QuarantinedCopyIntact`, `OneWinner` | `CustodyInv`: a command between request and settlement owns the record (`Claims`), the copy in progress is what it has written (`CopyInProgress`), no two names share an inode (`Separate`) |
| `OnlyApproved`, `NoOrphanWithoutFault` | `RecordsApproved`, `OrphanNeedsFault` | `RecordInv`: a command carries only approved modes, and discards only after a failure or a recorded one |
| `NothingLostQuietly`, `RestoredExactlyQuietly` | `NothingLost`, `RestoredExactly` | `QuietInv`: while the user keeps away, whoever saved a record still finds its bytes at the path (`TakingOK`), a restore is alone at the path (`RestoringOK`, `OneAtThePath`), and at most one command of a record is about to remove (`OneRemover`) |
| `CustodyRefined` | `ImplementsCustody` | each step maps to a custody step or a stutter, from `CustodyInv` |
| `BundleProofs!PointersCorrect`, `SequencesUnequivocal`, `ReadersAgree`, `GapsExplained` | the four invariants of the store | `StoreInv`: the lock has one holder, who is where the lock is held; an install past its check is above the high-water mark or has the accepted bundle; what a reader has read it has read of an accepted sequence |
| `MarkNeverFalls`, `OnlyRollbackDowngrades`, `OnlyForward` | `HighWaterMonotone`, `NoDowngrade`, and `SequencesForward` of both, which the ledger implies | the same |
| `BundleProofs!LedgerRefined` | `ImplementsLedger` | each step maps to a step of the ledger or a stutter, from `StoreInv` and `SwapInv`: a rollback that has not written yet still sees the pointers it read |
| `BundleProofs!TargetKept` | `RollbackTargetKept` | `TargetInv`: without a fault, what is about to be written as `previous` is not what is about to be `current`, and between the writes of one command nobody else writes |
| `BundleProofs!UpdatesKeepStore` | `USpec => Spec` | a step of an update is a step of the store or leaves it alone |
| `ReportsAgree` | `ReportsSound` | `UpdateInv`: what an update has learnt stays true, since accepted bundles and the high-water mark never go back |
| `RejectionsExplained` | `RejectionExplained` | `RejectInv`: a reason once given lasts, since the clock and the high-water mark only go forward, an accepted bundle stays, and an interrupted swap is not repaired by an install of that sequence |
| `CoreInstallProofs!PruneSpares`, `OnlyRestage`, `OnlyCheckedActive` | `PruneSparesPointers`, `OnlyRestageDisturbs`, `PointersChecked` | the pointers move only under the lock and never during a prune; an activation that writes the pointer has its version checked |
| `CoreInstallProofs!TargetKept` | `RollbackTargetKept` | `TargetInv`: without a fault, a switch remembers the outgoing version until it has demoted it, and a rollback exchanges two different versions |
| `ScanProofs!BaselineWhole`, `BaselineNeverLost` | `WholeBaseline`, `BaselineAdvances` | `BaselineInv`: what is in memory agrees with what was saved; a pruned snapshot has no rows, so it passes a count only where nothing is missing; finished times are unique |
| `NothingSilent` | `NothingUnreported` | `ReportInv`: the same of every snapshot ever saved, since a scan may compare with one that was pruned meanwhile |
| `HistoryComplete`, `HistoryNewest`, `HistoryAgrees` | `HistoryCovers`, `HistoryCurrent`, and `HistorySound` of both | `HistoryInv`: the last time in a history is at most the newest snapshot's, so that a save that becomes the newest always wins its digest |
| `ScanProofs!StandingShown` | `StandingWasShown`, a part of `PolicySound` | `StandingInv`: what a command found was new to it or decided before, what it has yet to record is among it, and it has found nothing before it read the decisions (`FoundOK`); a step of one command keeps the claims of the others (`ClaimsKept`) |
| `PassedOverReported`, `MaliciousNeverHidden`, `PolicyKept` | the other parts of `PolicySound`, and `PolicySound` | `PassInv`: whatever the latest snapshot has, now or when a hook read it, was reported, was given up, was touched by a change of the bundles, or some command will still report it (`Accounted`), so what a hook has read as known is accounted for (`PreviousAccounted`); who is about to print has found all that it saved (`PrintsAll`); a command does not itself report what it knows from before, so somebody else does |
| `HostProofs!DeviceIsOne` | `OneIdentity`, `PartialExplained` | `DeviceInv`: only the command that created the file writes it (`WriterOwns`) |
| `StoreIsSound`, `HostStoreSound` | `SchemaSound`, `AloneOpens`, `LossExplained`; `StoreSound` with the identity | `StoreInv`: the name is that of the latest file or of none (`NameIsLatest`), so a command is connected to no earlier file than it guards (`ConnectedLater`); what it knows of a history is behind it (`AppliedBehind`); a command that nobody overlaps finds things as it left them (`Undisturbed`) |
| `HostProofs!ArchiveKept`, `NewestKept`, `ExportsReplaceNothing`, `HostArchiveSound` | the five parts of `ArchiveSound`, and `ArchiveSound` | `AuditInv`: only the holder of the lock works (`HolderWorks`) and knows its run (`JobsOK`); every archive yet to be removed has a newer whole one that is not (`VictimsSpared`); what stays when the victims are gone keeps to the budgets (`PruneKeepsBudget`) |
| `HostProofs!ScheduleAgrees` | `ScheduleSound` | `ScheduleInv`: a command holds the lock from its first look at the list to its return (`ScheduleHolder`), and what the holder looked at is still so (`HolderKnows`) |
| `CollectAnswers`, `HostCollectorsAnswer` | the four parts of `CollectorsAnswer`, and `CollectorsAnswer` | `CollectorInv`: an answer is made when its collector returns (`Answered`), and the channel holds those that are done, once each (`ChannelHoldsDone`) |
| `EngineSound` | `EvidenceSound` | `EngineInv`: a worker is where its candidate belongs (`PlacesFit`), and nothing was asked for a candidate that is still in the channel (`NotAsked`) |
| `CollectProofs!ReportsAreAsRead` | `ReportedAsRead` | the invariants of the tree, the packages, the walk, the editors, the plugins and the surfaces, below |
| `CompleteLeavesNothingOut`, `CollectorsTyped` | `CompleteMeansAll`, `CollectTypeOK` | the same, and `DiscoveryInv` |
| `OneThingOneName` | `IdentitiesAgree` | the same; `LinkHonest` for worktrees; that a provenance is agreed whatever the order of the lockfiles is about the function `Aggregate`, see below |
| `CompletedCached` | `CacheHoldsCompleted` | `TreeInv` |
| `TargetsAreExplained` | `TargetsExplained` | `McpInv`: a declaration is yet to be taken, at work, or answered once, in the phase it belongs to; what is being collected was read at a place of the declaration.  `PackagesInv` |
| `DriftIsTold` | `DriftTold`, for any snapshots and records | the rows told are those of `Telling` of the two snapshots and of what was deleted from it (`LadderInv`) |
| `RangesAreSound` | `RangesSound` | answers are those of the functions that were asked (`VersionInv`); the rest is about these functions, see below |
| `TypeCorrect` of each module, `UpdateTypeCorrect`, `ScheduleTypeCorrect`, `EngineTypeCorrect`, `DeviceTypeCorrect`, `StoreTypeCorrect`, `OrchestratorTypeCorrect`, `AuditTypeCorrect`, `HostProofs!HostTypeCorrect` | the type invariants, and `HostTypeOK` of those of one machine | locals and locks |

What a prune may remove is decided for any finite set of archives, so the proof
needs that a finite set has an oldest and a newest element in the order of the
listing (`Extremes`, from the well-founded order of subsets, `FiniteMinimal`), and
that fewer archives have no more bytes (`BytesMonotone`): `Bytes` is the number of
elements of a union with one element per byte, which is a sum without a
recursion.  Of the victims chosen at time `t` the lemma `ChosenWithin` says that
what is not chosen keeps to the budgets, and `FewerWithin` that what a user then
takes away does not undo it.  `ContractComplete` says why a target that nobody
reported never counts as complete; `RearrangedFacts` that a sorted rearrangement
of results has each of them once.

That both comparisons of versions are total orders is shown once for all of them:
`Agree` relates three answers about a pair each, `FirstDifference` takes the first
answer of a sequence that is not zero, and `PlacesAgree` shows that answers which
agree at each place agree as a whole, also when one sequence ends first.  Numbers,
identifiers, local parts, releases (which `Padded` extends by zeros to one width) and
the six components of a Python version are instances.  A comparison of numbers that
is decided at a place (`DecidedAt`, `NumbersTell`) makes wildcards intervals
(`PrefixConvex`) and puts a version below the end of its own window
(`WindowHoldsOwn`).  `FirstDifference` is a function of the sequence of answers, and
not of a comparison, because the provers instantiate no operator parameter.

Two algorithms are recursive functions: `HelpersRead`, the helpers in force after each
line of a git configuration, and `AggregateUpTo`, the provenance after each lockfile.
Such a function is some function that satisfies its equation.  The proofs give one
in closed form (`Effective`: the helpers after the last empty one; `Settled`: what all
records agree on), show that it solves the equation (`LineByLine`,
`RecordByRecord`), and that two solutions cannot differ, since there would be a
least place where they do (`LeastOf`, `HelpersDefined`, `AggregateDefined`).  So the
parser returns the helpers that git has in force (`HelpersAreEffective`), and the
merge does not depend on the order (`OrderDoesNotMatter`).

The theorems about `CollectSpec` follow in the same way: `PartChosen` and
`PartsStepAlone` give each part that has an invariant its own behaviour.  The
invariants of the collectors have the same three parts:

* what a stamp says lasts.  Every change takes a stamp that nothing had before
  (`StampsStay`, `TreeInv` with `truth`), so content that was read between two looks
  at one stamp is what the anchored file holds.  `RuntimeInv` says the same of
  process numbers: one program in the table that was read, and no link before both
  tables are.
* what is there is accounted for.  An entry that nobody touched, on a way of
  directories that nobody touched, is already reported, or still ahead of the walk
  (itself or a directory above it: `ItemAhead`, `Chain`, `Way`), or the target has an
  issue.  Each action hands the entry on: from the directory to its listing, from
  the listing to the look, to the open file, to the evidence, to the target.  The
  same argument runs over the products and the budget they share
  (`ProductsOwed`), the staged skills, and the entries of a package directory
  (`Sought`).
* a budget is the number of what was taken: the walk compares cardinalities of
  `configs` and `evid` with its limits, so their finiteness is part of `WalkInv`.

The way from an entry up to the root is not a recursion but the set of what every
upward closed set holds that contains the entry; `Root \in Chain[e]` is the
assumption that the layout is a tree.

`DiscoveryInv`, of the discovery of projects, follows a folder from the list of an
editor to a root.  What an untouched note names is ahead of the discovery, gathered or
a candidate (`NotesOwed`), as long as no source has an issue.  A candidate waits to be
verified or is verified (`FinalDue`); of what is verified some root in waiting, or one
already accepted, is the file of the folder or of one above it (`RootsDue`, `RootsTold`).
The selection is where that is not obvious: that every folder is in or below one that
is not below any other, and that of those that are one file the order has a first, are
lemmas about any finite tree of folders and any order of the candidates
(`TopmostExists`, `FirstExists`, `MinimalExists`).  What is selected is apart
(`MinimalApart`), and the conventional root always has its place (`RoomLeft`): either
there is room for one more, or it is the first of those that wait or were accepted.

Of a worktree four reads tell, two of each link, while the user rewrites either.  A read
that found its link says that the link holds or that it was written since.
`LooksTell` adds these up: after the second look both links held at one moment or the
first one was written before the second look; after the third, they did or both were
written in between.  A fourth look that still finds its link leaves two cases: the
links agreed at one moment, or both were written to and fro.  See `WorktreeAgreed`
[below](#disagreements-between-the-code-and-its-documents).

The theorems about `HostSpec` follow from the invariants of the components:
`InitOfParts` and `StepsOfParts` show that the machine starts where each component
starts and that each of its steps is a step of one component and a stutter of all
others, so every theorem about a component holds beside the others.

Each invariant is proved inductive by one step per action.  Stutters and the
temporal step are `PTL`.  The type invariants of the modules of `host` are also
part of `HostTypeOK`; those of the others are proved and not run a second time.

Model-checked only: everything under fairness (`EveryoneSettles`, `HostSettles`),
which the proof system does not reach.  Every invariant and every action property
that a passing run checks is also a theorem.

## Disagreements between the code and its documents

Five runs find a behaviour that a document or a test of the repository rules
out; `findings` in `PROJECT.json` quotes the lines.

* `quarantine_edit`: a file edited in place after its bytes were copied is removed
  with bytes that were never verified or stored (`quarantine/manager.go:152`).
* `bundle_update_gap`: an update that reinstalls the current sequence and fails
  between the removal and the rename leaves `current` without a bundle
  (`bundle/lifecycle.go:104`).
* `install_twins`: two installs of one version share the staging directory and may
  leave the active version without its core (`install/install.go:170`).
* `store_first_run`: a command that created the database and fails to migrate it
  removes the file, with the snapshot that another command saved in it meanwhile
  (`store/sqlite.go:69`).
* `schedule_upgrade`: after an upgrade of the core, `schedule remove` refuses the
  list that `schedule install` wrote (`schedule/manage.go:129`).

Seen while modelling, without a run of their own:

* `secureSQLiteFiles` runs after the commit of a snapshot and its error makes
  `SaveScan` fail, while `snapshots.go:330-333` wants that "a failure here must not
  report a successful save as failed" of the step just before.  The scan reports
  nothing, and the next scan compares with the snapshot it left: its drift is
  `swallowed` in `Scan`, which is why `NothingUnreported` has to except it.
* Two scans at once may compare with the same predecessor.  Every stored state
  was reported by some scan (`NothingSilent`), but the change between two
  neighbouring snapshots may be reported by neither as such, or by both.
* A prune of one core installation may remove the version another has staged and
  not yet activated; the comment at `cmd/ssc-init/main.go:441-445` expects the
  prune not to interfere.  The other command then fails and can be retried.
* Reinstalling the active version replaces the core that `current` names before
  the new one passed its health check (`install.go:170-173`, comment at 95-96).
* An update that fails after the write of `previous` and before that of `current`
  leaves the two equal, so there is no rollback target until the next install;
  only with a fault, hence `faults = 0` in `RollbackTargetKept`.
* Discovery puts the conventional root in front as a placeholder also when it did
  not verify (`discovery.go:143-150`).  If `$HOME/Projects` is created or exchanged
  between the looks, a root below it may have been accepted, and the collector
  refuses the whole list because one root contains the other
  (`validateAutomaticRoots`); the comment at 246-247 promises that nested roots are
  removed.  `RootsAccepted` in `ProjectDiscovery` states it and does not hold;
  `RootsApart` is about the roots that did verify.
* The four reads that join a worktree to its repository (`discovery_git.go:250-329`)
  compare what the two links hold and not when they were written.  If both are written
  to and fro between the reads, all four find what they look for although the two sides
  never named each other at one moment.  It takes at least two writes of each link, more
  than the moves of the run; the attempt to prove the stronger `WorktreeAgreed` found
  it, and the property excepts it with the history variable `rewrites`.
* `ladder.go:240-242` passes over every removed record; its comment says that one
  "rolls into its asset's UPGRADED/REMOVED row, or is an orphan".  A third case is a
  record that is gone from an asset that stays: it gets no row.  The drift in JSON
  still has it, and the design of the ladder asks for added and changed evidence only
  (`docs/superpowers/specs/2026-08-08-hook-severity-ladder-design.md`).
  `NothingHidden` states the rows an asset that stays has, this case included.
* A project file that discovery handed over and the MCP collector refuses is told only
  where no other file of that declaration was accepted (`collector.go:83-104`,
  228-249); beside an accepted one it disappears, and the target of the other may be
  complete.  `HandoffAnswered` says which of the two happens.
* The errors of launch files and lockfiles are at most 64 in all roots
  (`projects/collector.go:865-869`), and the status of a root is derived from its own
  errors (541-545): when earlier roots used them up, a root whose only fault is a
  malformed lockfile reads complete, without a record of that lockfile.
* An installation that cannot read `highest-sequence` goes on as if there were no mark
  (`bundle/lifecycle.go:65`), and one that cannot read `current` leaves `previous` as it
  was (110-111).
* A prune that cannot read the `previous` pointer removes the rollback target
  (`install/install.go:520`).
* The MCP collector does not look at a configuration again after it has read it:
  what it reports is of some moment of the read (`mcp/collector.go`), unlike the
  IDE and project collectors.
* `sameManifestSnapshot` of the IDE collector leaves the change time out of its
  comparison; a rewrite that restores size and modification time passes.
* `captureAgentEvidenceAnchor` opens the directory of an asset by its path again;
  that the marker was read there is compared afterwards.
* The git configuration is compared by `SameFile` only: one that is rewritten in
  place between its two pieces is accepted as read.
* `matchAlternative` stops at the first comparator that does not hold, so one that
  cannot be parsed behind it goes unnoticed for some versions and not for others;
  selectors of OSV are validated as a whole before.
* The upper end of a caret or tilde wraps at 2^64-1 (`range.go:122`), and the range
  is then empty; `RangesSound` excepts it.
* A listener is joined to the process that had its number in the first probe; a
  number that was given to another program between the probes joins the wrong
  one, and nothing in the two tables could tell.

* A decision is recorded before it is shown (`run.go:915`, `store/policy.go:147`) and
  never pruned: `PruneDecisions` has no caller.  A violation whose recording or
  output fails midway, and one that went away and came back, is from then on only
  counted as standing.  The hook's line then names `policy check`, which compares
  the snapshot with itself and so never lists what a change rule found
  (`run.go:1030`); `StandingWasShown` excepts the commands that failed (`untold`).
* The hook evaluates the previous snapshot with the bundles that are active now
  (`run.go:656-665`): a finding that only a newer bundle reveals is passed over as if
  it had been reported, and so is one whose evaluation failed when its snapshot
  was saved.  `PassedOverWasReported` excepts both (`shifted`, `unreported`).
* `finding.Service.Local` is set by no caller, so the two lower levels of `Decide`
  and the exceptions of an organization are never reached, while `README.md:22`
  speaks of "five-level organization decisions"; `SaveExceptions` has no caller, and
  exceptions come from the document alone.

## Not modelled

* Static analyzers: functions of the bytes of one file, with no state, no fault and
  no second actor.  What they do is in patterns, which their tests enumerate; a
  model would repeat them.  The rows of findings in a snapshot and their
  display are left out too.
* Identity derivation, hashes, adapters, provenance formats, bundle payloads:
  parsing and validation without state.  Where a component depends on the outcome,
  it is a class of the input there (a document that is broken, a field that is
  unsafe, an integrity two lockfiles share).
* The rest of the command line, reports, doctor, privacy, webhook: dispatch, rendering,
  redaction and read-only diagnosis.  The callers that matter to a protocol are
  actions (`Report` in `Scan`, the installer in `CoreInstall`, `loadDeviceID`).
* The publisher of threat intelligence and the release scripts: sequential
  build-time pipelines with one caller.
* Platform wrappers: their guards (opening without following links, identity of
  files, bounded output of commands) are in the modules that rest on them.

## Limits

* A crash is of a process: what a write call returned stays written.  Power loss
  and the order in which the disk persists writes are not modelled.
* SHA-256 has no collisions: a digest is the content.  An inode is not reused
  while a name or a descriptor refers to it.
* Failure codes and messages are left out except where a property reads them (the
  `rejected` of an update, the issues of a target).  Listing, path validation and
  Mach-O inspection are a check that passes or fails.
* `RemoveAll` is one step that may leave part of the directory behind.  A file
  that is being written is `Partial`, not a prefix.
* Finished times of scans are unique, as nanosecond timestamps practically are;
  the code breaks ties by scan identifier.  Evidence without a trusted digest is
  not told from no evidence, so the row count of the evidence is weaker in the
  model than in the code.  A snapshot's relationships, observations, coverage and
  findings and `VACUUM` are left out.
* The reads of `current` and `previous` that only print the outcome of an
  installation are left out; `Manager.Prune` has no caller outside tests.
* The high-water mark of a store of bundles can be read where it exists.  For an
  install that cannot read it nothing is claimed about sequences.
* One core is built per version: a core that another build of the same version
  replaced between two looks is not told from it.  `RollbackTargetKept` of the core
  and of the bundles is about histories without a fault.
* `NothingUnreported` is about scans that reach their report, `ListAndJobAgree` about
  histories without a fault; the code promises nothing after those.
* The policy commands record as `App.Run` does when it has a policy store; the hook
  that ships sets none (`main.go:371-414`), so there only `policy check` records.
* Discovery reads the links of a worktree by their paths, the code through the
  directories it opened for the first look (`discovery_git.go:250-329`).  If such a
  directory is exchanged between two reads, the model meets the new one and the code
  goes on with the old one; what the model says of that case is only that the reads of
  one path are compared.
* Of a home file that somebody writes while it is read the model promises no content.
* An identity or digest that is refused for its format, and the issuer of MCP
  evidence, which is made for the collection, do not fail for the inputs modelled; the
  number of errors an IDE target lists (`maxIDEErrors`) is not counted.
* A directory listing is atomic; the code reads it in batches.  A collector's
  target is one directory with a handful of entries; what a limit does to it does
  not depend on how many were taken before.
* In the packages part only npm and go have a directory; the other managers differ
  in their command and in the grammar of a line, which is a class here.
* The parts of `host` and `collect` run one at a time.  They share no lock and no
  file in the code except through the steps named in the inventory; those
  compositions are modelled where state is shared (`BundleUpdate` with `Bundle`, the
  tree with its cache, upgrades with the schedule).

## What is left

* Larger trees for the collectors, and two collectors over one tree.
* Two assets, and three commands at once, for the policy commands.
