----------------------------- MODULE ProjectWalk -----------------------------
(***************************************************************************)
(* The collection of one project root (internal/collector/projects/walk.go *)
(* and collector.go): a bounded walk finds configurations and files that   *)
(* are evidence, then every such file is opened again from the root,       *)
(* compared with what the walk saw, hashed and, if it is a lockfile,       *)
(* parsed.  The user edits, exchanges, creates and removes entries at any  *)
(* step.                                                                   *)
(***************************************************************************)
EXTENDS Shared, Integers, FiniteSets, Sequences

CONSTANTS
    Items,          \* entries below the root, and the root
    RootItem,
    In,             \* item -> the directory it is in
    Class,          \* item -> "dir", "git", "config", "lock", "launch", "hook", "other"
    TooDeep,        \* directories at the depth limit
    SkippedDirs,    \* excludedDirectory
    EntryBudget,    \* maxEntries
    FileBudget,     \* maxConfigs
    ErrorRooms,     \* what the roots before may leave of maxWalkErrors
    Provenances,    \* contents of a lockfile -> what it says of the package
    TreeStarts,     \* what the root may hold at first
    MaxWrites       \* bound: changes by the user

(* An entry and the directories above it: what every set has that contains *)
(* the entry and with an entry the directory it is in.                     *)
Upward(A) == \A x \in A \ {RootItem} : In[x] \in A
Way == [e \in Items |-> {x \in Items : \A A \in SUBSET Items : e \in A /\ Upward(A) => x \in A}]
DirsTo(e) == Way[e] \ {e}

ItemKinds == {"none", "link", "denied", "dir", "file", "large"}
ItemData == DOMAIN Provenances \cup {"broken", None}

(* What an entry of a class can be: directories are no files.              *)
KindsOf(class) == IF class \in {"dir", "git"} THEN {"none", "link", "dir"} ELSE {"none", "link", "file", "large"}

(* A lockfile's parsers give a digest to what they call immutable only     *)
(* (provenance/parser.go, python.go, store/validation.go).                 *)
ASSUME ProjectWalkAssumption ==
    /\ IsFiniteSet(Items) /\ RootItem \in Items /\ In \in [Items \ {RootItem} -> Items]
    /\ \A e \in Items : RootItem \in Way[e]
    /\ Class \in [Items -> {"dir", "git", "config", "lock", "launch", "hook", "other"}]
    /\ Class[RootItem] = "dir" /\ \A e \in Items \ {RootItem} : Class[In[e]] \in {"dir", "git"}
    /\ TooDeep \cup SkippedDirs \subseteq {e \in Items : Class[e] = "dir"}
    /\ ErrorRooms \subseteq Nat /\ EntryBudget \in Nat /\ FileBudget \in Nat /\ MaxWrites \in Nat
    /\ None \notin Items \cup DOMAIN Provenances \cup {"broken"}
    /\ \A x \in DOMAIN Provenances : \E s \in {"mutable", "immutable", "unknown"} : \E i \in {None, Provenances[x].integrity} :
            Provenances[x] = [status |-> s, integrity |-> i] /\ (s # "immutable" => i = None)
    /\ \A tree \in TreeStarts :
            /\ tree \in [Items -> [kind : ItemKinds, id : Nat, time : {0}, data : ItemData]]
            /\ tree[RootItem].kind \in {"none", "link", "denied", "dir"}
            /\ \A e \in Items \ {RootItem} : tree[e].kind \in KindsOf(Class[e]) /\ (Class[e] = "lock" => tree[e].data # None)

VARIABLES
    item,           \* item -> [kind, id, time, data]
    wtime,          \* the number of changes
    wpc,
    rootSeen,       \* the root's fingerprint
    reading,        \* the directory that was opened
    entriesLeft,    \* entries to look at
    glimpse,        \* what Lstat saw of the entry at work
    hooksOf,        \* the project as it was when its .git was seen
    spent,          \* entries read
    configs, evid,  \* what was recognized
    projects,       \* directories that became projects
    work,           \* evidence left to issue, and the one at work
    parsed,         \* what was read of the lockfile at work
    handed, issued, records, \* LocalTargets, LocalEvidenceTargets, provenance
    errorRoom,      \* errors of launch files and lockfiles that the result still takes
    werrors, wstatus

projectSide == <<item, wtime>>
walked == <<rootSeen, reading, entriesLeft, glimpse, hooksOf, spent, configs, evid>>
built == <<projects, work, parsed, handed, issued, records, errorRoom>>
projectVars == <<projectSide, wpc, walked, built, werrors, wstatus>>

WalkEntries == Items \ {RootItem}
WalkStamp(e) == <<item[e].kind, item[e].id, item[e].time>>
Here(d) == {e \in WalkEntries : In[e] = d /\ item[e].kind # "none"}
IsDirClass(e) == Class[e] \in {"dir", "git"}
Fail(code) == werrors' = werrors \cup {code}

(* appendProjectProvenanceError: the roots share maxWalkErrors errors of   *)
(* this kind, then one is lost.                                            *)
FailIfRoom(code) ==
    IF errorRoom > 0 THEN Fail(code) /\ errorRoom' = errorRoom - 1 ELSE UNCHANGED <<werrors, errorRoom>>
Recognized(e) == Class[e] \in {"config", "lock", "launch", "hook"}

-----------------------------------------------------------------------------
(* walkConfiguredRoot *)
OpenRootDirectory ==
    /\ wpc = "root"
    /\ LET k == item[RootItem].kind
           stop(s, codes) == wstatus' = s /\ werrors' = werrors \cup codes /\ wpc' = "covered" /\ UNCHANGED <<rootSeen, reading>>
       IN  CASE k = "none" -> stop("not_present", {})
             [] k = "link" -> stop("partial", {"symlink_rejected"})
             [] k = "denied" -> stop("unavailable", {"root_unavailable"})
             [] OTHER -> \/ stop("partial", {"identity_changed"})    \* exchanged while it is opened
                         \/ /\ rootSeen' = WalkStamp(RootItem) /\ reading' = RootItem
                            /\ wpc' = "read" /\ UNCHANGED <<werrors, wstatus>>
    /\ UNCHANGED <<projectSide, entriesLeft, glimpse, hooksOf, spent, configs, evid, built>>

(* A limit ends the whole walk. *)
StopWalk(code) == Fail(code) /\ entriesLeft' = {} /\ wpc' = "build"

(* Mutant: what fits the budget is walked, the rest is forgotten. *)
BugForgetsRest ==
    /\ wpc = "read"
    /\ \E part \in SUBSET Here(reading) :
        /\ spent + Cardinality(part) <= EntryBudget
        /\ part = Here(reading) \/ spent + Cardinality(part) = EntryBudget
        /\ entriesLeft' = entriesLeft \cup part /\ spent' = spent + Cardinality(part)
    /\ wpc' = "entry"
    /\ UNCHANGED <<projectSide, rootSeen, reading, glimpse, hooksOf, configs, evid, built, werrors, wstatus>>

(* walkDirectory and walkGitHooks read a directory: readBoundedDirectory. *)
ReadBounded ==
    /\ wpc = "read"
    /\ LET n == spent + Cardinality(Here(reading))
       IN  \/ Fail("path_unavailable") /\ wpc' = "entry" /\ UNCHANGED <<entriesLeft, spent>>
           \/ n > EntryBudget /\ StopWalk("entry_limit") /\ UNCHANGED spent
           \/ /\ n <= EntryBudget
              /\ entriesLeft' = entriesLeft \cup Here(reading) /\ spent' = n
              /\ wpc' = "entry" /\ UNCHANGED werrors
    /\ UNCHANGED <<projectSide, rootSeen, reading, glimpse, hooksOf, configs, evid, built, wstatus>>

Skip(e, codes) == entriesLeft' = entriesLeft \ {e} /\ werrors' = werrors \cup codes /\ UNCHANGED <<wpc, glimpse>>

(* Lstat of an entry.  Links are refused, excluded directories and files   *)
(* of no class passed over; every class of file has its own limits.        *)
LookItem ==
    /\ wpc = "entry"
    /\ \E e \in entriesLeft :
        LET k == item[e].kind
            full == Cardinality(configs) + Cardinality(evid) >= FileBudget
        IN  CASE Class[e] = "hook" /\ full -> StopWalk("config_limit") /\ UNCHANGED glimpse
              [] ~(Class[e] = "hook" /\ full) /\ k = "none" -> Skip(e, {"path_unavailable"})
              [] k = "link" /\ ~(Class[e] = "hook" /\ full) -> Skip(e, {IF Class[e] = "hook" THEN "path_unavailable" ELSE "symlink_rejected"})
              [] k = "dir" /\ e \in SkippedDirs -> Skip(e, {})
              [] k = "dir" /\ e \in TooDeep \ SkippedDirs -> Skip(e, {"depth_limit"})
              [] k \in {"file", "large"} /\ ~Recognized(e) -> Skip(e, {})
              [] k = "large" /\ Class[e] = "config" -> Skip(e, {"config_size_limit"})
              [] k \in {"file", "large"} /\ Recognized(e) /\ full /\ Class[e] # "hook"
                    /\ ~(k = "large" /\ Class[e] = "config") -> StopWalk("config_limit") /\ UNCHANGED glimpse
              [] OTHER -> /\ glimpse' = [of |-> e, print |-> WalkStamp(e), project |-> IF Class[e] = "hook" THEN hooksOf ELSE WalkStamp(In[e]),
                                         data |-> item[e].data]
                          /\ wpc' = "open" /\ UNCHANGED <<entriesLeft, werrors>>
    /\ UNCHANGED <<projectSide, rootSeen, reading, hooksOf, spent, configs, evid, built, wstatus>>

(* `data` is history: what was in the file then. *)
Found(print, over) ==
    [of |-> glimpse.of, print |-> print, project |-> glimpse.project, oversize |-> over,
     data |-> IF print = glimpse.print THEN glimpse.data ELSE item[glimpse.of].data]
KeepEvidence(fs, codes) == evid' = evid \cup fs /\ werrors' = werrors \cup codes /\ UNCHANGED <<reading, hooksOf, configs>>

(* openVerifiedDirectory, openVerifiedFile: what is opened must be what    *)
(* Lstat saw; OpenVerifiedRoot opens whatever directory .git is by now.    *)
SameEntry(e) ==
    item[e].kind \notin {"none", "link"} /\ (Class[e] # "git" => item[e].id = glimpse.print[2])

(* The rest of walkDirectory and walkGitHooks.  A file of evidence that    *)
(* cannot be opened stays a finding, one that was written to meanwhile     *)
(* does not; nor does a hook that cannot be opened.  A .git stands for its *)
(* hooks directory, whose absence is silent: there is no hook then.        *)
OpenItem ==
    /\ wpc = "open"
    /\ \E fails \in BOOLEAN :
        LET e == glimpse.of
            gone == fails \/ ~SameEntry(e)
            code == IF fails THEN "path_unavailable" ELSE "identity_changed"
        IN  CASE gone ->
                    /\ KeepEvidence(IF Class[e] \in {"lock", "launch"} THEN {Found(glimpse.print, FALSE)} ELSE {}, {code})
                    /\ wpc' = "entry"
              [] ~gone /\ IsDirClass(e) ->
                    /\ reading' = e /\ hooksOf' = IF Class[e] = "git" THEN glimpse.project ELSE hooksOf
                    /\ wpc' = "read" /\ UNCHANGED <<configs, evid, werrors>>
              [] ~gone /\ Class[e] = "config" /\ item[e].kind = "large" -> KeepEvidence({}, {"config_size_limit"}) /\ wpc' = "entry"
              [] ~gone /\ Class[e] = "config" /\ item[e].kind # "large" ->
                    configs' = configs \cup {e} /\ wpc' = "entry" /\ UNCHANGED <<reading, hooksOf, evid, werrors>>
              [] ~gone /\ Class[e] \in {"lock", "launch"} /\ WalkStamp(e) # glimpse.print -> KeepEvidence({}, {"identity_changed"}) /\ wpc' = "entry"
              [] OTHER -> KeepEvidence({Found(WalkStamp(e), item[e].kind = "large")}, {}) /\ wpc' = "entry"
    /\ entriesLeft' = entriesLeft \ {glimpse.of}
    /\ UNCHANGED <<projectSide, rootSeen, glimpse, spent, built, wstatus>>

EndProjects ==
    /\ wpc = "entry" /\ entriesLeft = {}
    /\ wpc' = "build"
    /\ UNCHANGED <<projectSide, walked, built, werrors, wstatus>>

-----------------------------------------------------------------------------
ProjectOf(e) == IF Class[In[e]] = "git" THEN In[In[e]] ELSE In[e]

(* buildEvidence: the projects, of which an identity may be refused, and   *)
(* the configurations that are handed to the MCP collector.                *)
BuildProjects ==
    /\ wpc = "build"
    /\ LET all == {ProjectOf(e) : e \in configs} \cup {ProjectOf(f.of) : f \in evid}
       IN  \E safe \in {all} \cup {all \ {d} : d \in all} :
            /\ projects' = safe
            /\ werrors' = werrors \cup (IF safe = all THEN {} ELSE {"identity_rejected"})
            /\ handed' = {e \in configs : ProjectOf(e) \in safe}
            /\ work' = [left |-> {f \in evid : ProjectOf(f.of) \in safe}, now |-> None]
    /\ wpc' = "issue"
    /\ UNCHANGED <<projectSide, walked, parsed, issued, records, errorRoom, wstatus>>

Issue(f, s) == issued' = issued \cup {[of |-> f.of, status |-> s, data |-> IF s = "anchored" THEN item[f.of].data ELSE None]}
After(f) == CASE Class[f.of] = "lock" -> "parse" [] Class[f.of] = "launch" -> "launch" [] OTHER -> "issue"
IssueStep(f, s) ==
    /\ Issue(f, s)
    /\ work' = [left |-> work.left \ {f}, now |-> IF s = "anchored" /\ After(f) # "issue" THEN f ELSE None]
    /\ wpc' = IF s = "anchored" THEN After(f) ELSE "issue"
    /\ UNCHANGED <<projectSide, walked, projects, parsed, handed, records, errorRoom, werrors, wstatus>>

(* issueProjectEvidence up to the hash: the root and the project are       *)
(* opened and must be what the walk saw; no link is on the way.            *)
IssueEvidence ==
    /\ wpc = "issue"
    /\ \E f \in work.left :
        \/ f.oversize /\ IssueStep(f, "oversize")
        \/ ~f.oversize /\ IssueStep(f, "unavailable")        \* opened or looked up in vain, or another one
        \/ /\ ~f.oversize
           /\ WalkStamp(RootItem) = rootSeen /\ WalkStamp(ProjectOf(f.of)) = f.project
           /\ \A d \in DirsTo(ProjectOf(f.of)) : item[d].kind = "dir"
           /\ work' = [work EXCEPT !.now = f] /\ wpc' = "hash"
           /\ UNCHANGED <<projectSide, walked, projects, parsed, handed, issued, records, errorRoom, werrors, wstatus>>

(* Mutant: the file is hashed wherever its path leads by now. *)
BugAnchorsAnything == wpc = "hash" /\ IssueStep(work.now, "anchored")

(* HashVerifiedFile below the open root: the file must be what the walk    *)
(* saw, whatever became of the root and the project meanwhile.  The digest *)
(* is its anchor.                                                          *)
HashEvidence ==
    /\ wpc = "hash"
    /\ LET f == work.now
           same == WalkStamp(f.of) = f.print /\ \A d \in DirsTo(f.of) \ {RootItem} : item[d].kind = "dir"
       IN  \/ item[f.of].kind = "large" /\ IssueStep(f, "oversize")
           \/ same /\ item[f.of].kind # "large" /\ IssueStep(f, "anchored")
           \/ IssueStep(f, "unavailable")

(* validLaunchConfig reads the file again: the same file, whatever is in   *)
(* it by now.                                                              *)
CheckLaunch ==
    /\ wpc = "launch" /\ wpc' = "issue"
    /\ LET f == work.now
       IN  CASE item[f.of].kind # "file" \/ item[f.of].id # f.print[2] -> FailIfRoom("launch_unavailable")
             [] item[f.of].kind = "file" /\ item[f.of].id = f.print[2] /\ item[f.of].data = "broken" -> FailIfRoom("launch_malformed")
             [] OTHER -> UNCHANGED <<werrors, errorRoom>>
    /\ work' = [work EXCEPT !.now = None]
    /\ UNCHANGED <<projectSide, walked, projects, parsed, handed, issued, records, wstatus>>

(* appendProjectLockfileProvenance: the file is opened once more, must be  *)
(* the one that was hashed and is parsed.                                  *)
ParseLockfile ==
    /\ wpc = "parse"
    /\ LET f == work.now
       IN  IF WalkStamp(f.of) # f.print
           THEN /\ FailIfRoom("provenance_identity_changed")
                /\ wpc' = "issue" /\ work' = [work EXCEPT !.now = None] /\ UNCHANGED parsed
           ELSE IF item[f.of].data = "broken"
           THEN /\ FailIfRoom("provenance_malformed")
                /\ wpc' = "issue" /\ work' = [work EXCEPT !.now = None] /\ UNCHANGED parsed
           ELSE parsed' = item[f.of].data /\ wpc' = "confirm" /\ UNCHANGED <<work, errorRoom, werrors>>
    /\ UNCHANGED <<projectSide, walked, projects, handed, issued, records, wstatus>>

(* Mutant: the records are taken without a second look. *)
BugNoSecondLook ==
    /\ wpc = "confirm"
    /\ \E data \in DOMAIN Provenances :
        /\ (WalkStamp(work.now.of) = work.now.print => data = parsed)
        /\ records' = records \cup {[lock |-> work.now.of, says |-> data]}
    /\ wpc' = "issue" /\ work' = [work EXCEPT !.now = None] /\ parsed' = None /\ UNCHANGED <<werrors, errorRoom>>
    /\ UNCHANGED <<projectSide, walked, projects, handed, issued, wstatus>>

(* While it was parsed it may have been written to: any content can have   *)
(* been read then, and nothing of it is kept.                              *)
ConfirmLockfile ==
    /\ wpc = "confirm"
    /\ IF WalkStamp(work.now.of) = work.now.print
       THEN records' = records \cup {[lock |-> work.now.of, says |-> parsed]} /\ UNCHANGED <<werrors, errorRoom>>
       ELSE FailIfRoom("provenance_identity_changed") /\ UNCHANGED records
    /\ wpc' = "issue" /\ work' = [work EXCEPT !.now = None] /\ parsed' = None
    /\ UNCHANGED <<projectSide, walked, projects, handed, issued, wstatus>>

CoverRoot ==
    /\ wpc = "issue" /\ work.left = {}
    /\ wpc' = "covered"
    /\ wstatus' = IF werrors = {} THEN "complete" ELSE "partial"
    /\ UNCHANGED <<projectSide, walked, built, werrors>>

(* Mutant of Conservative: the last record wins. *)
BugLastWins(p, q) == q

(* conservativeProjectPackageProvenance of two records: a package is       *)
(* immutable only by one digest, and mutable if anyone says so.            *)
Conservative(p, q) ==
    CASE p.status = "mutable" \/ q.status = "mutable" -> [status |-> "mutable", integrity |-> None]
      [] p = q /\ p.status = "immutable" -> p
      [] OTHER -> [status |-> "unknown", integrity |-> None]

(* aggregateProjectPackageAssets over the records in one order. *)
AggregateUpTo(seq) ==
    LET f[i \in 1..Len(seq)] == IF i = 1 THEN Provenances[seq[1]] ELSE Conservative(f[i - 1], Provenances[seq[i]])
    IN  f

Aggregate(seq) == IF seq = <<>> THEN None ELSE AggregateUpTo(seq)[Len(seq)]

(* The context ends: abortProjectCollection. *)
AbortProjects ==
    /\ wpc \notin {"covered", "aborted"}
    /\ wpc' = "aborted"
    /\ handed' = {} /\ issued' = {} /\ records' = {} /\ projects' = {}
    /\ UNCHANGED <<projectSide, walked, work, parsed, errorRoom, werrors, wstatus>>

-----------------------------------------------------------------------------
(* The user: every change of an item is at a time of its own, and that of  *)
(* an entry changes its directory.                                         *)
WriteProject ==
    /\ wtime < MaxWrites /\ wtime' = wtime + 1
    /\ \/ \E e \in WalkEntries : \E data \in DOMAIN Provenances \cup {"broken"} :      \* in place
            /\ item[e].kind = "file"
            /\ item' = [item EXCEPT ![e].data = data, ![e].time = wtime + 1]
       \/ \E e \in WalkEntries : \E k \in {"none", "link", IF IsDirClass(e) THEN "dir" ELSE "file"} :
            /\ \A d \in DirsTo(e) : item[d].kind = "dir"
            /\ item' = [item EXCEPT ![e] = [kind |-> k, id |-> wtime + 1, time |-> wtime + 1, data |-> @.data],
                                    ![In[e]].time = wtime + 1]
       \/ \E k \in {"none", "link", "dir", "denied"} :
            item' = [item EXCEPT ![RootItem] = [kind |-> k, id |-> wtime + 1, time |-> wtime + 1, data |-> None]]
    /\ UNCHANGED <<wpc, walked, built, werrors, wstatus>>

ProjectInit ==
    /\ item \in TreeStarts /\ wtime = 0 /\ wpc = "root"
    /\ rootSeen = None /\ reading = None /\ entriesLeft = {} /\ glimpse = None /\ hooksOf = None /\ spent = 0 /\ configs = {} /\ evid = {}
    /\ projects = {} /\ work = [left |-> {}, now |-> None] /\ parsed = None
    /\ handed = {} /\ issued = {} /\ records = {} /\ errorRoom \in ErrorRooms
    /\ werrors = {} /\ wstatus = "complete"

ProjectNext ==
    \/ OpenRootDirectory \/ ReadBounded \/ LookItem \/ OpenItem \/ EndProjects \/ BuildProjects \/ IssueEvidence \/ HashEvidence \/ CheckLaunch
    \/ ParseLockfile \/ ConfirmLockfile \/ CoverRoot \/ AbortProjects \/ WriteProject

ProjectSpec == ProjectInit /\ [][ProjectNext]_projectVars

-----------------------------------------------------------------------------
ProjectTypeOK ==
    /\ wpc \in {"root", "read", "entry", "open", "build", "issue", "hash", "launch", "parse", "confirm", "covered", "aborted"}
    /\ entriesLeft \subseteq WalkEntries /\ configs \subseteq WalkEntries /\ spent \in 0..EntryBudget
    /\ Cardinality(configs) + Cardinality(evid) <= FileBudget
    /\ handed \subseteq configs /\ \A t \in issued : \E f \in evid : f.of = t.of
    /\ wstatus \in {"complete", "partial", "unavailable", "not_present"}

(* The user never touched the entry or a directory it is reached through. *)
Untouched(e) == \A x \in {e, ProjectOf(e)} \cup DirsTo(e) : item[x].time = 0 /\ item[x].kind \in {"file", "large", "dir"}
Skipped(e) == \E d \in DirsTo(e) : d \in SkippedDirs

(* A root that is reported complete was searched whole: every              *)
(* configuration in it that nobody touched is handed on, and every file of *)
(* evidence has an anchor or its reason.  Limits, links and exchanges on   *)
(* the way show in the status (walk.go walkDirectory, addError).           *)
CompleteRootWasSearched ==
    wpc = "covered" /\ wstatus = "complete" => \A e \in WalkEntries :
        Untouched(e) /\ ~Skipped(e) =>
            /\ Class[e] = "config" => e \in handed
            /\ Class[e] \in {"lock", "launch", "hook"} => \E t \in issued : t.of = e

(* An anchor is the digest of the file the walk found, though the walk     *)
(* closed it and the project is opened again for it                        *)
(* (issueProjectEvidence compares root, project and file).                 *)
AnchoredAsWalked ==
    \A t \in issued : t.status = "anchored" => \E f \in evid : f.of = t.of /\ f.data = t.data

(* The packages a lockfile is said to name were read from the content that *)
(* its digest is of, though it is opened and read a third time             *)
(* (appendProjectLockfileProvenance).                                      *)
RecordsOfTheAnchor ==
    \A r \in records : \E t \in issued : t.of = r.lock /\ t.status = "anchored" /\ t.data = r.says

(* What the lockfiles of a root say of one package does not depend on      *)
(* their order, and a package is immutable only when all of them pin the   *)
(* same digest (aggregateProjectPackageAssets).                            *)
ProvenanceAgreed ==
    LET lists == {o \in [1..Cardinality(records) -> records] : \A r \in records : \E i \in DOMAIN o : o[i] = r}
        orders == {[i \in DOMAIN o |-> o[i].says] : o \in lists}
    IN  \A x, y \in orders :
            /\ Aggregate(x) = Aggregate(y)
            /\ x # <<>> /\ Aggregate(x).status = "immutable" =>
                \A i \in DOMAIN x : Provenances[x[i]] = [status |-> "immutable", integrity |-> Aggregate(x).integrity]

=============================================================================
