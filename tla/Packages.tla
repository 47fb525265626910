------------------------------ MODULE Packages ------------------------------
(***************************************************************************)
(* The packages collector (internal/collector/packages/collector.go): for  *)
(* each package manager it inspects the executable, runs it and reads what *)
(* it answered.  npm and go answer with a directory, which is walked; the  *)
(* others with a list.  Meanwhile an installer replaces executables and    *)
(* packages, and the scan may be cancelled.                                *)
(***************************************************************************)
EXTENDS Shared, Integers, FiniteSets, Sequences

CONSTANTS
    Entries,        \* what a global package directory may hold
    Scope,          \* per entry: the scope directory it is in, or None
    EntryLimit,     \* maxPackageEntries
    ProbeLists,     \* the catalogs of probes
    Answers,        \* what the other managers print: sequences of line classes
    MaxInstalls     \* bound: changes by the installer

Managers == {"npm", "go", "pip", "pipx", "uv", "cargo", "brew", "docker"}
LineClasses == {"good", "indented", "short", "broken"}

(* A directory of npm holds packages and scopes, a scope only packages. *)
ASSUME PackagesAssumption ==
    /\ IsFiniteSet(Entries) /\ None \notin Entries /\ Scope \in [Entries -> Entries \cup {None}]
    /\ \A e \in Entries : Scope[e] # None => Scope[Scope[e]] = None
    /\ EntryLimit \in Nat /\ MaxInstalls \in Nat
    /\ Answers \subseteq Seq(LineClasses) /\ ProbeLists \subseteq Seq(Managers) \ {<<>>}

VARIABLES
    tree, stamp,    \* per entry: what it is, and the time of its last change
    exe,            \* the identity of the executable, 0 when it is missing
    installs,
    ppc, probes,    \* the collector's place, and the probes left
    inspected, ran, \* the identity that was hashed, and the one that ran
    since,          \* the installer's count when the probe began
    answer,         \* of the run: its lines and whether they were cut
    walk, open,     \* entries left to look at, and the one that is open
    room,           \* what is left of packageEntryBudget
    found, loss,    \* packages parsed, and what the parse lost
    issues,         \* codes of the target
    tstatus,        \* its status
    covered         \* results of the probes that are done

hostSide == <<tree, stamp, exe, installs>>
probeState == <<inspected, ran, since, answer, walk, open, room, found, loss, issues, tstatus>>
packagesVars == <<hostSide, ppc, probes, probeState, covered>>

InScope(e) == {f \in Entries : Scope[f] = e}
IsScope(e) == InScope(e) # {}
TopLevel == {e \in Entries : Scope[e] = None}

-----------------------------------------------------------------------------
(* appendPackageIssue: partial outranks unavailable. *)
AppendIssue(status, code) ==
    /\ tstatus' = IF tstatus = "complete" \/ status = "partial" THEN status ELSE tstatus
    /\ issues' = issues \cup {code}

(* The lists: what a line of each class becomes.  A line of class "good"   *)
(* names a package and its version, "indented" is one with two fields and  *)
(* a leading space, "short" lacks the version.                             *)
Kept(lines, good) == {i \in DOMAIN lines : lines[i] \in good}
Parsed(lines, good, bad) == [found |-> Kept(lines, good), loss |-> IF Kept(lines, bad) = {} THEN {} ELSE {"parser"}]

(* JSON documents: one that does not parse yields nothing. *)
ParsePip(lines) ==
    IF lines = <<>> \/ "broken" \in {lines[i] : i \in DOMAIN lines}
    THEN [found |-> {}, loss |-> {"parser"}] ELSE Parsed(lines, {"good", "indented"}, {"short"})
ParsePipx(lines) == ParsePip(lines)
ParseUV(lines) == Parsed(lines, {"good"}, {"short", "broken"})
ParseCargo(lines) == Parsed(lines, {"good"}, {"short", "broken"})
ParseBrew(lines) == Parsed(lines, {"good", "indented"}, {"short", "broken"})
ParseDocker(lines) == Parsed(lines, {"good", "indented"}, {"short", "broken"})

ParseList(probe, lines) ==
    CASE probe = "pip" -> ParsePip(lines) [] probe = "pipx" -> ParsePipx(lines)
      [] probe = "uv" -> ParseUV(lines) [] probe = "cargo" -> ParseCargo(lines)
      [] probe = "brew" -> ParseBrew(lines) [] probe = "docker" -> ParseDocker(lines)

-----------------------------------------------------------------------------
(* One probe: Inspect, Run, Verify. *)
Fresh ==
    /\ inspected' = None /\ ran' = None /\ since' = installs /\ answer' = <<>>
    /\ walk' = {} /\ open' = None /\ room' = EntryLimit
    /\ found' = {} /\ loss' = {} /\ issues' = {} /\ tstatus' = "complete"

(* result.Targets = append(result.Targets, target), and the next probe. *)
Cover ==
    /\ ppc = "cover"
    /\ covered' = Append(covered, [probe |-> Head(probes), status |-> tstatus, issues |-> issues, found |-> found])
    /\ probes' = Tail(probes)
    /\ ppc' = IF Len(probes) = 1 THEN "returned" ELSE "inspect"
    /\ Fresh
    /\ UNCHANGED hostSide

(* An executable that was found may be unreadable, too large, a loop of    *)
(* links or change while it is hashed; its evidence may be refused.        *)
Inspect ==
    /\ ppc = "inspect"
    /\ IF exe = 0
       THEN tstatus' = "not_present" /\ ppc' = "cover" /\ UNCHANGED <<issues, inspected, found>>
       ELSE \/ AppendIssue("unavailable", "executable_unavailable") /\ ppc' = "cover" /\ UNCHANGED <<inspected, found>>
            \/ AppendIssue("partial", "executable_evidence_invalid") /\ ppc' = "cover" /\ UNCHANGED <<inspected, found>>
            \/ /\ inspected' = exe /\ ppc' = "run"
               /\ \/ UNCHANGED <<issues, tstatus>>
                  \/ AppendIssue("partial", "signature_unavailable")
               /\ UNCHANGED found
    /\ UNCHANGED <<hostSide, probes, ran, since, answer, walk, open, room, loss, covered>>

(* Runner.Run starts whatever is at the inspected path by then. *)
RunProbe ==
    /\ ppc = "run"
    /\ ran' = exe
    /\ answer' \in {"failed"} \cup (IF exe = 0 THEN {} ELSE Answers \X {"whole", "cut"})
    /\ ppc' = "verify"
    /\ UNCHANGED <<hostSide, probes, inspected, since, walk, open, room, found, loss, issues, tstatus, covered>>

(* Mutant: the executable is not looked at again. *)
BugUnverified ==
    /\ ppc = "verify"
    /\ IF answer = "failed"
       THEN AppendIssue("partial", "probe_failed") /\ ppc' = "cover"
       ELSE ppc' = "parse" /\ UNCHANGED <<tstatus, issues>>
    /\ UNCHANGED <<hostSide, probes, inspected, ran, since, answer, walk, open, room, found, loss, covered>>

(* Inspector.Verify after the run, whatever the run did.  A docker client  *)
(* that is the inspected one may say that its daemon is not there.         *)
VerifyProbe ==
    /\ ppc = "verify"
    /\ LET replaced == exe # inspected
           status == IF replaced THEN "partial" ELSE tstatus
           noted == IF replaced THEN issues \cup {"executable_replaced"} ELSE issues
           daemon == ~replaced /\ Head(probes) = "docker"
       IN  IF answer # "failed"
           THEN tstatus' = status /\ issues' = noted /\ ppc' = "parse"
           ELSE /\ ppc' = "cover"
                /\ \/ tstatus' = "partial" /\ issues' = noted \cup {"probe_failed"}
                   \/ daemon /\ AppendIssue("unavailable", "docker_unavailable")
    /\ UNCHANGED <<hostSide, probes, inspected, ran, since, answer, walk, open, room, found, loss, covered>>

(* probe.parse: a list is parsed at once, a directory is walked. *)
BeginParse ==
    /\ ppc = "parse"
    /\ IF Head(probes) \in {"npm", "go"}
       THEN ppc' = "list" /\ open' = None /\ UNCHANGED <<found, loss>>
       ELSE LET p == ParseList(Head(probes), answer[1])
            IN  found' = p.found /\ loss' = p.loss /\ ppc' = "append" /\ UNCHANGED open
    /\ UNCHANGED <<hostSide, probes, inspected, ran, since, answer, walk, room, issues, tstatus, covered>>

-----------------------------------------------------------------------------
(* The walk of a directory. *)

(* Mutant: what fitted the budget is kept and the rest forgotten. *)
BugKeepsPrefix(present) ==
    \E part \in SUBSET present :
        /\ Cardinality(part) = IF Cardinality(present) > room THEN room ELSE Cardinality(present)
        /\ walk' = walk \cup part
        /\ room' = room - Cardinality(part)
        /\ UNCHANGED loss

(* readPackageDirectory: one entry too many, and nothing of the directory  *)
(* is kept; a read error keeps what came before it.                        *)
ReadDirectory(present) ==
    \/ /\ Cardinality(present) <= room
       /\ walk' = walk \cup present
       /\ room' = room - Cardinality(present)
       /\ UNCHANGED loss
    \/ /\ Cardinality(present) > room
       /\ room' = 0
       /\ loss' = loss \cup {"parser"}
       /\ UNCHANGED walk
    \/ \E part \in SUBSET present :
        /\ Cardinality(part) <= room
        /\ walk' = walk \cup part
        /\ room' = room - Cardinality(part)
        /\ loss' = loss \cup {"access"}

(* The root of the packages, or an opened scope directory. *)
ListPackages ==
    /\ ppc = "list"
    /\ LET inside == IF open = None THEN TopLevel ELSE InScope(open)
       IN  ReadDirectory({e \in inside : tree[e] # "none"})
    /\ ppc' = "entry" /\ open' = None
    /\ UNCHANGED <<hostSide, probes, inspected, ran, since, answer, found, issues, tstatus, covered>>

(* The members of a scope are looked at before the rest of the directory. *)
Next1(e) == e \in walk /\ (\A f \in walk : Scope[f] # None => Scope[e] # None)

Lost(what) == loss' = loss \cup {what}

(* Lstat of the next entry.  npm follows no link and passes over files; go *)
(* takes regular files and passes over directories.                        *)
LookEntry ==
    /\ ppc = "entry"
    /\ \E e \in walk :
        /\ Next1(e)
        /\ walk' = walk \ {e}
        /\ LET dir == tree[e] \in {"package", "broken"}
               go == Head(probes) = "go"
           IN  CASE tree[e] \in {"none", "link"} -> Lost("parser") /\ UNCHANGED <<ppc, open, found>>
                 [] tree[e] = "denied" -> Lost("access") /\ UNCHANGED <<ppc, open, found>>
                 [] dir /\ ~go -> ppc' = "open" /\ open' = e /\ UNCHANGED <<loss, found>>
                 [] tree[e] = "file" /\ go -> found' = found \cup {e} /\ UNCHANGED <<ppc, open, loss>>
                 [] OTHER -> UNCHANGED <<ppc, open, loss, found>>
    /\ UNCHANGED <<hostSide, probes, inspected, ran, since, answer, room, issues, tstatus, covered>>

(* platform.OpenVerifiedRoot: it may have been exchanged since. *)
OpenEntry ==
    /\ ppc = "open"
    /\ CASE tree[open] \in {"package", "broken"} ->
                ppc' = (IF IsScope(open) THEN "list" ELSE "manifest") /\ UNCHANGED <<open, loss>>
         [] tree[open] = "denied" -> Lost("access") /\ ppc' = "entry" /\ open' = None
         [] OTHER -> Lost("parser") /\ ppc' = "entry" /\ open' = None
    /\ UNCHANGED <<hostSide, probes, inspected, ran, since, answer, walk, room, found, issues, tstatus, covered>>

(* readNPMManifest of the opened directory: missing, too large, changed    *)
(* while it was read or without a name, it is lost.                        *)
ReadManifest ==
    /\ ppc = "manifest"
    /\ \/ tree[open] = "package" /\ found' = found \cup {open} /\ UNCHANGED loss
       \/ tree[open] # "package" /\ Lost("parser") /\ UNCHANGED found
       \/ stamp[open] > since /\ Lost("parser") /\ UNCHANGED found
       \/ Lost("access") /\ UNCHANGED found
    /\ ppc' = "entry" /\ open' = None
    /\ UNCHANGED <<hostSide, probes, inspected, ran, since, answer, walk, room, issues, tstatus, covered>>

EndPackageWalk ==
    /\ ppc = "entry" /\ walk = {}
    /\ ppc' = "append"
    /\ UNCHANGED <<hostSide, probes, probeState, covered>>

(* Mutant: output that was cut passes if all of it parsed. *)
BugCutIsFine ==
    /\ ppc = "append"
    /\ issues' = issues \cup (IF loss = {} THEN {} ELSE {"probe_output_invalid"})
    /\ tstatus' = IF issues' = {} THEN "complete" ELSE "partial"
    /\ ppc' = "cover"
    /\ UNCHANGED <<hostSide, probes, inspected, ran, since, answer, walk, open, room, found, loss, covered>>

(* appendPackageEvidence of every asset, of which an identity may be       *)
(* refused, then the losses of the parse and of the pipe.                  *)
AppendAssets ==
    /\ ppc = "append"
    /\ \E safe \in SUBSET found :
        /\ found' = safe
        /\ LET new == (IF safe = found THEN {} ELSE {"identity_rejected"})
                   \cup (IF "access" \in loss THEN {"filesystem_unavailable"} ELSE {})
                   \cup (IF "parser" \in loss THEN {"probe_output_invalid"} ELSE {})
                   \cup (IF answer[2] = "cut" THEN {"probe_output_truncated"} ELSE {})
           IN  issues' = issues \cup new /\ tstatus' = IF new = {} THEN tstatus ELSE "partial"
    /\ ppc' = "cover"
    /\ UNCHANGED <<hostSide, probes, inspected, ran, since, answer, walk, open, room, loss, covered>>

(* Mutant: a cancelled collection returns what it had. *)
BugAbortKeeps ==
    /\ ppc \notin {"returned", "aborted"}
    /\ ppc' = "aborted"
    /\ UNCHANGED <<hostSide, probes, probeState, covered>>

(* abortPackageCollection at any look at the context. *)
AbortPackages ==
    /\ ppc \notin {"returned", "aborted"}
    /\ ppc' = "aborted"
    /\ covered' = <<>> /\ probes' = <<>>
    /\ Fresh
    /\ UNCHANGED hostSide

-----------------------------------------------------------------------------
(* The installer: an executable or a package that is written anew has an   *)
(* identity or a time it never had.                                        *)
Install ==
    /\ installs < MaxInstalls
    /\ installs' = installs + 1
    /\ \/ exe' \in {0, installs + 2} /\ exe' # exe /\ UNCHANGED <<tree, stamp>>
       \/ \E e \in Entries : \E k \in {"none", "package", "link"} :
            /\ tree' = [tree EXCEPT ![e] = k]
            /\ stamp' = [stamp EXCEPT ![e] = installs + 1]
            /\ UNCHANGED exe
    /\ UNCHANGED <<ppc, probes, probeState, covered>>

PackagesInit ==
    /\ tree \in [Entries -> {"none", "package", "broken", "file", "link", "denied"}]
    /\ \A e \in Entries : IsScope(e) => tree[e] \in {"none", "package"}
    /\ \A e \in Entries : Scope[e] # None /\ tree[e] # "none" => tree[Scope[e]] = "package"
    /\ stamp = [e \in Entries |-> 0]
    /\ exe = 1 /\ installs = 0
    /\ ppc = "inspect" /\ probes \in ProbeLists
    /\ inspected = None /\ ran = None /\ since = 0 /\ answer = <<>>
    /\ walk = {} /\ open = None /\ room = EntryLimit
    /\ found = {} /\ loss = {} /\ issues = {} /\ tstatus = "complete"
    /\ covered = <<>>

PackagesNext ==
    \/ Inspect \/ RunProbe \/ VerifyProbe \/ BeginParse \/ ListPackages \/ LookEntry \/ OpenEntry \/ ReadManifest
    \/ EndPackageWalk \/ AppendAssets \/ Cover \/ AbortPackages \/ Install

PackagesSpec == PackagesInit /\ [][PackagesNext]_packagesVars

-----------------------------------------------------------------------------
(* Every variable of the collector stays within its type
   (internal/collector/packages/collector.go:84-186). *)
PackagesTypeOK ==
    /\ tree \in [Entries -> {"none", "package", "broken", "file", "link", "denied"}]
    /\ stamp \in [Entries -> 0..MaxInstalls] /\ exe \in 0..MaxInstalls + 1
    /\ walk \subseteq Entries /\ open \in Entries \cup {None} /\ room \in 0..EntryLimit
    /\ loss \subseteq {"parser", "access"}
    /\ tstatus \in {"complete", "partial", "unavailable", "not_present"}
    /\ (ppc = "aborted" => covered = <<>> /\ found = {})

(* An entry that was a package from before the probe until now, in a       *)
(* directory that stayed as well, and so for go with its files.            *)
Steady(kind) ==
    {e \in Entries : /\ ~IsScope(e) /\ tree[e] = kind /\ stamp[e] <= since
                     /\ (Scope[e] # None => stamp[Scope[e]] <= since /\ tree[Scope[e]] = "package")}

(* A target that is about to be covered as complete misses nothing that    *)
(* was there all along: every steady package of the walked directory and   *)
(* every package of the list was reported                                  *)
(* (internal/collector/packages/collector.go:150-175).                     *)
CompleteMissesNothing ==
    ppc = "cover" /\ tstatus = "complete" =>
        CASE Head(probes) = "npm" -> Steady("package") \subseteq found
          [] Head(probes) = "go" -> {e \in Steady("file") : Scope[e] = None} \subseteq found
          [] OTHER -> answer[2] = "whole" /\ Kept(answer[1], {"good"}) \subseteq found /\ "broken" \notin {answer[1][i] : i \in DOMAIN answer[1]}

(* What was run for a complete target is what was inspected and hashed,    *)
(* however executables were replaced meanwhile                             *)
(* (internal/collector/packages/collector.go:134-143).                     *)
RanAsInspected == ppc = "cover" /\ tstatus = "complete" => ran = inspected

(* Every status says why: a target is partial or unavailable exactly if it *)
(* has issues, and unavailable only if nothing of it was reported          *)
(* (internal/collector/packages/collector.go:326-337).                     *)
PackagesExplained ==
    /\ \A i \in DOMAIN covered :
        /\ covered[i].status \in {"partial", "unavailable"} <=> covered[i].issues # {}
        /\ covered[i].status = "unavailable" => covered[i].found = {}

=============================================================================
