--------------------------- MODULE InventoryProofs ---------------------------
(***************************************************************************)
(* Proofs about the collectors of an inventory: packages, MCP servers, the *)
(* home surfaces, agent plugins, IDE extensions and the walk of a project, *)
(* for any files, edits, answers and layouts.                              *)
(***************************************************************************)
EXTENDS EvidenceProofs, Packages, McpServers, HomeSurfaces, AgentPlugins, IdeExtensions, ProjectWalk

-----------------------------------------------------------------------------
(* The packages *)

Looking == {"list", "entry", "open", "manifest"}
Working == {"inspect", "run", "verify", "parse", "append", "cover"} \cup Looking
PackageIssues ==
    {"executable_unavailable", "executable_evidence_invalid", "signature_unavailable", "executable_replaced", "probe_failed",
     "docker_unavailable", "identity_rejected", "filesystem_unavailable", "probe_output_invalid", "probe_output_truncated"}
PackageStatuses == {"complete", "partial", "unavailable", "not_present"}
Things == Entries \cup Nat
Runs == Answers \X {"whole", "cut"}
CoveredTargets == [probe : Managers, status : PackageStatuses, issues : SUBSET PackageIssues, found : SUBSET Things]

InstallerShape ==
    /\ tree \in [Entries -> {"none", "package", "broken", "file", "link", "denied"}]
    /\ stamp \in [Entries -> 0..MaxInstalls] /\ installs \in 0..MaxInstalls
    /\ exe \in Nat /\ exe <= installs + 1

ProbeShape ==
    /\ ppc \in Working \cup {"returned", "aborted"}
    /\ probes \in Seq(Managers) /\ (ppc \in Working => probes # <<>>)
    /\ since \in Nat /\ since <= installs
    /\ ppc = "verify" => answer \in {"failed"} \cup Runs
    /\ ppc \in {"parse", "append"} \cup Looking => answer \in Runs
    /\ walk \subseteq Entries /\ open \in Entries \cup {None} /\ room \in 0..EntryLimit
    /\ loss \subseteq {"parser", "access"} /\ found \subseteq Things
    /\ issues \subseteq PackageIssues /\ tstatus \in PackageStatuses
    /\ covered \in Seq(CoveredTargets)
    /\ ppc = "aborted" => covered = <<>> /\ found = {}

(* A status says why while the target is at work, and once it is covered.  *)
StatusSaysWhy ==
    /\ tstatus \in {"partial", "unavailable"} <=> issues # {}
    /\ ppc = "inspect" => tstatus = "complete"
    /\ ppc \in {"inspect", "run", "verify", "parse"} => found = {}
    /\ tstatus \in {"unavailable", "not_present"} => ppc = "cover" /\ found = {}

(* An executable never gets an identity back: one that is the inspected    *)
(* one after the run was so when it ran.                                   *)
SameExecutable ==
    /\ ppc \in {"run", "verify"} => inspected \in Nat /\ inspected # 0 /\ inspected <= installs + 1
    /\ ppc = "verify" /\ exe = inspected => ran = inspected
    /\ ppc \in {"parse", "append", "cover"} \cup Looking /\ tstatus = "complete" => ran = inspected

(* What a walk owes the report, and where it still waits.                  *)
Sought == IF Head(probes) = "go" THEN {e \in Steady("file") : Scope[e] = None} ELSE Steady("package")
Waiting(e) ==
    \/ e \in walk \/ (Scope[e] # None /\ Scope[e] \in walk)
    \/ ppc = "list" /\ open = None
    \/ ppc \in {"open", "manifest"} /\ open = e
    \/ ppc \in {"open", "list"} /\ Scope[e] # None /\ open = Scope[e]
WalkPlaces ==
    /\ ppc \in Looking => Head(probes) \in {"npm", "go"}
    /\ ppc \in {"open", "manifest"} => open \in Entries /\ Head(probes) # "go"
    /\ ppc = "manifest" => ~IsScope(open)
    /\ ppc = "list" => open = None \/ (IsScope(open) /\ Head(probes) # "go")
    /\ ppc = "append" /\ Head(probes) \in {"npm", "go"} => walk = {}
WalkOwes ==
    ppc \in Looking \cup {"append"} /\ Head(probes) \in {"npm", "go"} /\ loss = {} =>
        \A e \in Sought : e \in found \/ Waiting(e)
ListOwes ==
    ppc = "append" /\ Head(probes) \notin {"npm", "go"} /\ loss = {} =>
        /\ Kept(answer[1], {"good"}) \subseteq found
        /\ "broken" \notin {answer[1][i] : i \in DOMAIN answer[1]}

PackagesInv ==
    /\ InstallerShape /\ ProbeShape /\ StatusSaysWhy /\ SameExecutable /\ PackagesExplained
    /\ WalkPlaces /\ WalkOwes /\ ListOwes /\ CompleteMissesNothing

-----------------------------------------------------------------------------
(* What the invariant says of packages in the words of the properties.     *)
LEMMA PackagesInvMeans == PackagesInv => PackagesTypeOK /\ CompleteMissesNothing /\ RanAsInspected /\ PackagesExplained
<1> SUFFICES ASSUME PackagesInv PROVE PackagesTypeOK /\ CompleteMissesNothing /\ RanAsInspected /\ PackagesExplained
  OBVIOUS
<1>1. PackagesTypeOK
  BY PackagesAssumption DEF PackagesTypeOK, PackagesInv, InstallerShape, ProbeShape, PackageStatuses
<1>2. RanAsInspected
  BY DEF PackagesInv, SameExecutable, RanAsInspected
<1> QED
  BY <1>1, <1>2 DEF PackagesInv

(* It holds before anything was looked at.                                 *)
LEMMA PackagesInit_Inv == PackagesInit => PackagesInv
<1> SUFFICES ASSUME PackagesInit PROVE PackagesInv
  OBVIOUS
<1>1. InstallerShape
  BY PackagesAssumption DEF PackagesInit, InstallerShape
<1>2. probes \in Seq(Managers) /\ probes # <<>>
  BY PackagesAssumption DEF PackagesInit
<1>3. ProbeShape
  BY <1>1, <1>2, PackagesAssumption DEF PackagesInit, ProbeShape, InstallerShape, Working, Looking, PackageStatuses
<1>4. StatusSaysWhy /\ SameExecutable /\ PackagesExplained
  BY DEF PackagesInit, StatusSaysWhy, SameExecutable, PackagesExplained, Looking
<1>5. WalkPlaces /\ WalkOwes /\ ListOwes /\ CompleteMissesNothing
  BY DEF PackagesInit, WalkPlaces, WalkOwes, ListOwes, CompleteMissesNothing, Looking
<1> QED
  BY <1>1, <1>3, <1>4, <1>5 DEF PackagesInv

-----------------------------------------------------------------------------
(* What the installer changes is not steady any more.                      *)
LEMMA InstallStep == ASSUME PackagesInv, Install PROVE PackagesInv'
<1> USE DEF PackagesInv
<1>0. /\ installs \in Nat /\ installs < MaxInstalls /\ MaxInstalls \in Nat /\ installs' = installs + 1
      /\ UNCHANGED <<ppc, probes, probeState, covered>>
  BY PackagesAssumption DEF Install, InstallerShape
<1>1. InstallerShape'
  <2>1. CASE exe' \in {0, installs + 2} /\ UNCHANGED <<tree, stamp>>
    BY <1>0, <2>1 DEF InstallerShape
  <2>2. ASSUME NEW e \in Entries, NEW k \in {"none", "package", "link"}, tree' = [tree EXCEPT ![e] = k],
               stamp' = [stamp EXCEPT ![e] = installs + 1], UNCHANGED exe
        PROVE  InstallerShape'
    BY <1>0, <2>2 DEF InstallerShape
  <2> QED
    BY <2>1, <2>2 DEF Install
<1>2. exe' = exe \/ exe' = 0 \/ exe' = installs + 2
  BY DEF Install
<1>3. ProbeShape'
  BY <1>0 DEF ProbeShape, probeState
<1>4. StatusSaysWhy' /\ PackagesExplained'
  BY <1>0 DEF StatusSaysWhy, PackagesExplained, probeState
<1>5. SameExecutable'
  BY <1>0, <1>2 DEF SameExecutable, probeState, InstallerShape, Looking
<1>6. WalkPlaces' /\ ListOwes'
  BY <1>0 DEF WalkPlaces, ListOwes, probeState, IsScope, InScope
<1>7. ASSUME NEW kind PROVE Steady(kind)' \subseteq Steady(kind)
  <2> SUFFICES ASSUME NEW e \in Steady(kind)' PROVE e \in Steady(kind)
    OBVIOUS
  <2>1. since \in Nat /\ since <= installs /\ since' = since
    BY <1>0 DEF ProbeShape, probeState
  <2>2. \A f \in Entries : stamp'[f] <= since => stamp'[f] = stamp[f] /\ tree'[f] = tree[f]
    <3>1. CASE UNCHANGED <<tree, stamp>>
      BY <3>1
    <3>2. ASSUME NEW g \in Entries, NEW k, tree' = [tree EXCEPT ![g] = k], stamp' = [stamp EXCEPT ![g] = installs + 1]
          PROVE  \A f \in Entries : stamp'[f] <= since => stamp'[f] = stamp[f] /\ tree'[f] = tree[f]
      BY <1>0, <2>1, <3>2 DEF InstallerShape
    <3> QED
      BY <3>1, <3>2 DEF Install
  <2>3. e \in Entries /\ ~IsScope(e) /\ tree'[e] = kind /\ stamp'[e] <= since
    BY <2>1 DEF Steady, IsScope, InScope
  <2>4. Scope[e] # None => Scope[e] \in Entries /\ stamp'[Scope[e]] <= since /\ tree'[Scope[e]] = "package"
    BY <2>1, <2>3, PackagesAssumption DEF Steady
  <2> QED
    BY <2>2, <2>3, <2>4 DEF Steady
<1>8. WalkOwes'
  <2>1. Sought' \subseteq Sought
    BY <1>0, <1>7 DEF Sought
  <2>2. \A e : Waiting(e)' = Waiting(e)
    BY <1>0 DEF Waiting, probeState
  <2> QED
    BY <1>0, <2>1, <2>2 DEF WalkOwes, probeState
<1>9. CompleteMissesNothing'
  <2>1. Steady("package")' \subseteq Steady("package") /\ Steady("file")' \subseteq Steady("file")
    BY <1>7
  <2> HIDE DEF PackagesInv
  <2>2. CompleteMissesNothing
    BY DEF PackagesInv
  <2> QED
    BY <1>0, <2>1, <2>2 DEF CompleteMissesNothing, probeState, Kept
<1> QED
  BY <1>1, <1>3, <1>4, <1>5, <1>6, <1>8, <1>9

(* The next probe starts with nothing known, but what was covered stays.   *)
LEMMA FreshStart ==
    ASSUME PackagesInv, Fresh, UNCHANGED hostSide, ppc' \in {"inspect", "returned", "aborted"},
           probes' \in Seq(Managers), ppc' = "inspect" => probes' # <<>>, covered' \in Seq(CoveredTargets),
           ppc' = "aborted" => covered' = <<>>, PackagesExplained'
    PROVE  PackagesInv'
<1>1. InstallerShape'
  BY DEF PackagesInv, InstallerShape, hostSide
<1>2. ProbeShape'
  BY PackagesAssumption DEF PackagesInv, InstallerShape, ProbeShape, Fresh, hostSide, Working, Looking, PackageStatuses
<1>3. StatusSaysWhy' /\ SameExecutable'
  BY DEF StatusSaysWhy, SameExecutable, Fresh, Looking
<1>4. WalkPlaces' /\ WalkOwes' /\ ListOwes' /\ CompleteMissesNothing'
  BY DEF WalkPlaces, WalkOwes, ListOwes, CompleteMissesNothing, Looking
<1> QED
  BY <1>1, <1>2, <1>3, <1>4 DEF PackagesInv

(* Cover keeps the invariant.                                              *)
LEMMA CoverStep == ASSUME PackagesInv, Cover PROVE PackagesInv'
<1> DEFINE target == [probe |-> Head(probes), status |-> tstatus, issues |-> issues, found |-> found]
<1>1. ppc = "cover" /\ probes \in Seq(Managers) /\ probes # <<>> /\ covered \in Seq(CoveredTargets)
  BY DEF PackagesInv, ProbeShape, Cover, Working
<1>2. Head(probes) \in Managers /\ Tail(probes) \in Seq(Managers)
  BY <1>1
<1>3. target \in CoveredTargets
  BY <1>2 DEF CoveredTargets, PackagesInv, ProbeShape
<1>4. target.status = tstatus /\ target.issues = issues /\ target.found = found
  OBVIOUS
<1> HIDE DEF target
<1>5. covered' = Append(covered, target) /\ probes' = Tail(probes)
  BY DEF Cover, target
<1>6. covered' \in Seq(CoveredTargets)
  BY <1>1, <1>3, <1>5
<1>7. ppc' = "inspect" => probes' # <<>>
  <2>1. CASE Len(probes) = 1
    BY <2>1 DEF Cover
  <2>2. CASE Len(probes) # 1
    <3>1. Len(probes) # 0 /\ Len(Tail(probes)) = Len(probes) - 1 /\ Len(<<>>) = 0 /\ Len(probes) \in Nat
      BY <1>1, HeadTailProperties
    <3> QED
      BY <1>5, <2>2, <3>1
  <2> QED
    BY <2>1, <2>2
<1>8. PackagesExplained'
  <2>1. \A i \in DOMAIN covered' : covered'[i] = target \/ (i \in DOMAIN covered /\ covered'[i] = covered[i])
    BY <1>1, <1>3, <1>5
  <2>2. /\ target.status \in {"partial", "unavailable"} <=> target.issues # {}
        /\ target.status = "unavailable" => target.found = {}
    BY <1>4 DEF PackagesInv, StatusSaysWhy
  <2> QED
    BY <2>1, <2>2 DEF PackagesInv, PackagesExplained
<1>9. Fresh /\ UNCHANGED hostSide /\ ppc' \in {"inspect", "returned"}
  BY DEF Cover
<1> QED
  BY <1>2, <1>5, <1>6, <1>7, <1>8, <1>9, FreshStart

(* AbortPackages keeps the invariant.                                      *)
LEMMA AbortStep == ASSUME PackagesInv, AbortPackages PROVE PackagesInv'
<1>1. covered' = <<>> /\ probes' = <<>> /\ ppc' = "aborted" /\ Fresh /\ UNCHANGED hostSide
  BY DEF AbortPackages
<1>2. PackagesExplained'
  BY <1>1 DEF PackagesExplained
<1> QED
  BY <1>1, <1>2, FreshStart

-----------------------------------------------------------------------------
(* Inspect, Run and Verify *)

(* An issue is added to a target and lowers its status to the given one,   *)
(* or to partial.                                                          *)
LEMMA IssueFacts ==
    ASSUME NEW grade, NEW code, AppendIssue(grade, code), tstatus \in {"complete", "partial"}, grade \in {"partial", "unavailable"}
    PROVE  issues' = issues \cup {code} /\ tstatus' \in {"partial", grade}
BY DEF AppendIssue

(* Inspect keeps the invariant.                                            *)
LEMMA InspectStep == ASSUME PackagesInv, Inspect PROVE PackagesInv'
<1>0. /\ ppc = "inspect" /\ tstatus = "complete" /\ found = {}
      /\ UNCHANGED <<hostSide, probes, ran, since, answer, walk, open, room, loss, covered>> /\ found' = found
  BY DEF PackagesInv, ProbeShape, StatusSaysWhy, Inspect, PackageStatuses
<1>1. InstallerShape'
  BY <1>0 DEF PackagesInv, InstallerShape, hostSide
<1>2. \/ /\ ppc' = "cover" /\ tstatus' = "not_present" /\ issues' = issues /\ exe = 0
      \/ /\ ppc' = "cover" /\ tstatus' \in {"partial", "unavailable"}
         /\ issues' \in {issues \cup {"executable_unavailable"}, issues \cup {"executable_evidence_invalid"}}
      \/ /\ ppc' = "run" /\ inspected' = exe /\ exe # 0
         /\ \/ tstatus' = tstatus /\ issues' = issues
            \/ tstatus' = "partial" /\ issues' = issues \cup {"signature_unavailable"}
  <2>1. CASE exe = 0
    BY <1>0, <2>1 DEF Inspect
  <2>2. CASE exe # 0
    <3>1. CASE AppendIssue("unavailable", "executable_unavailable") /\ ppc' = "cover"
      BY <1>0, <3>1, IssueFacts
    <3>2. CASE AppendIssue("partial", "executable_evidence_invalid") /\ ppc' = "cover"
      BY <1>0, <3>2, IssueFacts
    <3>3. CASE inspected' = exe /\ ppc' = "run" /\ UNCHANGED <<issues, tstatus>>
      BY <3>3, <2>2
    <3>4. CASE inspected' = exe /\ ppc' = "run" /\ AppendIssue("partial", "signature_unavailable")
      BY <1>0, <3>4, <2>2, IssueFacts
    <3> QED
      BY <2>2, <3>1, <3>2, <3>3, <3>4 DEF Inspect
  <2> QED
    BY <2>1, <2>2
<1>3. ProbeShape'
  BY <1>0, <1>2 DEF PackagesInv, ProbeShape, hostSide, PackageIssues, PackageStatuses, Working, Looking
<1>4. StatusSaysWhy'
  BY <1>0, <1>2 DEF PackagesInv, StatusSaysWhy
<1>5. SameExecutable'
  BY <1>0, <1>2 DEF PackagesInv, SameExecutable, InstallerShape, hostSide, Looking
<1>6. PackagesExplained'
  BY <1>0 DEF PackagesInv, PackagesExplained
<1>7. WalkPlaces' /\ WalkOwes' /\ ListOwes'
  BY <1>0, <1>2 DEF WalkPlaces, WalkOwes, ListOwes, Looking
<1>8. CompleteMissesNothing'
  BY <1>0, <1>2 DEF CompleteMissesNothing
<1> QED
  BY <1>1, <1>3, <1>4, <1>5, <1>6, <1>7, <1>8 DEF PackagesInv

(* RunProbe keeps the invariant.                                           *)
LEMMA RunStep == ASSUME PackagesInv, RunProbe PROVE PackagesInv'
<1>0. /\ ppc = "run" /\ ppc' = "verify" /\ ran' = exe /\ answer' \in {"failed"} \cup Runs
      /\ UNCHANGED <<hostSide, probes, inspected, since, walk, open, room, found, loss, issues, tstatus, covered>>
  BY DEF RunProbe, Runs
<1>1. InstallerShape' /\ StatusSaysWhy' /\ PackagesExplained'
  BY <1>0 DEF PackagesInv, InstallerShape, hostSide, StatusSaysWhy, PackagesExplained
<1>2. ProbeShape'
  BY <1>0 DEF PackagesInv, ProbeShape, hostSide, Working, Looking
<1>3. SameExecutable'
  BY <1>0 DEF PackagesInv, SameExecutable, hostSide, Looking
<1>4. WalkPlaces' /\ WalkOwes' /\ ListOwes' /\ CompleteMissesNothing'
  BY <1>0 DEF WalkPlaces, WalkOwes, ListOwes, CompleteMissesNothing, Looking
<1> QED
  BY <1>1, <1>2, <1>3, <1>4 DEF PackagesInv

(* VerifyProbe keeps the invariant.                                        *)
LEMMA VerifyStep == ASSUME PackagesInv, VerifyProbe PROVE PackagesInv'
<1>0. /\ ppc = "verify" /\ tstatus \in {"complete", "partial"} /\ found = {}
      /\ UNCHANGED <<hostSide, probes, inspected, ran, since, answer, walk, open, room, found, loss, covered>>
      /\ answer \in {"failed"} \cup Runs
  BY DEF PackagesInv, ProbeShape, StatusSaysWhy, VerifyProbe, PackageStatuses
<1>1. \/ /\ ppc' = "parse" /\ answer # "failed"
         /\ \/ exe = inspected /\ tstatus' = tstatus /\ issues' = issues
            \/ tstatus' = "partial" /\ issues' = issues \cup {"executable_replaced"}
      \/ /\ ppc' = "cover" /\ tstatus' \in {"partial", "unavailable"}
         /\ issues' \in {issues \cup {"probe_failed"}, issues \cup {"executable_replaced"} \cup {"probe_failed"}, issues \cup {"docker_unavailable"}}
  <2>1. CASE answer # "failed"
    BY <2>1 DEF VerifyProbe
  <2>2. CASE answer = "failed"
    <3>1. CASE AppendIssue("unavailable", "docker_unavailable")
      BY <1>0, <2>2, <3>1, IssueFacts DEF VerifyProbe
    <3>2. CASE ~AppendIssue("unavailable", "docker_unavailable")
      BY <1>0, <2>2, <3>2 DEF VerifyProbe
    <3> QED
      BY <3>1, <3>2
  <2> QED
    BY <2>1, <2>2
<1>2. InstallerShape' /\ PackagesExplained'
  BY <1>0 DEF PackagesInv, InstallerShape, hostSide, PackagesExplained
<1>3. ProbeShape'
  BY <1>0, <1>1 DEF PackagesInv, ProbeShape, hostSide, PackageIssues, PackageStatuses, Working, Looking
<1>4. StatusSaysWhy'
  BY <1>0, <1>1 DEF PackagesInv, StatusSaysWhy
<1>5. SameExecutable'
  BY <1>0, <1>1 DEF PackagesInv, SameExecutable, hostSide, Looking
<1>6. WalkPlaces' /\ WalkOwes' /\ ListOwes' /\ CompleteMissesNothing'
  BY <1>0, <1>1 DEF WalkPlaces, WalkOwes, ListOwes, CompleteMissesNothing, Looking
<1> QED
  BY <1>1, <1>2, <1>3, <1>4, <1>5, <1>6 DEF PackagesInv

-----------------------------------------------------------------------------
(* The parse of a list, and the walk of a directory *)

(* What the parsers keep, and what they say is lost.                       *)
LEMMA ListParsed ==
    ASSUME NEW probe \in Managers \ {"npm", "go"}, NEW text \in Seq(LineClasses)
    PROVE  /\ ParseList(probe, text).found \subseteq Nat
           /\ ParseList(probe, text).loss \subseteq {"parser", "access"}
           /\ ParseList(probe, text).loss = {} =>
                 /\ Kept(text, {"good"}) \subseteq ParseList(probe, text).found
                 /\ "broken" \notin {text[i] : i \in DOMAIN text}
<1> DEFINE Reads(p) == /\ p.found \subseteq Nat /\ p.loss \subseteq {"parser", "access"}
                       /\ p.loss = {} => Kept(text, {"good"}) \subseteq p.found /\ "broken" \notin {text[i] : i \in DOMAIN text}
<1>1. DOMAIN text \subseteq Nat
  OBVIOUS
<1>2. ASSUME NEW good \in {{"good"}, {"good", "indented"}}
      PROVE  Reads(Parsed(text, good, {"short", "broken"}))
  <2>1. Kept(text, {"good"}) \subseteq Kept(text, good) /\ Kept(text, good) \subseteq Nat
    BY <1>1 DEF Kept
  <2>2. Kept(text, {"short", "broken"}) = {} => "broken" \notin {text[i] : i \in DOMAIN text}
    BY DEF Kept
  <2> QED
    BY <2>1, <2>2 DEF Parsed
<1>3. Reads(ParsePip(text))
  <2>1. CASE text = <<>> \/ "broken" \in {text[i] : i \in DOMAIN text}
    BY <2>1 DEF ParsePip
  <2>2. CASE ~(text = <<>> \/ "broken" \in {text[i] : i \in DOMAIN text})
    <3>1. Kept(text, {"good"}) \subseteq Kept(text, {"good", "indented"}) /\ Kept(text, {"good", "indented"}) \subseteq Nat
      BY <1>1 DEF Kept
    <3> QED
      BY <2>2, <3>1 DEF ParsePip, Parsed
  <2> QED
    BY <2>1, <2>2
<1>4. Reads(ParseList(probe, text))
  <2> HIDE DEF Reads
  <2> QED
    BY <1>2, <1>3 DEF ParseList, ParsePipx, ParseUV, ParseCargo, ParseBrew, ParseDocker, Managers
<1> QED
  BY <1>4

(* BeginParse keeps the invariant.                                         *)
LEMMA ParseStep == ASSUME PackagesInv, BeginParse PROVE PackagesInv'
<1>0. /\ ppc = "parse" /\ found = {} /\ answer \in Runs /\ Head(probes) \in Managers
      /\ UNCHANGED <<hostSide, probes, inspected, ran, since, answer, walk, room, issues, tstatus, covered>>
  BY DEF PackagesInv, ProbeShape, StatusSaysWhy, BeginParse, Working
<1>1. CASE Head(probes) \in {"npm", "go"}
  <2>1. ppc' = "list" /\ open' = None /\ found' = found /\ loss' = loss
    BY <1>1 DEF BeginParse
  <2>2. InstallerShape' /\ PackagesExplained' /\ StatusSaysWhy' /\ SameExecutable'
    BY <1>0, <2>1 DEF PackagesInv, InstallerShape, hostSide, PackagesExplained, StatusSaysWhy, SameExecutable, Looking
  <2>3. ProbeShape'
    BY <1>0, <2>1 DEF PackagesInv, ProbeShape, hostSide, Working, Looking
  <2>4. WalkPlaces' /\ WalkOwes' /\ ListOwes' /\ CompleteMissesNothing'
    BY <1>0, <1>1, <2>1 DEF WalkPlaces, WalkOwes, Waiting, ListOwes, CompleteMissesNothing
  <2> QED
    BY <2>2, <2>3, <2>4 DEF PackagesInv
<1>2. CASE Head(probes) \notin {"npm", "go"}
  <2>1. PICK text \in Seq(LineClasses) : text = answer[1]
    BY <1>0, PackagesAssumption DEF Runs
  <2>2. ppc' = "append" /\ open' = open /\ found' = ParseList(Head(probes), text).found /\ loss' = ParseList(Head(probes), text).loss
    BY <1>2, <2>1 DEF BeginParse
  <2>3. /\ found' \subseteq Nat /\ loss' \subseteq {"parser", "access"}
        /\ loss' = {} => Kept(text, {"good"}) \subseteq found' /\ "broken" \notin {text[i] : i \in DOMAIN text}
    BY <1>0, <1>2, <2>2, ListParsed
  <2>4. InstallerShape' /\ PackagesExplained' /\ StatusSaysWhy' /\ SameExecutable'
    BY <1>0, <2>2 DEF PackagesInv, InstallerShape, hostSide, PackagesExplained, StatusSaysWhy, SameExecutable, Looking
  <2>5. ProbeShape'
    BY <1>0, <2>2, <2>3 DEF PackagesInv, ProbeShape, hostSide, Working, Looking, Things
  <2>6. ListOwes'
    BY <1>0, <2>1, <2>3 DEF ListOwes
  <2>7. WalkPlaces' /\ WalkOwes' /\ CompleteMissesNothing'
    BY <1>0, <1>2, <2>2 DEF WalkPlaces, WalkOwes, CompleteMissesNothing, Looking
  <2> QED
    BY <2>4, <2>5, <2>6, <2>7 DEF PackagesInv
<1> QED
  BY <1>1, <1>2

(* While the directory is walked nothing but the walk changes.             *)
LEMMA WalkStep ==
    ASSUME PackagesInv, ppc \in Looking, ppc' \in Looking \cup {"append"},
           UNCHANGED <<hostSide, probes, inspected, ran, since, answer, issues, tstatus, covered>>,
           walk' \subseteq Entries, open' \in Entries \cup {None}, room' \in 0..EntryLimit,
           loss' \subseteq {"parser", "access"}, found' \subseteq Things, WalkPlaces', WalkOwes'
    PROVE  PackagesInv'
<1>1. InstallerShape' /\ PackagesExplained' /\ StatusSaysWhy' /\ SameExecutable'
  BY DEF PackagesInv, InstallerShape, hostSide, PackagesExplained, StatusSaysWhy, SameExecutable, Looking
<1>2. ProbeShape'
  BY DEF PackagesInv, ProbeShape, hostSide, Working, Looking
<1>3. Head(probes) \in {"npm", "go"} /\ ListOwes' /\ CompleteMissesNothing'
  BY DEF PackagesInv, WalkPlaces, ListOwes, CompleteMissesNothing, Looking
<1> QED
  BY <1>1, <1>2, <1>3 DEF PackagesInv

(* What is sought depends on the directory, the probe and the time it      *)
(* began only.                                                             *)
LEMMA SoughtStays ==
    ASSUME UNCHANGED <<hostSide, probes, since>>
    PROVE  Sought' = Sought
BY DEF Sought, Steady, hostSide, IsScope, InScope

(* What is sought is an entry of the listed directory that has been there  *)
(* since the probe began.                                                  *)
LEMMA SoughtKnown ==
    ASSUME PackagesInv, NEW e \in Sought
    PROVE  /\ e \in Entries /\ ~IsScope(e) /\ tree[e] = IF Head(probes) = "go" THEN "file" ELSE "package"
           /\ stamp[e] <= since
           /\ Head(probes) = "go" => Scope[e] = None
           /\ Scope[e] # None => Scope[e] \in Entries /\ Scope[Scope[e]] = None /\ tree[Scope[e]] = "package"
BY PackagesAssumption DEF Sought, Steady

(* Either all of a directory is to be looked at, or the loss is noted.     *)
LEMMA DirectoryRead ==
    ASSUME NEW inside \in SUBSET Entries, ReadDirectory(inside),
           walk \subseteq Entries, room \in 0..EntryLimit, loss \subseteq {"parser", "access"}
    PROVE  /\ walk' \subseteq Entries /\ room' \in 0..EntryLimit
           /\ loss' \subseteq {"parser", "access"} /\ loss \subseteq loss' /\ walk \subseteq walk'
           /\ loss' = {} => inside \subseteq walk'
<1>1. \A part \in SUBSET Entries : Cardinality(part) \in Nat
  BY PackagesAssumption, FS_Subset, FS_CardinalityType
<1>2. CASE /\ Cardinality(inside) <= room /\ walk' = walk \cup inside
           /\ room' = room - Cardinality(inside) /\ UNCHANGED loss
  BY <1>1, <1>2, PackagesAssumption
<1>3. CASE room' = 0 /\ loss' = loss \cup {"parser"} /\ UNCHANGED walk
  BY <1>3, PackagesAssumption
<1>4. ASSUME NEW part \in SUBSET inside, Cardinality(part) <= room, walk' = walk \cup part,
             room' = room - Cardinality(part), loss' = loss \cup {"access"}
      PROVE  /\ walk' \subseteq Entries /\ room' \in 0..EntryLimit
             /\ loss' \subseteq {"parser", "access"} /\ loss \subseteq loss' /\ walk \subseteq walk'
             /\ loss' = {} => inside \subseteq walk'
  BY <1>1, <1>4, PackagesAssumption
<1> QED
  BY <1>2, <1>3, <1>4 DEF ReadDirectory

(* ListPackages keeps the invariant.                                       *)
LEMMA ListPackagesStep == ASSUME PackagesInv, ListPackages PROVE PackagesInv'
<1> DEFINE inside == {e \in (IF open = None THEN TopLevel ELSE InScope(open)) : tree[e] # "none"}
<1>1. /\ ppc = "list" /\ ppc' = "entry" /\ open' = None /\ ReadDirectory(inside)
      /\ UNCHANGED <<hostSide, probes, inspected, ran, since, answer, found, issues, tstatus, covered>>
  BY DEF ListPackages
<1>2. inside \in SUBSET Entries
  BY DEF TopLevel, InScope
<1>3. ProbeShape /\ WalkPlaces /\ WalkOwes
  BY DEF PackagesInv
<1> HIDE DEF inside
<1>4. /\ walk' \subseteq Entries /\ room' \in 0..EntryLimit
      /\ loss' \subseteq {"parser", "access"} /\ loss \subseteq loss' /\ walk \subseteq walk'
      /\ loss' = {} => inside \subseteq walk'
  BY <1>1, <1>2, <1>3, DirectoryRead DEF ProbeShape
<1>5. WalkPlaces'
  BY <1>1, <1>3 DEF WalkPlaces, Looking
<1>6. WalkOwes'
  <2> SUFFICES ASSUME loss' = {}, NEW e \in Sought PROVE e \in found \/ Waiting(e)'
    BY <1>1, SoughtStays DEF WalkOwes
  <2>1. e \in found \/ Waiting(e)
    BY <1>1, <1>3, <1>4 DEF WalkOwes, WalkPlaces, Looking
  <2>2. e \in Entries /\ tree[e] # "none" /\ (Scope[e] # None => Scope[e] \in Entries /\ Scope[Scope[e]] = None /\ tree[Scope[e]] # "none")
    BY SoughtKnown
  <2>3. CASE open = None
    <3>1. CASE Scope[e] = None
      <4>1. e \in inside
        BY <2>2, <2>3, <3>1 DEF inside, TopLevel
      <4> QED
        BY <1>4, <4>1 DEF Waiting
    <3>2. CASE Scope[e] # None
      <4>1. Scope[e] \in inside
        BY <2>2, <2>3, <3>2 DEF inside, TopLevel
      <4> QED
        BY <1>4, <3>2, <4>1 DEF Waiting
    <3> QED
      BY <3>1, <3>2
  <2>4. CASE open # None /\ Scope[e] # None /\ open = Scope[e]
    <3>1. e \in inside
      BY <2>2, <2>4 DEF inside, InScope
    <3> QED
      BY <1>4, <3>1 DEF Waiting
  <2>5. CASE e \in found \/ e \in walk \/ (Scope[e] # None /\ Scope[e] \in walk)
    BY <1>4, <2>5 DEF Waiting
  <2> QED
    BY <1>1, <2>1, <2>3, <2>4, <2>5 DEF Waiting
<1> QED
  BY <1>1, <1>3, <1>4, <1>5, <1>6, WalkStep DEF ProbeShape, Looking

(* LookEntry keeps the invariant.                                          *)
LEMMA LookStep == ASSUME PackagesInv, LookEntry PROVE PackagesInv'
<1>1. PICK e \in walk :
        /\ walk' = walk \ {e}
        /\ \/ loss' # {} /\ loss' \subseteq loss \cup {"parser", "access"} /\ UNCHANGED <<ppc, open, found>>
           \/ /\ tree[e] \in {"package", "broken"} /\ Head(probes) # "go"
              /\ ppc' = "open" /\ open' = e /\ UNCHANGED <<loss, found>>
           \/ tree[e] = "file" /\ Head(probes) = "go" /\ found' = found \cup {e} /\ UNCHANGED <<ppc, open, loss>>
           \/ /\ (tree[e] = "package" => Head(probes) = "go") /\ (tree[e] = "file" => Head(probes) # "go")
              /\ UNCHANGED <<ppc, open, loss, found>>
  BY DEF LookEntry, Lost
<1>2. /\ ppc = "entry"
      /\ UNCHANGED <<hostSide, probes, inspected, ran, since, answer, room, issues, tstatus, covered>>
  BY DEF LookEntry
<1>3. ProbeShape /\ WalkPlaces /\ WalkOwes
  BY DEF PackagesInv
<1>4. e \in Entries /\ walk' \subseteq Entries /\ loss' \subseteq {"parser", "access"} /\ found' \subseteq Things
      /\ open' \in Entries \cup {None} /\ ppc' \in {"entry", "open"}
  BY <1>1, <1>2, <1>3 DEF ProbeShape, Things
<1>5. WalkPlaces'
  BY <1>1, <1>2, <1>3, <1>4 DEF WalkPlaces, Looking
<1>6. WalkOwes'
  <2> SUFFICES ASSUME loss' = {}, NEW x \in Sought PROVE x \in found' \/ Waiting(x)'
    BY <1>2, SoughtStays DEF WalkOwes
  <2>1. x \in found \/ x \in walk \/ (Scope[x] # None /\ Scope[x] \in walk)
    BY <1>1, <1>2, <1>3 DEF WalkOwes, WalkPlaces, Looking, Waiting
  <2>2. /\ tree[x] = IF Head(probes) = "go" THEN "file" ELSE "package"
        /\ Head(probes) = "go" => Scope[x] = None
        /\ Scope[x] # None => tree[Scope[x]] = "package"
    BY SoughtKnown
  <2>3. CASE x = e
    BY <1>1, <1>2, <2>2, <2>3 DEF Waiting
  <2>4. CASE Scope[x] # None /\ Scope[x] = e
    BY <1>1, <1>2, <2>2, <2>4 DEF Waiting
  <2>5. CASE x # e /\ ~(Scope[x] # None /\ Scope[x] = e)
    BY <1>1, <2>1, <2>5 DEF Waiting
  <2> QED
    BY <2>3, <2>4, <2>5
<1> QED
  BY <1>2, <1>3, <1>4, <1>5, <1>6, WalkStep DEF ProbeShape, Looking

(* OpenEntry keeps the invariant.                                          *)
LEMMA OpenStep == ASSUME PackagesInv, OpenEntry PROVE PackagesInv'
<1>1. /\ ppc = "open"
      /\ UNCHANGED <<hostSide, probes, inspected, ran, since, answer, walk, room, found, issues, tstatus, covered>>
      /\ \/ /\ ppc' = (IF IsScope(open) THEN "list" ELSE "manifest") /\ UNCHANGED <<open, loss>>
         \/ loss' # {} /\ loss' \subseteq loss \cup {"parser", "access"} /\ ppc' = "entry" /\ open' = None
  BY DEF OpenEntry, Lost
<1>2. ProbeShape /\ WalkPlaces /\ WalkOwes
  BY DEF PackagesInv
<1>3. WalkPlaces'
  BY <1>1, <1>2 DEF WalkPlaces, Looking, IsScope, InScope
<1>4. WalkOwes'
  <2> SUFFICES ASSUME loss' = {}, NEW x \in Sought PROVE x \in found' \/ Waiting(x)'
    BY <1>1, SoughtStays DEF WalkOwes
  <2>1. x \in found \/ Waiting(x)
    BY <1>1, <1>2 DEF WalkOwes, WalkPlaces, Looking
  <2>2. ~IsScope(x) /\ x \in Entries /\ (Scope[x] # None => Scope[x] \in Entries)
    BY SoughtKnown
  <2>3. Scope[x] # None => IsScope(Scope[x])
    BY <2>2 DEF IsScope, InScope
  <2> QED
    BY <1>1, <2>1, <2>2, <2>3 DEF Waiting
<1> QED
  BY <1>1, <1>2, <1>3, <1>4, WalkStep DEF ProbeShape, Looking

(* ReadManifest keeps the invariant.                                       *)
LEMMA ManifestStep == ASSUME PackagesInv, ReadManifest PROVE PackagesInv'
<1>1. /\ ppc = "manifest" /\ ppc' = "entry" /\ open' = None
      /\ UNCHANGED <<hostSide, probes, inspected, ran, since, answer, walk, room, issues, tstatus, covered>>
      /\ \/ found' = found \cup {open} /\ UNCHANGED loss
         \/ loss' # {} /\ loss' \subseteq loss \cup {"parser", "access"} /\ UNCHANGED found
  BY DEF ReadManifest, Lost
<1>2. ProbeShape /\ WalkPlaces /\ WalkOwes
  BY DEF PackagesInv
<1>3. WalkPlaces'
  BY <1>1, <1>2 DEF WalkPlaces, Looking
<1>4. WalkOwes'
  <2> SUFFICES ASSUME loss' = {}, NEW x \in Sought PROVE x \in found' \/ Waiting(x)'
    BY <1>1, SoughtStays DEF WalkOwes
  <2>1. x \in found \/ Waiting(x)
    BY <1>1, <1>2 DEF WalkOwes, WalkPlaces, Looking
  <2> QED
    BY <1>1, <2>1 DEF Waiting
<1>5. found' \subseteq Things /\ loss' \subseteq {"parser", "access"}
  BY <1>1, <1>2 DEF ProbeShape, WalkPlaces, Things
<1> QED
  BY <1>1, <1>2, <1>3, <1>4, <1>5, WalkStep DEF ProbeShape, Looking

(* EndPackageWalk keeps the invariant.                                     *)
LEMMA PackageEnds == ASSUME PackagesInv, EndPackageWalk PROVE PackagesInv'
<1>1. /\ ppc = "entry" /\ walk = {} /\ ppc' = "append" /\ UNCHANGED <<hostSide, probes, probeState, covered>>
  BY DEF EndPackageWalk
<1>2. ProbeShape /\ WalkPlaces /\ WalkOwes
  BY DEF PackagesInv
<1>3. WalkPlaces'
  BY <1>1 DEF WalkPlaces, Looking, probeState
<1>4. WalkOwes'
  <2> SUFFICES ASSUME loss = {}, NEW x \in Sought PROVE x \in found \/ Waiting(x)'
    BY <1>1, SoughtStays DEF WalkOwes, probeState
  <2> QED
    BY <1>1, <1>2 DEF WalkOwes, WalkPlaces, Looking, Waiting
<1> QED
  BY <1>1, <1>2, <1>3, <1>4, WalkStep DEF ProbeShape, Looking, probeState

(* A target is complete only if nothing was lost on the way.               *)
LEMMA AppendStep == ASSUME PackagesInv, AppendAssets PROVE PackagesInv'
<1>1. PICK safe \in SUBSET found :
        /\ found' = safe
        /\ \/ /\ safe = found /\ loss \cap {"access", "parser"} = {} /\ answer[2] # "cut"
              /\ issues' = issues /\ tstatus' = tstatus
           \/ /\ tstatus' = "partial" /\ issues' # {} /\ issues' \subseteq issues \cup PackageIssues
  BY DEF AppendAssets, PackageIssues
<1>2. /\ ppc = "append" /\ ppc' = "cover" /\ answer \in Runs /\ tstatus \in {"complete", "partial"}
      /\ UNCHANGED <<hostSide, probes, inspected, ran, since, answer, walk, open, room, loss, covered>>
  BY DEF PackagesInv, ProbeShape, StatusSaysWhy, AppendAssets, PackageStatuses
<1>3. ProbeShape /\ WalkPlaces /\ WalkOwes /\ ListOwes
  BY DEF PackagesInv
<1>4. ProbeShape'
  BY <1>1, <1>2, <1>3 DEF ProbeShape, hostSide, Working, Looking, PackageStatuses
<1>5. InstallerShape' /\ PackagesExplained'
  BY <1>2 DEF PackagesInv, InstallerShape, hostSide, PackagesExplained
<1>6. StatusSaysWhy' /\ SameExecutable'
  BY <1>1, <1>2 DEF PackagesInv, StatusSaysWhy, SameExecutable, Looking
<1>7. WalkPlaces' /\ WalkOwes' /\ ListOwes'
  BY <1>2 DEF WalkPlaces, WalkOwes, ListOwes, Looking
<1>8. CompleteMissesNothing'
  <2> SUFFICES ASSUME tstatus' = "complete" PROVE CompleteMissesNothing'
    BY DEF CompleteMissesNothing
  <2>1. found' = found /\ loss = {} /\ answer[2] = "whole"
    BY <1>1, <1>2, <1>3 DEF ProbeShape, Runs
  <2>2. \A kind : Steady(kind)' = Steady(kind)
    BY <1>2 DEF Steady, hostSide, IsScope, InScope
  <2>3. CASE Head(probes) \in {"npm", "go"}
    <3>1. \A e \in Sought : e \in found \/ Waiting(e)
      BY <1>2, <1>3, <2>1, <2>3 DEF WalkOwes
    <3>2. walk = {} /\ \A e : ~Waiting(e)
      BY <1>2, <1>3, <2>3 DEF WalkPlaces, Waiting
    <3> QED
      BY <1>2, <2>1, <2>2, <2>3, <3>1, <3>2 DEF CompleteMissesNothing, Sought
  <2>4. CASE Head(probes) \notin {"npm", "go"}
    BY <1>2, <1>3, <2>1, <2>4 DEF CompleteMissesNothing, ListOwes, Kept
  <2> QED
    BY <2>3, <2>4
<1> QED
  BY <1>4, <1>5, <1>6, <1>7, <1>8 DEF PackagesInv

(* Every step of the package collector keeps the invariant.                *)
LEMMA PackagesNext_Inv == PackagesInv /\ [PackagesNext]_packagesVars => PackagesInv'
<1> SUFFICES ASSUME PackagesInv, [PackagesNext]_packagesVars PROVE PackagesInv'
  OBVIOUS
<1>1. CASE UNCHANGED packagesVars
  <2> USE <1>1 DEF packagesVars, hostSide, probeState
  <2>1. InstallerShape' /\ ProbeShape'
    BY DEF PackagesInv, InstallerShape, ProbeShape
  <2>2. StatusSaysWhy' /\ SameExecutable' /\ PackagesExplained'
    BY DEF PackagesInv, StatusSaysWhy, SameExecutable, PackagesExplained
  <2>3. WalkPlaces' /\ ListOwes'
    BY DEF PackagesInv, WalkPlaces, ListOwes, IsScope, InScope
  <2>4. \A kind : Steady(kind)' = Steady(kind)
    BY DEF Steady, IsScope, InScope
  <2>5. WalkOwes'
    <3>1. Sought' = Sought /\ \A e : Waiting(e)' = Waiting(e)
      BY <2>4 DEF Sought, Waiting
    <3> QED
      BY <3>1 DEF PackagesInv, WalkOwes
  <2>6. CompleteMissesNothing'
    BY <2>4 DEF PackagesInv, CompleteMissesNothing, Kept
  <2> QED
    BY <2>1, <2>2, <2>3, <2>5, <2>6 DEF PackagesInv
<1> QED
  BY <1>1, InstallStep, CoverStep, AbortStep, InspectStep, RunStep, VerifyStep, ParseStep, ListPackagesStep, LookStep,
     OpenStep, ManifestStep, PackageEnds, AppendStep DEF PackagesNext

-----------------------------------------------------------------------------
(* The MCP servers *)

McpStatuses == {"complete", "partial", "not_present", "unavailable", "unsupported"}
McpErrors ==
    {"invalid_local_target", "unsupported_target", "rooted_access_unavailable", "config_unavailable", "config_invalid"}
        \cup DOMAIN Servers
McpTargetRecords ==
    [id : Ids, ref : {"home", "project1", "project2"}, status : McpStatuses, servers : SUBSET DOMAIN Servers, errors : SUBSET McpErrors]
AtFile == {"instance", "read", "collect"}

McpFilesShape ==
    /\ config = [at \in Places |-> config[at]] /\ \A at \in Places : config[at] \in DocumentsAt(at)
    /\ edited \in [Places -> 0..MaxConfigEdits] /\ configEdits \in 0..MaxConfigEdits
    /\ \A at \in Places : edited[at] <= configEdits
    /\ rooted \in {"none", "files", "home"}

McpShape ==
    /\ mpc \in {"next", "returned", "aborted"} \cup AtFile /\ phase \in {1, 2}
    /\ handoff \in Handoffs \cup {<<>>}
    /\ declared \subseteq Ids /\ instances \subseteq Places
    /\ mcpTargets \in Seq(McpTargetRecords)

(* The file at work, and what is known of the bytes that were read.        *)
FileAtWork ==
    mpc \in {"read", "collect"} =>
        /\ began.place \in instances /\ began.time \in Nat /\ began.time <= edited[began.place]
        /\ mpc = "read" => contents \in DocumentsAt(began.place)
        /\ mpc = "collect" => status \in McpStatuses \ {"unsupported"}
        /\ mpc = "collect" /\ status = "complete" => contents \in DocumentsAt(began.place) \ {None}
        /\ mpc = "collect" /\ status \in {"not_present", "unavailable"} => Declarations[began.place[1]].scope # "project"
        /\ (mpc = "read" \/ status = "complete") /\ edited[began.place] = began.time => contents = config[began.place]

(* A declaration is left, answered or at work; a file is left or answered. *)
AnsweredIds == {mcpTargets[i].id : i \in DOMAIN mcpTargets}
WorkedIds == {at[1] : at \in instances}
AnswersTold ==
    mpc # "aborted" =>
        /\ Ids = declared \cup AnsweredIds \cup WorkedIds
        /\ declared \cap (AnsweredIds \cup WorkedIds) = {}
        /\ mpc \notin AtFile => instances = {}
        /\ phase = 2 => \A id \in declared : PhaseOf(id) = 2
        /\ mpc = "returned" => declared = {}
        /\ \A i \in DOMAIN mcpTargets : <<mcpTargets[i].id, mcpTargets[i].ref>> \notin instances
        /\ \A i, j \in DOMAIN mcpTargets : i # j => <<mcpTargets[i].id, mcpTargets[i].ref>> # <<mcpTargets[j].id, mcpTargets[j].ref>>

(* A file that was handed over with a declaration that was taken is at     *)
(* work or answered, if it was accepted.                                   *)
HandedTold(i) ==
    IF handoff[i].valid THEN <<handoff[i].id, handoff[i].ref>> \in instances \/ Answered(handoff[i].id, handoff[i].ref)
    ELSE RefusalTold(handoff[i].id) \/ ValidInstances(handoff[i].id) # {}
HandoffTold == \A i \in DOMAIN handoff : handoff[i].id \notin declared => HandedTold(i)

McpInv == McpFilesShape /\ McpShape /\ FileAtWork /\ AnswersTold /\ HandoffTold

-----------------------------------------------------------------------------
(* A place is that of a supported declaration, in the home directory       *)
(* unless the declaration expands to projects.                             *)
LEMMA PlacesAre ==
    ASSUME NEW at \in Places
    PROVE  /\ at = <<at[1], at[2]>> /\ at[1] \in Ids /\ at[2] \in {"home", "project1", "project2"}
           /\ Declarations[at[1]].format \in {"json", "toml"}
           /\ DocumentsAt(at) = Documents[Declarations[at[1]].format]
           /\ at[2] # "home" <=> Expandable(at[1])
BY McpAssumption DEF Places, DocumentsAt, Expandable

(* A supported declaration has its places: in the home directory or in     *)
(* each project.                                                           *)
LEMMA PlaceOf ==
    ASSUME NEW id \in Ids, NEW r \in {"home", "project1", "project2"}, Declarations[id].supported,
           (r # "home") = Expandable(id)
    PROVE  <<id, r>> \in Places
BY DEF Places

(* What discovery hands over is a supported, expandable declaration.       *)
LEMMA HandedOver ==
    ASSUME handoff \in Handoffs \cup {<<>>}, NEW i \in DOMAIN handoff
    PROVE  handoff[i].id \in Ids /\ Expandable(handoff[i].id) /\ handoff[i].ref \in {"project1", "project2"}
<1> DEFINE Handed == [id : {id \in Ids : Expandable(id)}, ref : {"project1", "project2"}, valid : BOOLEAN]
<1>1. handoff \in Seq(Handed)
  BY McpAssumption
<1>2. handoff[i] \in Handed
  <2> HIDE DEF Handed
  <2> QED
    BY <1>1
<1> QED
  BY <1>2

(* What the invariant says of configurations in the words of the           *)
(* properties.                                                             *)
LEMMA McpInvMeans == McpInv => McpTypeOK /\ EveryDeclarationAnswered
<1> SUFFICES ASSUME McpInv PROVE McpTypeOK /\ EveryDeclarationAnswered
  OBVIOUS
<1>1. \A i \in DOMAIN mcpTargets : mcpTargets[i] \in McpTargetRecords
  BY DEF McpInv, McpShape
<1>2. McpTypeOK
  BY <1>1 DEF McpInv, McpFilesShape, McpShape, McpTypeOK, McpTargetRecords, McpStatuses
<1>3. EveryDeclarationAnswered
  BY DEF McpInv, AnswersTold, EveryDeclarationAnswered, AnsweredIds, WorkedIds, AtFile
<1> QED
  BY <1>2, <1>3

(* It holds before the first declaration is taken.                         *)
LEMMA McpInit_Inv == McpInit => McpInv
<1> SUFFICES ASSUME McpInit PROVE McpInv
  OBVIOUS
<1>1. McpFilesShape
  <2>1. config = [at \in Places |-> config[at]] /\ \A at \in Places : config[at] \in DocumentsAt(at)
    BY DEF McpInit
  <2>2. edited = [at \in Places |-> 0] /\ configEdits = 0 /\ rooted \in {"none", "files", "home"}
    BY DEF McpInit
  <2> QED
    BY <2>1, <2>2, McpAssumption DEF McpFilesShape
<1>2. McpShape
  BY DEF McpInit, McpShape
<1>3. FileAtWork
  BY DEF McpInit, FileAtWork
<1>4. AnswersTold
  BY DEF McpInit, AnswersTold, AnsweredIds, WorkedIds
<1>5. HandoffTold
  <2>1. declared = Ids /\ handoff \in Handoffs \cup {<<>>}
    BY DEF McpInit
  <2> QED
    BY <2>1, HandedOver DEF HandoffTold
<1> QED
  BY <1>1, <1>2, <1>3, <1>4, <1>5 DEF McpInv

-----------------------------------------------------------------------------
(* A target more: the old ones stay.                                       *)
LEMMA TargetAdded ==
    ASSUME mcpTargets \in Seq(McpTargetRecords), NEW t \in McpTargetRecords, AddTarget(t)
    PROVE  /\ mcpTargets' \in Seq(McpTargetRecords)
           /\ Len(mcpTargets) + 1 \in DOMAIN mcpTargets' /\ mcpTargets'[Len(mcpTargets) + 1] = t
           /\ \A i \in DOMAIN mcpTargets : i \in DOMAIN mcpTargets' /\ mcpTargets'[i] = mcpTargets[i]
           /\ \A i \in DOMAIN mcpTargets' : i \in DOMAIN mcpTargets \/ i = Len(mcpTargets) + 1
           /\ AnsweredIds' = AnsweredIds \cup {t.id}
<1> USE DEF AddTarget
<1>1. /\ mcpTargets' \in Seq(McpTargetRecords)
      /\ Len(mcpTargets) + 1 \in DOMAIN mcpTargets' /\ mcpTargets'[Len(mcpTargets) + 1] = t
      /\ \A i \in DOMAIN mcpTargets : i \in DOMAIN mcpTargets' /\ mcpTargets'[i] = mcpTargets[i]
      /\ \A i \in DOMAIN mcpTargets' : i \in DOMAIN mcpTargets \/ i = Len(mcpTargets) + 1
  OBVIOUS
<1>2. AnsweredIds' = AnsweredIds \cup {t.id}
  BY <1>1 DEF AnsweredIds
<1> QED
  BY <1>1, <1>2

(* A target for a pair that has none.                                      *)
LEMMA PairAdded ==
    ASSUME mcpTargets \in Seq(McpTargetRecords), NEW t \in McpTargetRecords, AddTarget(t),
           \A i \in DOMAIN mcpTargets : <<mcpTargets[i].id, mcpTargets[i].ref>> # <<t.id, t.ref>>,
           \A i, j \in DOMAIN mcpTargets : i # j => <<mcpTargets[i].id, mcpTargets[i].ref>> # <<mcpTargets[j].id, mcpTargets[j].ref>>
    PROVE  (\A i, j \in DOMAIN mcpTargets : i # j => <<mcpTargets[i].id, mcpTargets[i].ref>> # <<mcpTargets[j].id, mcpTargets[j].ref>>)'
<1>1. /\ mcpTargets'[Len(mcpTargets) + 1] = t
      /\ \A i \in DOMAIN mcpTargets : mcpTargets'[i] = mcpTargets[i]
      /\ \A i \in DOMAIN mcpTargets' : i \in DOMAIN mcpTargets \/ i = Len(mcpTargets) + 1
  BY TargetAdded
<1> SUFFICES ASSUME NEW i \in DOMAIN mcpTargets', NEW j \in DOMAIN mcpTargets', i # j
             PROVE  <<mcpTargets'[i].id, mcpTargets'[i].ref>> # <<mcpTargets'[j].id, mcpTargets'[j].ref>>
  OBVIOUS
<1>2. CASE i \in DOMAIN mcpTargets /\ j \in DOMAIN mcpTargets
  BY <1>1, <1>2
<1>3. CASE i \in DOMAIN mcpTargets /\ j = Len(mcpTargets) + 1
  BY <1>1, <1>3
<1>4. CASE j \in DOMAIN mcpTargets /\ i = Len(mcpTargets) + 1
  BY <1>1, <1>4
<1> QED
  BY <1>1, <1>2, <1>3, <1>4

(* What was told of the handoff stays told, and a file that leaves the     *)
(* work is answered.                                                       *)
LEMMA ToldStaysTold ==
    ASSUME HandoffTold, UNCHANGED handoff, declared' = declared,
           \A n \in DOMAIN mcpTargets : n \in DOMAIN mcpTargets' /\ mcpTargets'[n] = mcpTargets[n],
           \A at \in instances : at \in instances' \/ Answered(at[1], at[2])'
    PROVE  HandoffTold'
<1> SUFFICES ASSUME NEW i \in DOMAIN handoff, handoff[i].id \notin declared PROVE HandedTold(i)'
  BY DEF HandoffTold
<1>1. HandedTold(i)
  BY DEF HandoffTold
<1>2. Answered(handoff[i].id, handoff[i].ref) => Answered(handoff[i].id, handoff[i].ref)'
  BY DEF Answered
<1>3. RefusalTold(handoff[i].id) => RefusalTold(handoff[i].id)'
  BY DEF RefusalTold
<1>4. ValidInstances(handoff[i].id)' = ValidInstances(handoff[i].id)
  BY DEF ValidInstances
<1>5. <<handoff[i].id, handoff[i].ref>> \in instances =>
        <<handoff[i].id, handoff[i].ref>> \in instances' \/ Answered(handoff[i].id, handoff[i].ref)'
  OBVIOUS
<1> QED
  BY <1>1, <1>2, <1>3, <1>4, <1>5 DEF HandedTold

(* What a step of TakeDeclaration may add: the declaration's own answer.   *)
Immediate(id) ==
    {t \in McpTargetRecords :
        /\ t.id = id /\ t.ref = "home" /\ t.status # "complete"
        /\ \/ \A j \in DOMAIN handoff : handoff[j].id # id
           \/ ValidInstances(id) = {} /\ t.status = "partial" /\ t.errors = {"invalid_local_target"}}

(* The outcomes of taking a declaration: a target at once, or the places   *)
(* to be read.                                                             *)
LEMMA TakeCases ==
    ASSUME McpInv, TakeDeclaration
    PROVE  \E id \in declared :
              /\ mpc = "next" /\ PhaseOf(id) = phase /\ declared' = declared \ {id}
              /\ UNCHANGED <<configSide, handoff, phase, began, contents, status>>
              /\ \/ (\E t \in Immediate(id) : AddTarget(t)) /\ UNCHANGED <<mpc, instances>>
                 \/ /\ mpc' = "instance" /\ UNCHANGED mcpTargets
                    /\ instances' \subseteq Places /\ instances' # {} /\ \A at \in instances' : at[1] = id
                    /\ (\A j \in DOMAIN handoff : handoff[j].id # id) \/ instances' = {<<id, r>> : r \in ValidInstances(id)}
<1>0. mpc = "next" /\ handoff \in Handoffs \cup {<<>>} /\ declared \subseteq Ids
  BY DEF TakeDeclaration, McpInv, McpShape
<1>1. PICK id \in declared :
        /\ PhaseOf(id) = phase /\ declared' = declared \ {id}
        /\ \/ ~Expandable(id) /\ AddTarget(Unsupported(id)) /\ UNCHANGED <<mpc, instances>>
           \/ ValidInstances(id) = {} /\ AddTarget(NoInstance(id)) /\ UNCHANGED <<mpc, instances>>
           \/ /\ Expandable(id) /\ ValidInstances(id) # {} /\ instances' = {<<id, r>> : r \in ValidInstances(id)}
              /\ mpc' = "instance" /\ UNCHANGED mcpTargets
           \/ ~Expandable(id) /\ AddTarget(NoAccess(id, "home")) /\ UNCHANGED <<mpc, instances>>
           \/ /\ Declarations[id].scope = "user" /\ Declarations[id].supported /\ instances' = {<<id, "home">>}
              /\ mpc' = "instance" /\ UNCHANGED mcpTargets
  <2>1. PICK id \in declared :
          LET d == Declarations[id]
          IN  /\ PhaseOf(id) = phase /\ declared' = declared \ {id}
              /\ CASE d.scope = "project" /\ ~d.path -> AddTarget(Unsupported(id)) /\ UNCHANGED <<mpc, instances>>
                   [] d.scope = "project" /\ d.path ->
                          IF ValidInstances(id) = {}
                          THEN AddTarget(NoInstance(id)) /\ UNCHANGED <<mpc, instances>>
                          ELSE instances' = {<<id, r>> : r \in ValidInstances(id)} /\ mpc' = "instance" /\ UNCHANGED mcpTargets
                   [] d.scope = "user" /\ (~d.path \/ ~d.supported) -> AddTarget(Unsupported(id)) /\ UNCHANGED <<mpc, instances>>
                   [] d.scope = "user" /\ d.path /\ d.supported ->
                          IF rooted # "home"
                          THEN AddTarget(NoAccess(id, "home")) /\ UNCHANGED <<mpc, instances>>
                          ELSE instances' = {<<id, "home">>} /\ mpc' = "instance" /\ UNCHANGED mcpTargets
                   [] OTHER -> AddTarget(Unsupported(id)) /\ UNCHANGED <<mpc, instances>>
    BY DEF TakeDeclaration
  <2> QED
    BY <2>1 DEF Expandable
<1>2. id \in Ids
  BY <1>0
<1>3. UNCHANGED <<configSide, handoff, phase, began, contents, status>>
  BY DEF TakeDeclaration
<1>4. ASSUME NEW t, AddTarget(t), t \in Immediate(id), UNCHANGED <<mpc, instances>>
      PROVE  (\E u \in Immediate(id) : AddTarget(u)) /\ UNCHANGED <<mpc, instances>>
  BY <1>4
<1>11. ~Expandable(id) => \A j \in DOMAIN handoff : handoff[j].id # id
  BY <1>0, HandedOver
<1>5. ~Expandable(id) => Unsupported(id) \in Immediate(id) /\ NoAccess(id, "home") \in Immediate(id)
  BY <1>2, <1>11 DEF Unsupported, NoAccess, Target, Immediate, McpTargetRecords, McpStatuses, McpErrors
<1>6. ValidInstances(id) = {} => NoInstance(id) \in Immediate(id)
  <2>1. CASE \E t \in {handoff[i] : i \in DOMAIN handoff} : t.id = id
    <3>1. NoInstance(id) = Target(id, "home", "partial", {}, {"invalid_local_target"})
      BY <2>1 DEF NoInstance
    <3> QED
      BY <1>2, <3>1 DEF Target, Immediate, McpTargetRecords, McpStatuses, McpErrors
  <2>2. CASE ~\E t \in {handoff[i] : i \in DOMAIN handoff} : t.id = id
    <3>1. NoInstance(id) = Target(id, "home", "not_present", {}, {}) /\ \A j \in DOMAIN handoff : handoff[j].id # id
      BY <2>2 DEF NoInstance
    <3> QED
      BY <1>2, <3>1 DEF Target, Immediate, McpTargetRecords, McpStatuses, McpErrors
  <2> QED
    BY <2>1, <2>2
<1>7. CASE Expandable(id) /\ ValidInstances(id) # {} /\ instances' = {<<id, r>> : r \in ValidInstances(id)} /\ mpc' = "instance" /\ UNCHANGED mcpTargets
  <2>1. ValidInstances(id) \subseteq {"project1", "project2"}
    BY <1>0, HandedOver DEF ValidInstances
  <2>2. Declarations[id].supported
    BY <1>2, <1>7, McpAssumption
  <2>3. \A r \in ValidInstances(id) : <<id, r>> \in Places
    BY <1>2, <1>7, <2>1, <2>2, PlaceOf
  <2>4. instances' \subseteq Places /\ instances' # {} /\ \A at \in instances' : at[1] = id
    <3>1. PICK r \in ValidInstances(id) : TRUE
      BY <1>7
    <3>2. <<id, r>> \in instances'
      BY <1>7
    <3>3. \A at \in instances' : at \in Places /\ at[1] = id
      BY <1>7, <2>3
    <3> QED
      BY <3>2, <3>3
  <2> QED
    BY <1>0, <1>1, <1>3, <1>7, <2>4
<1>8. CASE Declarations[id].scope = "user" /\ Declarations[id].supported /\ instances' = {<<id, "home">>} /\ mpc' = "instance" /\ UNCHANGED mcpTargets
  <2>1. <<id, "home">> \in Places
    BY <1>2, <1>8, PlaceOf DEF Expandable
  <2>2. instances' \subseteq Places /\ instances' # {} /\ \A at \in instances' : at[1] = id
    BY <1>8, <2>1
  <2>3. \A j \in DOMAIN handoff : handoff[j].id # id
    BY <1>8, <1>11 DEF Expandable
  <2> QED
    BY <1>0, <1>1, <1>3, <1>8, <2>2, <2>3
<1> QED
  BY <1>0, <1>1, <1>3, <1>4, <1>5, <1>6, <1>7, <1>8

(* TakeDeclaration keeps the invariant.                                    *)
LEMMA TakeStep == ASSUME McpInv, TakeDeclaration PROVE McpInv'
<1>1. PICK id \in declared :
        /\ mpc = "next" /\ PhaseOf(id) = phase /\ declared' = declared \ {id}
        /\ UNCHANGED <<configSide, handoff, phase, began, contents, status>>
        /\ \/ (\E t \in Immediate(id) : AddTarget(t)) /\ UNCHANGED <<mpc, instances>>
           \/ /\ mpc' = "instance" /\ UNCHANGED mcpTargets
              /\ instances' \subseteq Places /\ instances' # {} /\ \A at \in instances' : at[1] = id
              /\ (\A j \in DOMAIN handoff : handoff[j].id # id) \/ instances' = {<<id, r>> : r \in ValidInstances(id)}
  BY TakeCases
<1>2. McpFilesShape' /\ FileAtWork'
  BY <1>1 DEF McpInv, McpFilesShape, FileAtWork, configSide, DocumentsAt, Places, Expandable
<1>3. instances = {} /\ id \in Ids /\ mcpTargets \in Seq(McpTargetRecords) /\ AnswersTold /\ McpShape
  BY <1>1 DEF McpInv, McpShape, AnswersTold, AtFile
<1>4. ASSUME NEW t \in Immediate(id), AddTarget(t), UNCHANGED <<mpc, instances>> PROVE McpShape' /\ AnswersTold'
  <2>1. t \in McpTargetRecords /\ t.id = id
    BY DEF Immediate
  <2>2. mcpTargets' \in Seq(McpTargetRecords) /\ AnsweredIds' = AnsweredIds \cup {id}
    BY <1>3, <1>4, <2>1, TargetAdded
  <2>3. McpShape'
    BY <1>1, <1>3, <1>4, <2>2 DEF McpShape
  <2>4. (\A i, j \in DOMAIN mcpTargets : i # j => <<mcpTargets[i].id, mcpTargets[i].ref>> # <<mcpTargets[j].id, mcpTargets[j].ref>>)'
    <3>1. \A i \in DOMAIN mcpTargets : mcpTargets[i].id # id
      BY <1>1, <1>3 DEF AnswersTold, AnsweredIds
    <3>2. \A i, j \in DOMAIN mcpTargets : i # j => <<mcpTargets[i].id, mcpTargets[i].ref>> # <<mcpTargets[j].id, mcpTargets[j].ref>>
      BY <1>1, <1>3 DEF AnswersTold
    <3>3. \A i \in DOMAIN mcpTargets : <<mcpTargets[i].id, mcpTargets[i].ref>> # <<t.id, t.ref>>
      BY <2>1, <3>1
    <3> QED
      BY <1>3, <1>4, <2>1, <3>2, <3>3, PairAdded
  <2>5. WorkedIds' = WorkedIds /\ WorkedIds = {}
    BY <1>3, <1>4 DEF WorkedIds
  <2> QED
    BY <1>1, <1>3, <1>4, <2>2, <2>3, <2>4, <2>5 DEF AnswersTold, PhaseOf, Expandable
<1>5. ASSUME mpc' = "instance", UNCHANGED mcpTargets,
             instances' \subseteq Places, instances' # {}, \A at \in instances' : at[1] = id
      PROVE  McpShape' /\ AnswersTold'
  <2>1. McpShape'
    BY <1>1, <1>3, <1>5 DEF McpShape, AtFile, Places, Expandable
  <2>2. WorkedIds' = {id} /\ AnsweredIds' = AnsweredIds /\ WorkedIds = {}
    BY <1>3, <1>5 DEF WorkedIds, AnsweredIds
  <2>3. \A i \in DOMAIN mcpTargets : mcpTargets[i].id # id
    BY <1>1, <1>3 DEF AnswersTold, AnsweredIds
  <2>4. (\A i \in DOMAIN mcpTargets : <<mcpTargets[i].id, mcpTargets[i].ref>> \notin instances)'
    BY <1>5, <2>3
  <2> QED
    BY <1>1, <1>3, <1>5, <2>1, <2>2, <2>4 DEF AnswersTold, AtFile, PhaseOf, Expandable
<1>6. HandoffTold'
  <2>1. \A n \in DOMAIN mcpTargets : n \in DOMAIN mcpTargets' /\ mcpTargets'[n] = mcpTargets[n]
    BY <1>1, <1>3, TargetAdded DEF Immediate
  <2> SUFFICES ASSUME NEW i \in DOMAIN handoff, handoff[i].id \notin declared' PROVE HandedTold(i)'
    BY <1>1 DEF HandoffTold
  <2>2. ValidInstances(handoff[i].id)' = ValidInstances(handoff[i].id)
    BY <1>1 DEF ValidInstances
  <2>3. CASE handoff[i].id # id
    <3>1. handoff[i].id \notin declared
      BY <1>1, <2>3
    <3>2. HandedTold(i)
      BY <3>1 DEF McpInv, HandoffTold
    <3>3. Answered(handoff[i].id, handoff[i].ref) => Answered(handoff[i].id, handoff[i].ref)'
      BY <1>1, <2>1 DEF Answered
    <3>4. RefusalTold(handoff[i].id) => RefusalTold(handoff[i].id)'
      BY <1>1, <2>1 DEF RefusalTold
    <3> QED
      BY <1>1, <1>3, <2>2, <3>2, <3>3, <3>4 DEF HandedTold
  <2>4. CASE handoff[i].id = id
    <3>1. CASE \E t \in Immediate(id) : AddTarget(t)
      <4>1. PICK t \in Immediate(id) : AddTarget(t)
        BY <3>1
      <4>2. ValidInstances(id) = {} /\ t.errors = {"invalid_local_target"} /\ t.id = id /\ t \in McpTargetRecords
        BY <2>4 DEF Immediate
      <4>3. RefusalTold(id)'
        <5>1. Len(mcpTargets) + 1 \in DOMAIN mcpTargets' /\ mcpTargets'[Len(mcpTargets) + 1] = t
          BY <1>3, <4>1, <4>2, TargetAdded
        <5> QED
          BY <4>2, <5>1 DEF RefusalTold
      <4>4. ~handoff[i].valid
        BY <2>4, <4>2 DEF ValidInstances
      <4> QED
        BY <1>1, <2>4, <4>3, <4>4 DEF HandedTold
    <3>2. CASE instances' = {<<id, r>> : r \in ValidInstances(id)} /\ instances' # {}
      <4>1. ValidInstances(id) # {} /\ (handoff[i].valid => handoff[i].ref \in ValidInstances(id))
        BY <2>4, <3>2 DEF ValidInstances
      <4> QED
        BY <1>1, <2>2, <2>4, <3>2, <4>1 DEF HandedTold
    <3> QED
      BY <1>1, <2>4, <3>1, <3>2
  <2> QED
    BY <2>3, <2>4
<1> QED
  BY <1>1, <1>2, <1>4, <1>5, <1>6 DEF McpInv

-----------------------------------------------------------------------------
(* A file is opened, read and reported *)

(* OpenConfig keeps the invariant.                                         *)
LEMMA OpenConfigStep == ASSUME McpInv, OpenConfig PROVE McpInv'
<1>1. PICK at \in instances : began' = [place |-> at, time |-> edited[at]] /\ contents' = config[at]
  BY DEF OpenConfig
<1>2. /\ mpc = "instance" /\ mpc' = "read"
      /\ UNCHANGED <<configSide, handoff, phase, declared, instances, status, mcpTargets>>
  BY DEF OpenConfig
<1>3. at \in Places /\ edited[at] \in Nat /\ config[at] \in DocumentsAt(at)
  BY McpAssumption DEF McpInv, McpShape, McpFilesShape
<1>4. McpFilesShape' /\ McpShape'
  BY <1>2 DEF McpInv, McpFilesShape, McpShape, configSide, DocumentsAt, Places, Expandable, AtFile
<1>5. FileAtWork'
  BY <1>1, <1>2, <1>3 DEF FileAtWork, configSide, DocumentsAt
<1>6. AnswersTold'
  BY <1>2 DEF McpInv, AnswersTold, AnsweredIds, WorkedIds, PhaseOf, Expandable, AtFile
<1>7. HandoffTold'
  BY <1>2, ToldStaysTold DEF McpInv
<1> QED
  BY <1>4, <1>5, <1>6, <1>7 DEF McpInv

(* ReadConfig keeps the invariant.                                         *)
LEMMA ReadConfigStep == ASSUME McpInv, ReadConfig PROVE McpInv'
<1> DEFINE torn == edited[began.place] # began.time
<1>1. /\ mpc = "read" /\ mpc' = "collect"
      /\ UNCHANGED <<configSide, handoff, phase, declared, instances, began, mcpTargets>>
  BY DEF ReadConfig
<1>2. /\ began.place \in instances /\ began.place \in Places /\ began.time \in Nat /\ began.time <= edited[began.place]
      /\ contents \in DocumentsAt(began.place) /\ (~torn => contents = config[began.place])
  BY <1>1 DEF McpInv, FileAtWork, McpShape
<1>3. \/ /\ status' = "complete" /\ contents # None
         /\ contents' \in {contents} \cup (IF torn THEN DocumentsAt(began.place) \ {None} ELSE {})
      \/ status' = "partial"
      \/ status' \in {ProjectStatus(began.place[1], "not_present"), ProjectStatus(began.place[1], "unavailable")}
  BY DEF ReadConfig
<1>4. \A s \in {"not_present", "unavailable"} :
          ProjectStatus(began.place[1], s) = "partial" \/ (ProjectStatus(began.place[1], s) = s /\ Declarations[began.place[1]].scope # "project")
  BY DEF ProjectStatus
<1>5. McpFilesShape' /\ McpShape'
  BY <1>1 DEF McpInv, McpFilesShape, McpShape, configSide, DocumentsAt, Places, Expandable, AtFile
<1>6. FileAtWork'
  <2>1. CASE /\ status' = "complete" /\ contents # None
             /\ contents' \in {contents} \cup (IF torn THEN DocumentsAt(began.place) \ {None} ELSE {})
    BY <1>1, <1>2, <2>1 DEF FileAtWork, configSide, McpStatuses, DocumentsAt
  <2>2. CASE status' # "complete"
    BY <1>1, <1>2, <1>3, <1>4, <2>2 DEF FileAtWork, configSide, McpStatuses, DocumentsAt
  <2> QED
    BY <1>3, <1>4, <2>1, <2>2
<1>7. AnswersTold'
  BY <1>1 DEF McpInv, AnswersTold, AnsweredIds, WorkedIds, PhaseOf, Expandable, AtFile
<1>8. HandoffTold'
  BY <1>1, ToldStaysTold DEF McpInv
<1> QED
  BY <1>5, <1>6, <1>7, <1>8 DEF McpInv

(* What a parser makes of a document of its format: nothing is reported    *)
(* that it does not name, and with no error all is.                        *)
LEMMA ServersRead ==
    ASSUME NEW names \in SUBSET DOMAIN Servers, NEW format
    PROVE  /\ ServersOf(names, format).servers \subseteq names /\ ServersOf(names, format).issues \subseteq names
           /\ ServersOf(names, format).issues = {} => ServersOf(names, format).servers = names
           /\ ServersOf(names, format).failed = FALSE
BY DEF ServersOf

ServersNamed(doc) == UNION {doc.containers[c] : c \in DOMAIN doc.containers \ {"other"}}

(* What a parsed document says: the servers of its container, or a failure *)
(* that is told.                                                           *)
LEMMA DocumentParsed ==
    ASSUME NEW id \in Ids, Declarations[id].format \in {"json", "toml"}, NEW doc \in Documents[Declarations[id].format] \ {None}
    PROVE  /\ ParseConfig(doc, Declarations[id]).servers \subseteq DOMAIN Servers
           /\ ParseConfig(doc, Declarations[id]).issues \subseteq DOMAIN Servers
           /\ ~ParseConfig(doc, Declarations[id]).failed =>
                 /\ DOMAIN doc.containers
                      \subseteq {IF Declarations[id].format = "json" THEN Declarations[id].container ELSE "mcp_servers", "other"}
                 /\ ParseConfig(doc, Declarations[id]).issues = {} => ParseConfig(doc, Declarations[id]).servers = ServersNamed(doc)
<1> DEFINE d == Declarations[id]
           key == IF d.format = "json" THEN d.container ELSE "mcp_servers"
           names == IF key \in DOMAIN doc.containers THEN doc.containers[key] ELSE {}
           understood == ParseConfig(doc, d)
<1>1. \A c \in DOMAIN doc.containers : doc.containers[c] \subseteq DOMAIN Servers
  BY McpAssumption
<1>2. names \in SUBSET DOMAIN Servers /\ key # "other"
  BY <1>1, McpAssumption
<1>3. understood = Failed \/ (DOMAIN doc.containers \subseteq {key, "other"} /\ understood = ServersOf(names, d.format))
  <2>1. CASE d.format = "json"
    BY <2>1 DEF ParseConfig, ParseJSONContainer
  <2>2. CASE d.format = "toml"
    <3>1. DOMAIN doc.containers \subseteq {"mcp_servers", "other"}
      BY <2>2, McpAssumption
    <3> QED
      BY <2>2, <3>1 DEF ParseConfig, ParseTOML
  <2> QED
    BY <2>1, <2>2
<1>4. DOMAIN doc.containers \subseteq {key, "other"} => ServersNamed(doc) = names
  BY <1>2 DEF ServersNamed
<1>5. Failed.failed = TRUE /\ Failed.servers = {} /\ Failed.issues = {}
  BY DEF Failed
<1> HIDE DEF names, key, understood
<1>6. /\ understood.servers \subseteq DOMAIN Servers /\ understood.issues \subseteq DOMAIN Servers
      /\ ~understood.failed => DOMAIN doc.containers \subseteq {key, "other"} /\ (understood.issues = {} => understood.servers = ServersNamed(doc))
  <2> DEFINE gained == ServersOf(names, d.format)
  <2>1. /\ gained.servers \subseteq names /\ gained.issues \subseteq names /\ (gained.issues = {} => gained.servers = names)
        /\ gained.failed = FALSE
    BY <1>2, ServersRead
  <2>2. understood = Failed \/ (DOMAIN doc.containers \subseteq {key, "other"} /\ understood = gained)
    BY <1>3
  <2> HIDE DEF gained
  <2>3. CASE understood = Failed
    BY <1>5, <2>3
  <2>4. CASE DOMAIN doc.containers \subseteq {key, "other"} /\ understood = gained
    BY <1>2, <1>4, <2>1, <2>4
  <2> QED
    BY <2>2, <2>3, <2>4
<1> QED
  BY <1>6 DEF understood, key

(* The target that CollectConfig appends.                                  *)
LEMMA CollectedTarget ==
    ASSUME McpInv, CollectConfig
    PROVE  \E t \in McpTargetRecords :
              /\ AddTarget(t) /\ t.id = began.place[1] /\ t.ref = began.place[2]
              /\ t.status \notin {"complete", "partial"} => Declarations[began.place[1]].scope # "project"
              /\ t.status = "complete" =>
                    /\ contents \in DocumentsAt(began.place) \ {None}
                    /\ edited[began.place] = began.time => contents = config[began.place]
                    /\ DOMAIN contents.containers
                         \subseteq {IF Declarations[t.id].format = "json" THEN Declarations[t.id].container ELSE "mcp_servers", "other"}
                    /\ ServersNamed(contents) = t.servers
<1> DEFINE id == began.place[1]
           ref == began.place[2]
           understood == ParseConfig(contents, Declarations[id])
           evidence == Evidence(understood)
           t == IF status # "complete"
                THEN Target(id, ref, status, {}, IF status = "not_present" THEN {} ELSE {"config_unavailable"})
                ELSE IF understood.failed THEN Target(id, ref, "partial", {}, {"config_invalid"})
                ELSE Target(id, ref, IF evidence.errors = {} THEN "complete" ELSE "partial", evidence.servers, evidence.errors)
<1>1. AddTarget(t)
  BY DEF CollectConfig
<1>2. mpc = "collect" /\ began.place \in Places /\ status \in McpStatuses \ {"unsupported"}
  BY DEF CollectConfig, McpInv, FileAtWork, McpShape
<1>3. /\ id \in Ids /\ ref \in {"home", "project1", "project2"} /\ Declarations[id].format \in {"json", "toml"}
      /\ DocumentsAt(began.place) = Documents[Declarations[id].format]
  BY <1>2, PlacesAre
<1>4. /\ status \notin {"complete", "partial"} => Declarations[id].scope # "project"
      /\ status = "complete" => contents \in DocumentsAt(began.place) \ {None} /\ (edited[began.place] = began.time => contents = config[began.place])
  BY <1>2 DEF McpInv, FileAtWork, McpStatuses
<1> HIDE DEF id, ref
<1>5. CASE status # "complete"
  <2>1. t = Target(id, ref, status, {}, IF status = "not_present" THEN {} ELSE {"config_unavailable"})
    BY <1>5
  <2>2. t \in McpTargetRecords /\ t.id = id /\ t.ref = ref /\ t.status = status
    BY <1>2, <1>3, <2>1 DEF Target, McpTargetRecords, McpErrors
  <2> HIDE DEF t
  <2> QED
    BY <1>1, <1>4, <1>5, <2>2 DEF id, ref
<1>6. CASE status = "complete"
  <2>0. contents \in Documents[Declarations[id].format] \ {None}
    BY <1>3, <1>4, <1>6
  <2>1. /\ understood.servers \subseteq DOMAIN Servers /\ understood.issues \subseteq DOMAIN Servers
        /\ ~understood.failed =>
              /\ DOMAIN contents.containers
                   \subseteq {IF Declarations[id].format = "json" THEN Declarations[id].container ELSE "mcp_servers", "other"}
              /\ understood.issues = {} => understood.servers = ServersNamed(contents)
    BY <1>3, <2>0, DocumentParsed
  <2> HIDE DEF understood
  <2>2. CASE understood.failed
    <3>1. t = Target(id, ref, "partial", {}, {"config_invalid"})
      BY <1>6, <2>2
    <3>2. t \in McpTargetRecords /\ t.id = id /\ t.ref = ref /\ t.status = "partial"
      BY <1>3, <3>1 DEF Target, McpTargetRecords, McpErrors, McpStatuses
    <3> HIDE DEF t
    <3> QED
      BY <1>1, <3>2 DEF id, ref
  <2>3. CASE ~understood.failed
    <3>1. t = Target(id, ref, IF evidence.errors = {} THEN "complete" ELSE "partial", evidence.servers, evidence.errors)
      BY <1>6, <2>3
    <3>2. /\ evidence.servers \subseteq DOMAIN Servers /\ evidence.errors \subseteq DOMAIN Servers
          /\ evidence.errors = {} => evidence.servers = understood.servers /\ understood.issues = {}
      BY <2>1 DEF Evidence
    <3> HIDE DEF evidence
    <3>3. /\ t \in McpTargetRecords /\ t.id = id /\ t.ref = ref /\ t.servers = evidence.servers
          /\ t.status \in {"complete", "partial"} /\ (t.status = "complete" => evidence.errors = {})
      BY <1>3, <3>1, <3>2 DEF Target, McpTargetRecords, McpErrors, McpStatuses
    <3> HIDE DEF t
    <3> QED
      BY <1>1, <1>4, <1>6, <2>1, <2>3, <3>2, <3>3 DEF id, ref
  <2> QED
    BY <2>2, <2>3
<1> QED
  BY <1>5, <1>6

(* A file that is answered leaves the work.                                *)
LEMMA FileDone ==
    ASSUME McpInv, mpc \in AtFile, NEW t \in McpTargetRecords, AddTarget(t), <<t.id, t.ref>> \in instances, Done(<<t.id, t.ref>>),
           UNCHANGED <<configSide, handoff, phase, declared, began, contents, status>>
    PROVE  McpInv'
<1>1. /\ instances' = instances \ {<<t.id, t.ref>>} /\ mpc' = (IF instances' = {} THEN "next" ELSE "instance")
      /\ UNCHANGED <<configSide, handoff, phase, declared, began, contents, status>>
  BY DEF Done
<1>2. McpShape /\ AnswersTold /\ mcpTargets \in Seq(McpTargetRecords) /\ mpc \in AtFile
  BY DEF McpInv, McpShape
<1>3. /\ mcpTargets' \in Seq(McpTargetRecords) /\ AnsweredIds' = AnsweredIds \cup {t.id}
      /\ Len(mcpTargets) + 1 \in DOMAIN mcpTargets' /\ mcpTargets'[Len(mcpTargets) + 1] = t
      /\ \A i \in DOMAIN mcpTargets : i \in DOMAIN mcpTargets' /\ mcpTargets'[i] = mcpTargets[i]
      /\ \A i \in DOMAIN mcpTargets' : i \in DOMAIN mcpTargets \/ i = Len(mcpTargets) + 1
  BY <1>2, TargetAdded
<1>4. McpFilesShape' /\ McpShape' /\ FileAtWork'
  <2>1. McpFilesShape'
    BY <1>1 DEF McpInv, McpFilesShape, configSide, DocumentsAt, Places, Expandable
  <2>2. mpc' \in {"next", "instance"} /\ Places' = Places
    BY <1>1 DEF Places, Expandable
  <2>3. McpShape'
    BY <1>1, <1>2, <1>3, <2>2 DEF McpShape, AtFile
  <2>4. FileAtWork'
    BY <2>2 DEF FileAtWork
  <2> QED
    BY <2>1, <2>3, <2>4
<1>5. AnswersTold'
  <2>1. (\A i, j \in DOMAIN mcpTargets : i # j => <<mcpTargets[i].id, mcpTargets[i].ref>> # <<mcpTargets[j].id, mcpTargets[j].ref>>)'
    <3>1. /\ \A i \in DOMAIN mcpTargets : <<mcpTargets[i].id, mcpTargets[i].ref>> # <<t.id, t.ref>>
          /\ \A i, j \in DOMAIN mcpTargets : i # j => <<mcpTargets[i].id, mcpTargets[i].ref>> # <<mcpTargets[j].id, mcpTargets[j].ref>>
      BY <1>2 DEF AnswersTold, AtFile
    <3> QED
      BY <1>2, <3>1, PairAdded
  <2>2. (\A i \in DOMAIN mcpTargets : <<mcpTargets[i].id, mcpTargets[i].ref>> \notin instances)'
    BY <1>1, <1>2, <1>3 DEF AnswersTold, AtFile
  <2>3. WorkedIds' \subseteq WorkedIds /\ WorkedIds \subseteq WorkedIds' \cup {t.id} /\ t.id \in WorkedIds
    BY <1>1 DEF WorkedIds
  <2> QED
    BY <1>1, <1>2, <1>3, <2>1, <2>2, <2>3 DEF AnswersTold, AtFile, PhaseOf, Expandable
<1>6. HandoffTold'
  <2>1. Answered(t.id, t.ref)'
    BY <1>3 DEF Answered
  <2>2. \A at \in instances : at \in instances' \/ Answered(at[1], at[2])'
    BY <1>1, <2>1
  <2> QED
    BY <1>1, <1>3, <2>2, ToldStaysTold DEF McpInv
<1> QED
  BY <1>4, <1>5, <1>6 DEF McpInv

(* The target of a file below no root.                                     *)
LEMMA SkippedTarget ==
    ASSUME McpInv, SkipInstance
    PROVE  \E t \in McpTargetRecords :
              /\ AddTarget(t) /\ t.status = "unavailable" /\ rooted = "none"
              /\ <<t.id, t.ref>> \in instances /\ Done(<<t.id, t.ref>>)
<1>1. PICK at \in instances : AddTarget(NoAccess(at[1], at[2])) /\ Done(at)
  BY DEF SkipInstance, FirstInstance
<1>2. at \in Places
  BY DEF McpInv, McpShape
<1>3. at = <<at[1], at[2]>> /\ at[1] \in Ids /\ at[2] \in {"home", "project1", "project2"}
  BY <1>2, PlacesAre
<1>4. /\ NoAccess(at[1], at[2]) \in McpTargetRecords /\ NoAccess(at[1], at[2]).status = "unavailable"
      /\ NoAccess(at[1], at[2]).id = at[1] /\ NoAccess(at[1], at[2]).ref = at[2]
  BY <1>3 DEF NoAccess, Target, McpTargetRecords, McpStatuses, McpErrors
<1>5. rooted = "none"
  BY DEF SkipInstance
<1> QED
  BY <1>1, <1>3, <1>4, <1>5

(* SkipInstance and CollectConfig keep the invariant.                      *)
LEMMA SkipStep == ASSUME McpInv, SkipInstance PROVE McpInv'
<1>1. mpc \in AtFile /\ UNCHANGED <<configSide, handoff, phase, declared, began, contents, status>>
  BY DEF SkipInstance, AtFile
<1> QED
  BY <1>1, SkippedTarget, FileDone

LEMMA CollectStep == ASSUME McpInv, CollectConfig PROVE McpInv'
<1>1. PICK t \in McpTargetRecords : AddTarget(t) /\ t.id = began.place[1] /\ t.ref = began.place[2]
  BY CollectedTarget
<1>2. /\ mpc = "collect" /\ mpc \in AtFile /\ Done(began.place)
      /\ UNCHANGED <<configSide, handoff, phase, declared, began, contents, status>>
  BY DEF CollectConfig, AtFile
<1>3. began.place \in instances /\ began.place = <<t.id, t.ref>>
  <2>1. began.place \in instances /\ instances \subseteq Places
    BY <1>2 DEF McpInv, FileAtWork, McpShape
  <2> QED
    BY <1>1, <2>1, PlacesAre DEF McpInv
<1> QED
  BY <1>1, <1>2, <1>3, FileDone

-----------------------------------------------------------------------------
(* The phases, the end and the editor *)

(* NextPhase keeps the invariant.                                          *)
LEMMA NextPhaseStep == ASSUME McpInv, NextPhase PROVE McpInv'
<1>1. /\ mpc = "next" /\ (\A id \in declared : PhaseOf(id) # phase)
      /\ \/ phase = 1 /\ phase' = 2 /\ UNCHANGED <<mpc, handoff>>
         \/ phase # 1 /\ mpc' = "returned" /\ handoff' = <<>> /\ UNCHANGED phase
      /\ UNCHANGED <<configSide, declared, instances, began, contents, status, mcpTargets>>
  BY DEF NextPhase
<1>2. McpFilesShape' /\ McpShape' /\ FileAtWork'
  BY <1>1 DEF McpInv, McpFilesShape, McpShape, configSide, DocumentsAt, Places, Expandable, AtFile, FileAtWork
<1>3. AnswersTold'
  <2>1. AnsweredIds' = AnsweredIds /\ WorkedIds' = WorkedIds /\ \A id : PhaseOf(id)' = PhaseOf(id) /\ PhaseOf(id) \in {1, 2}
    BY <1>1 DEF AnsweredIds, WorkedIds, PhaseOf, Expandable
  <2>2. phase \in {1, 2} /\ AnswersTold
    BY DEF McpInv, McpShape
  <2> QED
    BY <1>1, <2>1, <2>2 DEF AnswersTold, AtFile
<1>4. HandoffTold'
  <2>1. CASE handoff' = <<>>
    BY <2>1 DEF HandoffTold
  <2>2. CASE handoff' = handoff
    BY <1>1, <2>2, ToldStaysTold DEF McpInv
  <2> QED
    BY <1>1, <2>1, <2>2
<1> QED
  BY <1>2, <1>3, <1>4 DEF McpInv

(* AbortMcp keeps the invariant.                                           *)
LEMMA AbortMcpStep == ASSUME McpInv, AbortMcp PROVE McpInv'
<1>1. mpc' = "aborted" /\ handoff' = <<>> /\ UNCHANGED <<configSide, phase, declared, instances, began, contents, status, mcpTargets>>
  BY DEF AbortMcp
<1>2. HandoffTold'
  BY <1>1 DEF HandoffTold
<1> QED
  BY <1>1, <1>2 DEF McpInv, McpFilesShape, McpShape, configSide, DocumentsAt, Places, Expandable, AtFile, FileAtWork, AnswersTold

(* EditConfig keeps the invariant.                                         *)
LEMMA EditConfigStep == ASSUME McpInv, EditConfig PROVE McpInv'
<1>0. PICK at \in Places : \E doc \in DocumentsAt(at) :
        config' = [config EXCEPT ![at] = doc] /\ edited' = [edited EXCEPT ![at] = configEdits + 1]
  BY DEF EditConfig
<1>1. PICK doc \in DocumentsAt(at) :
        config' = [config EXCEPT ![at] = doc] /\ edited' = [edited EXCEPT ![at] = configEdits + 1]
  BY <1>0
<1>2. /\ configEdits < MaxConfigEdits /\ configEdits' = configEdits + 1
      /\ UNCHANGED <<rooted, handoff, mpc, phase, declared, instances, began, contents, status, mcpTargets>>
  BY DEF EditConfig
<1>3. McpFilesShape
  BY DEF McpInv
<1>4. /\ \A other \in Places : other # at => config'[other] = config[other] /\ edited'[other] = edited[other]
      /\ config'[at] = doc /\ edited'[at] = configEdits + 1
      /\ config' = [other \in Places |-> config'[other]] /\ edited' \in [Places -> 0..MaxConfigEdits]
      /\ configEdits' \in 0..MaxConfigEdits
  BY <1>1, <1>2, <1>3, McpAssumption DEF McpFilesShape
<1>5. McpFilesShape'
  <2>1. \A other \in Places : config'[other] \in DocumentsAt(other)
    BY <1>3, <1>4 DEF McpFilesShape
  <2>2. \A other \in Places : edited'[other] <= configEdits'
    BY <1>2, <1>3, <1>4, McpAssumption DEF McpFilesShape
  <2> QED
    BY <1>2, <1>3, <1>4, <2>1, <2>2 DEF McpFilesShape, DocumentsAt, Places, Expandable
<1>6. McpShape'
  BY <1>2 DEF McpInv, McpShape, Places, Expandable, AtFile
<1>7. AnswersTold'
  BY <1>2 DEF McpInv, AnswersTold, AnsweredIds, WorkedIds, PhaseOf, Expandable, AtFile
<1>8. FileAtWork'
  <2> SUFFICES ASSUME mpc \in {"read", "collect"} PROVE FileAtWork'
    BY <1>2 DEF FileAtWork
  <2>1. FileAtWork /\ began.place \in Places
    BY DEF McpInv, FileAtWork, McpShape
  <2>2. CASE began.place # at
    BY <1>2, <1>4, <2>1, <2>2 DEF FileAtWork, DocumentsAt
  <2>3. CASE began.place = at
    <3>1. began.time < configEdits + 1 /\ began.time \in Nat /\ edited'[at] = configEdits + 1
      BY <1>3, <1>4, <2>1, <2>3, McpAssumption DEF FileAtWork, McpFilesShape
    <3>2. edited'[began.place] # began.time /\ began.time <= edited'[began.place]
      BY <1>3, <2>3, <3>1, McpAssumption DEF McpFilesShape
    <3> QED
      BY <1>2, <2>1, <2>3, <3>1, <3>2 DEF FileAtWork, DocumentsAt
  <2> QED
    BY <2>2, <2>3
<1>9. HandoffTold'
  BY <1>2, ToldStaysTold DEF McpInv
<1> QED
  BY <1>5, <1>6, <1>7, <1>8, <1>9 DEF McpInv

(* Every step of the MCP collector keeps the invariant.                    *)
LEMMA McpNext_Inv == McpInv /\ [McpNext]_mcpVars => McpInv'
<1> SUFFICES ASSUME McpInv, [McpNext]_mcpVars PROVE McpInv'
  OBVIOUS
<1>1. CASE UNCHANGED mcpVars
  <2> USE <1>1 DEF mcpVars, configSide
  <2>1. McpFilesShape' /\ McpShape' /\ FileAtWork'
    BY DEF McpInv, McpFilesShape, McpShape, DocumentsAt, FileAtWork
  <2>2. AnswersTold'
    BY DEF McpInv, AnswersTold, AnsweredIds, WorkedIds
  <2>3. HandoffTold'
    BY ToldStaysTold DEF McpInv
  <2> QED
    BY <2>1, <2>2, <2>3 DEF McpInv
<1> QED
  BY <1>1, TakeStep, SkipStep, OpenConfigStep, ReadConfigStep, CollectStep, NextPhaseStep, AbortMcpStep, EditConfigStep DEF McpNext

(* The return finds all that was handed over answered.                     *)
LEMMA HandedBack == ASSUME McpInv, [McpNext]_mcpVars PROVE HandoffAnswered
<1> SUFFICES ASSUME mpc # "returned", mpc' = "returned", NEW i \in DOMAIN handoff
             PROVE  IF handoff[i].valid THEN Answered(handoff[i].id, handoff[i].ref)
                    ELSE RefusalTold(handoff[i].id) \/ ValidInstances(handoff[i].id) # {}
  BY DEF HandoffAnswered
<1>1. NextPhase
  BY DEF McpNext, TakeDeclaration, SkipInstance, OpenConfig, ReadConfig, CollectConfig, Done, AbortMcp, EditConfig, mcpVars, configSide
<1>2. /\ mpc = "next" /\ phase = 2 /\ \A id \in declared : PhaseOf(id) # phase
  BY <1>1 DEF NextPhase, McpInv, McpShape
<1>3. declared = {} /\ instances = {}
  BY <1>2 DEF McpInv, AnswersTold, AtFile
<1>4. HandedTold(i)
  BY <1>3 DEF McpInv, HandoffTold
<1> QED
  BY <1>3, <1>4 DEF HandedTold

(* Only CollectConfig answers complete, and nothing handed over is absent. *)
LEMMA McpStepTrue == McpInv /\ [McpNext]_mcpVars => [McpCompleteTrue /\ DiscoveredNeverAbsent /\ HandoffAnswered]_mcpVars
<1> SUFFICES ASSUME McpInv, [McpNext]_mcpVars PROVE UNCHANGED mcpVars \/ (McpCompleteTrue /\ DiscoveredNeverAbsent)
  BY HandedBack
<1>0. mcpTargets \in Seq(McpTargetRecords) /\ handoff \in Handoffs \cup {<<>>}
  BY DEF McpInv, McpShape
<1>1. CASE UNCHANGED mcpTargets
  <2>1. Len(mcpTargets) + 1 \notin DOMAIN mcpTargets
    BY <1>0
  <2> QED
    BY <1>1, <2>1 DEF McpCompleteTrue, DiscoveredNeverAbsent
<1>2. ASSUME NEW id, NEW t \in Immediate(id), AddTarget(t) PROVE McpCompleteTrue /\ DiscoveredNeverAbsent
  <2>1. t \in McpTargetRecords /\ t.status # "complete" /\ t.id = id
        /\ ((\A j \in DOMAIN handoff : handoff[j].id # id) \/ t.status = "partial")
    BY DEF Immediate
  <2>2. /\ mcpTargets'[Len(mcpTargets) + 1] = t
        /\ \A i \in DOMAIN mcpTargets' : i \in DOMAIN mcpTargets \/ i = Len(mcpTargets) + 1
    BY <1>0, <1>2, <2>1, TargetAdded
  <2> QED
    BY <2>1, <2>2 DEF McpCompleteTrue, DiscoveredNeverAbsent
<1>3. CASE CollectConfig
  <2>1. PICK t \in McpTargetRecords :
          /\ AddTarget(t) /\ t.id = began.place[1] /\ t.ref = began.place[2]
          /\ t.status \notin {"complete", "partial"} => Declarations[began.place[1]].scope # "project"
          /\ t.status = "complete" =>
                /\ contents \in DocumentsAt(began.place) \ {None}
                /\ edited[began.place] = began.time => contents = config[began.place]
                /\ DOMAIN contents.containers
                     \subseteq {IF Declarations[t.id].format = "json" THEN Declarations[t.id].container ELSE "mcp_servers", "other"}
                /\ ServersNamed(contents) = t.servers
    BY <1>3, CollectedTarget
  <2>2. /\ mcpTargets'[Len(mcpTargets) + 1] = t
        /\ \A i \in DOMAIN mcpTargets' : i \in DOMAIN mcpTargets \/ i = Len(mcpTargets) + 1
    BY <1>0, <2>1, TargetAdded
  <2>3. McpCompleteTrue
    BY <2>1, <2>2 DEF McpCompleteTrue, ServersNamed
  <2>4. DiscoveredNeverAbsent
    <3>1. \A j \in DOMAIN handoff : Declarations[handoff[j].id].scope = "project"
      BY <1>0, HandedOver DEF Expandable
    <3> QED
      BY <2>1, <2>2, <3>1 DEF DiscoveredNeverAbsent
  <2> QED
    BY <2>3, <2>4
<1>4. CASE TakeDeclaration
  <2>1. UNCHANGED mcpTargets \/ \E id : \E t \in Immediate(id) : AddTarget(t)
    BY <1>4, TakeCases
  <2> QED
    BY <1>1, <1>2, <2>1
<1>6. CASE SkipInstance
  <2>1. PICK t \in McpTargetRecords : AddTarget(t) /\ t.status = "unavailable" /\ rooted = "none"
    BY <1>6, SkippedTarget
  <2>2. /\ mcpTargets'[Len(mcpTargets) + 1] = t
        /\ \A i \in DOMAIN mcpTargets' : i \in DOMAIN mcpTargets \/ i = Len(mcpTargets) + 1
    BY <1>0, <2>1, TargetAdded
  <2> QED
    BY <2>1, <2>2 DEF McpCompleteTrue, DiscoveredNeverAbsent
<1>5. CASE OpenConfig \/ ReadConfig \/ NextPhase \/ AbortMcp \/ EditConfig
  <2>1. UNCHANGED mcpTargets
    BY <1>5 DEF OpenConfig, ReadConfig, NextPhase, AbortMcp, EditConfig
  <2> QED
    BY <1>1, <2>1
<1> QED
  BY <1>3, <1>4, <1>5, <1>6 DEF McpNext

-----------------------------------------------------------------------------
(* The home surfaces *)

(* The parser reads line by line what Effective says of the whole text.    *)
Speaks(text, i) == InSection(text, i) /\ ~Section(text[i])
InForce(text, i) == {text[j] : j \in {j \in 1..i : Speaks(text, j) /\ \A k \in 1..i : Speaks(text, k) /\ k >= j => text[k] # "reset"}}
BrokenBy(text, i) == \E j \in 1..i : text[j] = "broken"
ReadSoFar(text) == [i \in 0..Len(text) |-> IF BrokenBy(text, i) THEN None ELSE InForce(text, i)]
OneLine(text, before, i) ==
    IF i = 0 THEN {}
    ELSE IF before = None \/ text[i] = "broken" THEN None
    ELSE IF Section(text[i]) \/ ~InSection(text, i) THEN before
    ELSE IF text[i] = "reset" THEN {}
    ELSE before \cup {text[i]}

(* The helpers in force after a line follow from those before it.          *)
LEMMA LineByLine ==
    ASSUME NEW text \in Seq(PageLines), NEW i \in 0..Len(text)
    PROVE  ReadSoFar(text)[i] = OneLine(text, ReadSoFar(text)[i - 1], i)
<1> DEFINE R == ReadSoFar(text)
<1>1. Len(text) \in Nat /\ \A j \in 1..Len(text) : text[j] \in PageLines
  OBVIOUS
<1>2. \A j \in 0..Len(text) : R[j] = IF BrokenBy(text, j) THEN None ELSE InForce(text, j)
  BY DEF ReadSoFar
<1>3. \A j \in 0..Len(text) : InForce(text, j) \in SUBSET PageLines
  BY <1>1 DEF InForce
<1>4. \A j \in 0..Len(text) : R[j] = None <=> BrokenBy(text, j)
  BY <1>2, <1>3, SurfaceAssumption
<1>5. CASE i = 0
  <2>1. ~BrokenBy(text, 0) /\ InForce(text, 0) = {}
    BY DEF BrokenBy, InForce
  <2> QED
    BY <1>2, <1>5, <2>1 DEF OneLine
<1>6. CASE i # 0
  <2>1. i \in 1..Len(text) /\ i - 1 \in 0..Len(text) /\ 1..i = (1..(i - 1)) \cup {i} /\ i \notin 1..(i - 1)
    BY <1>1, <1>6
  <2>2. BrokenBy(text, i) <=> BrokenBy(text, i - 1) \/ text[i] = "broken"
    BY <2>1 DEF BrokenBy
  <2>3. CASE BrokenBy(text, i)
    BY <1>2, <1>4, <1>6, <2>1, <2>2, <2>3 DEF OneLine
  <2>4. CASE ~BrokenBy(text, i)
    <3>0. R[i] = InForce(text, i) /\ R[i - 1] = InForce(text, i - 1) /\ R[i - 1] # None /\ text[i] # "broken"
      BY <1>2, <1>4, <2>1, <2>2, <2>4
    <3>1. CASE ~Speaks(text, i)
      <4>1. InForce(text, i) = InForce(text, i - 1)
        BY <2>1, <3>1 DEF InForce
      <4> QED
        BY <1>6, <3>0, <3>1, <4>1 DEF OneLine, Speaks
    <3>2. CASE Speaks(text, i) /\ text[i] = "reset"
      <4>1. \A j \in 1..i : i >= j
        BY <2>1
      <4>2. InForce(text, i) = {}
        BY <2>1, <3>2, <4>1 DEF InForce
      <4> QED
        BY <1>6, <3>0, <3>2, <4>2 DEF OneLine, Speaks
    <3>3. CASE Speaks(text, i) /\ text[i] # "reset"
      <4>1. InForce(text, i) = InForce(text, i - 1) \cup {text[i]}
        <5>1. \A j \in 1..(i - 1) : ~(j >= i)
          BY <2>1
        <5>2. i >= i
          BY <2>1
        <5> QED
          BY <2>1, <3>3, <5>1, <5>2 DEF InForce
      <4> QED
        BY <1>6, <3>0, <3>3, <4>1 DEF OneLine, Speaks
    <3> QED
      BY <3>1, <3>2, <3>3
  <2> QED
    BY <2>3, <2>4
<1> QED
  BY <1>5, <1>6

(* The recursive reading of a page has the value each line gives it.       *)
LEMMA HelpersDefined ==
    ASSUME NEW text \in Seq(PageLines)
    PROVE  HelpersRead(text) = [i \in 0..Len(text) |-> OneLine(text, HelpersRead(text)[i - 1], i)]
<1> DEFINE Solves(f) == f = [i \in 0..Len(text) |-> OneLine(text, f[i - 1], i)]
<1>1. HelpersRead(text) = CHOOSE f : Solves(f)
  BY DEF HelpersRead, OneLine
<1>2. Solves(ReadSoFar(text))
  <2>1. ReadSoFar(text) = [i \in 0..Len(text) |-> ReadSoFar(text)[i]]
    BY DEF ReadSoFar
  <2>2. \A i \in 0..Len(text) : ReadSoFar(text)[i] = OneLine(text, ReadSoFar(text)[i - 1], i)
    BY LineByLine
  <2> HIDE DEF Solves
  <2>3. [i \in 0..Len(text) |-> ReadSoFar(text)[i]] = [i \in 0..Len(text) |-> OneLine(text, ReadSoFar(text)[i - 1], i)]
    BY <2>2
  <2> QED
    BY <2>1, <2>3 DEF Solves
<1>3. Solves(CHOOSE f : Solves(f))
  <2> HIDE DEF Solves
  <2> QED
    BY <1>2
<1> QED
  BY <1>1, <1>3

(* The helpers the parser returns are those in force after the last reset. *)
LEMMA HelpersAreEffective ==
    ASSUME NEW text \in Seq(PageLines)
    PROVE  Helpers(text) \in {None, Effective(text)}
<1> DEFINE H == HelpersRead(text)
           R == ReadSoFar(text)
           wrong == {i \in 0..Len(text) : H[i] # R[i]}
<1>1. /\ \A i \in 0..Len(text) : H[i] = OneLine(text, H[i - 1], i)
      /\ \A i \in 0..Len(text) : R[i] = OneLine(text, R[i - 1], i)
  BY HelpersDefined, LineByLine
<1>2. Len(text) \in Nat /\ DOMAIN text = 1..Len(text)
  OBVIOUS
<1>3. wrong = {}
  <2> SUFFICES ASSUME wrong # {} PROVE FALSE
    OBVIOUS
  <2>1. wrong \in SUBSET Nat
    BY <1>2
  <2>2. PICK i \in wrong : \A j \in wrong : i <= j
    BY <2>1, LeastOf
  <2> HIDE DEF H, R
  <2>3. CASE i = 0
    BY <1>1, <1>2, <2>2, <2>3 DEF OneLine
  <2>4. CASE i # 0
    <3>1. i - 1 \in 0..Len(text) /\ ~(i <= i - 1)
      BY <1>2, <2>4
    <3>2. H[i - 1] = R[i - 1]
      BY <2>2, <3>1
    <3> QED
      BY <1>1, <2>2, <3>2
  <2> QED
    BY <2>3, <2>4
<1>4. R[Len(text)] \in {None, InForce(text, Len(text))}
  BY <1>2 DEF ReadSoFar
<1>5. InForce(text, Len(text)) = Effective(text)
  BY <1>2 DEF InForce, Effective, Speaks
<1> QED
  BY <1>2, <1>3, <1>4, <1>5 DEF Helpers

-----------------------------------------------------------------------------
PageHeld(f) == Pages[paper[f].data]
InHand == {"hash", "openConfig", "readConfig", "checkConfig"}

DeskShape ==
    /\ paper \in [Papers -> [kind : {"none", "file", "link"}, id : Nat, data : DOMAIN Pages]]
    /\ scribbles \in Nat

SurfacesShape ==
    /\ hpc \in {"next", "aborted"} \cup InHand
    /\ hpc \in InHand => atWork \in Left
    /\ hpc \in {"readConfig", "checkConfig"} => lines \in Seq(PageLines)
    /\ SurfaceTypeOK /\ \A x \in surfaces : x.of \notin Left

(* As long as nobody writes, the lines in hand are the file's own.         *)
LinesInHand ==
    scribbles = 0 =>
        /\ hpc = "readConfig" => lines = PageHeld(atWork)[1] /\ Plain(atWork) /\ opened = paper[atWork].id
        /\ hpc = "checkConfig" => lines = PageHeld(atWork)[1] \o PageHeld(atWork)[2]

SurfacesInv == DeskShape /\ SurfacesShape /\ LinesInHand /\ HelpersInForce

(* What a file holds is one of the pages.                                  *)
LEMMA TextsOf ==
    ASSUME DeskShape, NEW f \in Papers
    PROVE  PageHeld(f)[1] \in Seq(PageLines) /\ PageHeld(f)[2] \in Seq(PageLines)
BY SurfaceAssumption DEF DeskShape, PageHeld

(* It holds before the first file is looked at.                            *)
LEMMA SurfacesInit_Inv == InitSurfaces => SurfacesInv
<1> SUFFICES ASSUME InitSurfaces PROVE SurfacesInv
  OBVIOUS
<1>1. DeskShape
  BY SurfaceAssumption DEF InitSurfaces, DeskShape
<1>2. SurfacesShape /\ LinesInHand /\ HelpersInForce
  BY DEF InitSurfaces, SurfacesShape, SurfaceTypeOK, LinesInHand, HelpersInForce, InHand
<1> QED
  BY <1>1, <1>2 DEF SurfacesInv

(* A file that is covered has one status, and the others keep theirs.      *)
LEMMA PaperCovered ==
    ASSUME SurfacesInv, NEW f \in Left, NEW s \in {"complete", "partial", "not_present"},
           surfaceTargets' = surfaceTargets \cup {<<f, s>>}, hpc' = "next",
           UNCHANGED deskSide, \A x \in surfaces' : x.of \in Papers /\ (x \in surfaces \/ x.of = f), HelpersInForce'
    PROVE  SurfacesInv'
<1>1. DeskShape'
  BY DEF SurfacesInv, DeskShape, deskSide
<1>2. f \in Papers /\ \A t \in surfaceTargets : t[1] # f
  BY DEF Left
<1>3. SurfaceTypeOK'
  BY <1>2 DEF SurfacesInv, SurfacesShape, SurfaceTypeOK
<1>4. Left' \subseteq Left /\ f \notin Left'
  <2>1. surfaceTargets \subseteq surfaceTargets' /\ <<f, s>> \in surfaceTargets' /\ <<f, s>>[1] = f
    OBVIOUS
  <2> QED
    BY <2>1 DEF Left
<1>5. \A x \in surfaces' : x.of \notin Left'
  BY <1>4 DEF SurfacesInv, SurfacesShape
<1>6. SurfacesShape' /\ LinesInHand'
  BY <1>3, <1>5 DEF SurfacesShape, LinesInHand, InHand
<1> QED
  BY <1>1, <1>6 DEF SurfacesInv

(* What is known of the helpers survives a step that leaves files and      *)
(* reports alone.                                                          *)
LEMMA SameSurfaces ==
    ASSUME SurfacesInv, UNCHANGED <<deskSide, surfaces>>, NEW f \in Left, NEW s,
           surfaceTargets' \in {surfaceTargets, surfaceTargets \cup {<<f, s>>}}
    PROVE  HelpersInForce' /\ \A x \in surfaces' : x.of \in Papers /\ x \in surfaces
<1>1. \A x \in surfaces : x.of \in Papers /\ x.of # f
  BY DEF SurfacesInv, SurfacesShape, SurfaceTypeOK
<1>2. \A x \in surfaces : <<x.of, "complete">> \in surfaceTargets' => <<x.of, "complete">> \in surfaceTargets
  BY <1>1
<1> QED
  BY <1>1, <1>2 DEF SurfacesInv, HelpersInForce, deskSide

(* A file in hand that stays so.                                           *)
LEMMA PaperInHand ==
    ASSUME SurfacesInv, atWork' \in Left, hpc' \in InHand, UNCHANGED <<deskSide, surfaces, surfaceTargets>>,
           hpc' \in {"readConfig", "checkConfig"} => lines' \in Seq(PageLines), LinesInHand'
    PROVE  SurfacesInv'
<1>1. DeskShape'
  BY DEF SurfacesInv, DeskShape, deskSide
<1>2. SurfacesShape'
  BY DEF SurfacesInv, SurfacesShape, SurfaceTypeOK, Left, InHand
<1>3. HelpersInForce'
  BY SameSurfaces DEF SurfacesInv
<1> QED
  BY <1>1, <1>2, <1>3 DEF SurfacesInv

(* LookPaper keeps the invariant.                                          *)
LEMMA LookPaperStep == ASSUME SurfacesInv, LookPaper PROVE SurfacesInv'
<1>1. PICK f \in Left :
        /\ atWork' = f
        /\ \/ \E s \in {"not_present", "partial"} : surfaceTargets' = surfaceTargets \cup {<<f, s>>} /\ hpc' = "next"
           \/ hpc' \in {"hash", "openConfig"} /\ UNCHANGED surfaceTargets
  BY DEF LookPaper
<1>2. UNCHANGED <<deskSide, surfaces>>
  BY DEF LookPaper
<1>3. ASSUME NEW s \in {"not_present", "partial"}, surfaceTargets' = surfaceTargets \cup {<<f, s>>}, hpc' = "next"
      PROVE  SurfacesInv'
  BY <1>2, <1>3, SameSurfaces, PaperCovered
<1>4. CASE hpc' \in {"hash", "openConfig"} /\ UNCHANGED surfaceTargets
  <2>1. LinesInHand'
    BY <1>4 DEF LinesInHand
  <2> QED
    BY <1>1, <1>2, <1>4, <2>1, PaperInHand DEF InHand
<1> QED
  BY <1>1, <1>3, <1>4

(* HashStartup keeps the invariant.                                        *)
LEMMA HashStartupStep == ASSUME SurfacesInv, HashStartup PROVE SurfacesInv'
<1>1. atWork \in Left /\ atWork \in Papers
  BY DEF HashStartup, SurfacesInv, SurfacesShape, InHand, Left
<1>2. PICK s \in {"complete", "partial"} : surfaceTargets' = surfaceTargets \cup {<<atWork, s>>} /\ hpc' = "next"
  BY DEF HashStartup, CoverPaper
<1>3. /\ surfaces' = surfaces \cup {[of |-> atWork, id |-> paper[atWork].id, there |-> paper[atWork].id, helpers |-> None]}
      /\ UNCHANGED deskSide
  BY DEF HashStartup
<1>4. \A x \in surfaces : x.of \in Papers /\ (<<x.of, "complete">> \in surfaceTargets' => <<x.of, "complete">> \in surfaceTargets)
  BY <1>1, <1>2 DEF SurfacesInv, SurfacesShape, SurfaceTypeOK
<1>5. \A x \in surfaces' : x \in surfaces \/ (x.of = atWork /\ x.helpers = None)
  BY <1>3
<1>6. HelpersInForce' /\ \A x \in surfaces' : x.of \in Papers /\ (x \in surfaces \/ x.of = atWork)
  BY <1>1, <1>3, <1>4, <1>5 DEF SurfacesInv, HelpersInForce, deskSide
<1> QED
  BY <1>1, <1>2, <1>3, <1>6, PaperCovered

(* OpenPaper keeps the invariant.                                          *)
LEMMA OpenPaperStep == ASSUME SurfacesInv, OpenPaper PROVE SurfacesInv'
<1>1. atWork \in Left /\ atWork \in Papers /\ UNCHANGED <<deskSide, atWork, surfaces>>
  BY DEF OpenPaper, SurfacesInv, SurfacesShape, InHand, Left
<1>2. CASE CoverPaper("partial")
  <2>1. surfaceTargets' = surfaceTargets \cup {<<atWork, "partial">>} /\ hpc' = "next"
    BY <1>2 DEF CoverPaper
  <2>2. HelpersInForce' /\ \A x \in surfaces' : x.of \in Papers /\ x \in surfaces
    BY <1>1, <2>1, SameSurfaces
  <2> QED
    BY <1>1, <2>1, <2>2, PaperCovered
<1>3. CASE /\ Plain(atWork) /\ opened' = paper[atWork].id /\ lines' = Pages[paper[atWork].data][1]
           /\ hpc' = "readConfig" /\ UNCHANGED surfaceTargets
  <2>1. lines' \in Seq(PageLines)
    BY <1>1, <1>3, TextsOf DEF PageHeld, SurfacesInv
  <2>2. LinesInHand'
    BY <1>1, <1>3 DEF LinesInHand, PageHeld, Plain, deskSide
  <2> QED
    BY <1>1, <1>3, <2>1, <2>2, PaperInHand DEF InHand
<1> QED
  BY <1>2, <1>3 DEF OpenPaper

(* ReadPaper keeps the invariant.                                          *)
LEMMA ReadPaperStep == ASSUME SurfacesInv, ReadPaper PROVE SurfacesInv'
<1>1. /\ hpc = "readConfig" /\ atWork \in Left /\ atWork \in Papers /\ UNCHANGED <<deskSide, atWork, opened, surfaces>>
      /\ lines \in Seq(PageLines) /\ LinesInHand
  BY DEF ReadPaper, SurfacesInv, SurfacesShape, InHand, Left
<1>2. CASE CoverPaper("partial")
  <2>1. surfaceTargets' = surfaceTargets \cup {<<atWork, "partial">>} /\ hpc' = "next"
    BY <1>2 DEF CoverPaper
  <2>2. HelpersInForce' /\ \A x \in surfaces' : x.of \in Papers /\ x \in surfaces
    BY <1>1, <2>1, SameSurfaces
  <2> QED
    BY <1>1, <2>1, <2>2, PaperCovered
<1>3. CASE /\ lines' = lines \o (IF Plain(atWork) /\ paper[atWork].id = opened THEN Pages[paper[atWork].data][2] ELSE <<>>)
           /\ hpc' = "checkConfig" /\ UNCHANGED surfaceTargets
  <2>1. PICK more \in Seq(PageLines) : lines' = lines \o more
    <3>1. Pages[paper[atWork].data][2] \in Seq(PageLines) /\ <<>> \in Seq(PageLines)
      BY <1>1, TextsOf DEF PageHeld, SurfacesInv
    <3> QED
      BY <1>3, <3>1
  <2>2. lines' \in Seq(PageLines)
    BY <1>1, <2>1
  <2>3. LinesInHand'
    BY <1>1, <1>3 DEF LinesInHand, PageHeld, Plain, deskSide
  <2> QED
    BY <1>1, <1>3, <2>2, <2>3, PaperInHand DEF InHand
<1> QED
  BY <1>2, <1>3 DEF ReadPaper

(* CheckPaper keeps the invariant.                                         *)
LEMMA CheckPaperStep == ASSUME SurfacesInv, CheckPaper PROVE SurfacesInv'
<1>1. /\ hpc = "checkConfig" /\ atWork \in Left /\ atWork \in Papers /\ UNCHANGED <<deskSide, atWork>>
      /\ lines \in Seq(PageLines) /\ LinesInHand
  BY DEF CheckPaper, SurfacesInv, SurfacesShape, InHand, Left
<1>2. ASSUME CoverPaper("partial"), UNCHANGED <<deskSide, atWork, surfaces>> PROVE SurfacesInv'
  <2>1. surfaceTargets' = surfaceTargets \cup {<<atWork, "partial">>} /\ hpc' = "next"
    BY <1>2 DEF CoverPaper
  <2>2. atWork \in Left /\ UNCHANGED <<deskSide, atWork, surfaces>>
    BY <1>1, <1>2
  <2>3. HelpersInForce' /\ \A x \in surfaces' : x.of \in Papers /\ x \in surfaces
    BY <2>1, <2>2, SameSurfaces
  <2> QED
    BY <2>1, <2>2, <2>3, PaperCovered
<1> DEFINE new(hs) == [of |-> atWork, id |-> opened, there |-> paper[atWork].id, helpers |-> hs]
<1>3. ASSUME paper[atWork].id = opened, Helpers(lines) # None, NEW left \in SUBSET Helpers(lines),
             surfaces' = surfaces \cup {new(left)}, CoverPaper(IF left = Helpers(lines) THEN "complete" ELSE "partial")
      PROVE  SurfacesInv'
  <2>1. Helpers(lines) = Effective(lines)
    BY <1>1, <1>3, HelpersAreEffective
  <2>2. scribbles = 0 => lines = Pages[paper[atWork].data][1] \o Pages[paper[atWork].data][2]
    BY <1>1 DEF LinesInHand, PageHeld
  <2>3. PICK s \in {"complete", "partial"} : surfaceTargets' = surfaceTargets \cup {<<atWork, s>>} /\ (s = "complete" => left = Helpers(lines))
    BY <1>3 DEF CoverPaper
  <2>4. \A x \in surfaces : x.of \in Papers /\ (<<x.of, "complete">> \in surfaceTargets' => <<x.of, "complete">> \in surfaceTargets)
    BY <1>1, <2>3 DEF SurfacesInv, SurfacesShape, SurfaceTypeOK
  <2>5. <<atWork, "complete">> \in surfaceTargets' => left = Helpers(lines)
    BY <1>1, <2>3 DEF Left
  <2> DEFINE named(x) == Effective(Pages[paper[x.of].data][1] \o Pages[paper[x.of].data][2])
             fits(x) == scribbles = 0 => x.helpers \subseteq named(x) /\ (<<x.of, "complete">> \in surfaceTargets' => x.helpers = named(x))
  <2>6. ASSUME NEW x \in surfaces, x.helpers # None PROVE x.id = x.there /\ fits(x)
    BY <2>4, <2>6 DEF SurfacesInv, HelpersInForce
  <2>7. new(left).id = new(left).there /\ fits(new(left))
    BY <1>3, <2>1, <2>2, <2>5
  <2>8. HelpersInForce'
    <3> SUFFICES ASSUME NEW x \in surfaces', x.helpers # None PROVE x.id = x.there /\ fits(x)
      BY <1>1 DEF HelpersInForce, deskSide
    <3> HIDE DEF new, fits
    <3> QED
      BY <1>3, <2>6, <2>7
  <2>9. \A x \in surfaces' : x.of \in Papers /\ (x \in surfaces \/ x.of = atWork)
    <3>1. new(left).of = atWork
      OBVIOUS
    <3> HIDE DEF new
    <3> QED
      BY <1>1, <1>3, <2>4, <3>1
  <2> QED
    BY <1>1, <1>3, <2>3, <2>8, <2>9, PaperCovered DEF CoverPaper
<1> QED
  BY <1>1, <1>2, <1>3 DEF CheckPaper

(* AbortSurfaces keeps the invariant.                                      *)
LEMMA AbortSurfacesStep == ASSUME SurfacesInv, AbortSurfaces PROVE SurfacesInv'
<1>1. hpc' = "aborted" /\ surfaceTargets' = {} /\ surfaces' = {} /\ UNCHANGED deskSide
  BY DEF AbortSurfaces
<1> QED
  BY <1>1 DEF SurfacesInv, DeskShape, deskSide, SurfacesShape, SurfaceTypeOK, InHand, LinesInHand, HelpersInForce

(* Scribble keeps the invariant.                                           *)
LEMMA ScribbleStep == ASSUME SurfacesInv, NEW f \in Papers, Scribble(f) PROVE SurfacesInv'
<1>1. scribbles' = scribbles + 1 /\ UNCHANGED <<hpc, atWork, opened, lines, surfaceTargets, surfaces>>
  BY DEF Scribble
<1>2. DeskShape'
  <2>1. DeskShape
    BY DEF SurfacesInv
  <2>2. PICK k \in {"none", "file", "link"}, d \in DOMAIN Pages, id \in {paper[f].id, scribbles + 1} :
          paper' = [paper EXCEPT ![f] = [kind |-> k, id |-> id, data |-> d]]
    BY DEF Scribble
  <2> QED
    BY <1>1, <2>1, <2>2 DEF DeskShape
<1>3. scribbles' # 0
  BY <1>1 DEF SurfacesInv, DeskShape
<1>4. SurfacesShape' /\ LinesInHand' /\ HelpersInForce'
  BY <1>1, <1>3 DEF SurfacesInv, SurfacesShape, SurfaceTypeOK, LinesInHand, HelpersInForce, Left
<1> QED
  BY <1>2, <1>4 DEF SurfacesInv

(* Every step of the surface collector keeps the invariant.                *)
LEMMA SurfacesNext_Inv == SurfacesInv /\ [NextSurfaces]_surfaceVars => SurfacesInv'
<1> SUFFICES ASSUME SurfacesInv, [NextSurfaces]_surfaceVars PROVE SurfacesInv'
  OBVIOUS
<1>1. CASE UNCHANGED surfaceVars
  BY <1>1 DEF surfaceVars, deskSide, SurfacesInv, DeskShape, SurfacesShape, SurfaceTypeOK, LinesInHand, HelpersInForce, Left, PageHeld, Plain
<1> QED
  BY <1>1, LookPaperStep, HashStartupStep, OpenPaperStep, ReadPaperStep, CheckPaperStep, AbortSurfacesStep, ScribbleStep DEF NextSurfaces

-----------------------------------------------------------------------------
(* The agent plugins *)

SpotKinds == {"none", "dir", "file", "large", "link", "pipe"}
SpotStates == [kind : SpotKinds, id : Nat, time : Nat, data : DOMAIN Texts]
AtMarker == {"open", "check", "openStaged", "checkStaged"}
Walking == {"root", "read", "look", "descend", "open", "check", "accept"}
Bundling == {"bundled", "openStaged", "checkStaged"}

GardenShape == garden \in [Spots -> SpotStates] /\ moved \in Seq(Spots) /\ sort \in {"plugins", "skills"}

AgentShape ==
    /\ apc \in Walking \cup Bundling \cup {"covered", "aborted"}
    /\ openDir \in Spots /\ toLook \subseteq Spots
    /\ apc \in {"descend"} \cup AtMarker => spotted.of \in Spots
    /\ apc \in {"check", "checkStaged"} => sheetRead.id = spotted.print[1]
    /\ entriesRead \in 0..MaxRead /\ manifestsRead \in 0..MaxManifests
    /\ agentStatus \in {None, "complete", "partial", "unavailable", "not_present"}
    /\ \A s \in staged : s.of \in Spots
    /\ \A c \in agentCandidates : c.of \in Spots /\ c.data = c.told /\ c.anchor[1] = c.listed
    /\ accepted \subseteq Spots /\ reported \subseteq agentCandidates

(* Where plugins are looked for, a skill is read only when the plugin that *)
(* brings it has been reported.                                            *)
SkillsWait ==
    /\ \A a \in accepted : \E p \in reported : Marker[p.of] = "plugin" /\ Base[p.of] = a
    /\ sort = "plugins" =>
          /\ apc \in {"open", "check"} => Marker[spotted.of] # "skill"
          /\ apc \in {"openStaged", "checkStaged"} => BundleOf[spotted.of] \in accepted
          /\ \A c \in agentCandidates : Marker[c.of] = "skill" => BundleOf[c.of] \in accepted
    /\ apc \in Walking => reported = {} /\ accepted = {}

(* What the target owes the report: a marker that nobody touched, below    *)
(* directories that nobody touched.                                        *)
Owed(e) ==
    /\ e # Root /\ Regular(e) /\ IsMarker(e) /\ Calm(e)
    /\ \A x \in Chain[e] \ {e} : garden[x].kind = "dir"
Noted(e) == (\E c \in agentCandidates : c.of = e) \/ (sort = "plugins" /\ Marker[e] = "skill" /\ \E s \in staged : s.of = e)
AtHand(e) == apc \in AtMarker /\ spotted.of = e
Ahead(e) ==
    \/ apc = "root"
    \/ \E x \in Chain[e] : x \in toLook
    \/ apc = "descend" /\ spotted.of \in Chain[e] /\ spotted.of # e
    \/ apc = "read" /\ openDir \in Chain[e] /\ openDir # e

WalkOwesMarkers ==
    apc \in Walking /\ agentIssues = {} => \A e \in Spots : Owed(e) => Noted(e) \/ AtHand(e) \/ Ahead(e)
BundleOwesSkills ==
    apc \in Bundling /\ agentIssues = {} =>
        \A e \in Spots : Owed(e) =>
            IF sort = "plugins" /\ Marker[e] = "skill"
            THEN BundleOf[e] \in accepted => Noted(e) \/ AtHand(e)
            ELSE IF Marker[e] = "plugin" THEN \E r \in reported : r.of = e
            ELSE \E c \in agentCandidates : c.of = e
StatusAtEnd ==
    /\ agentStatus = "complete" => apc = "covered"
    /\ apc = "accept" => toLook = {}
    /\ sort = "skills" => staged = {}

AgentInv ==
    /\ GardenShape /\ AgentShape /\ SkillsWait /\ StatusAtEnd
    /\ WalkOwesMarkers /\ BundleOwesSkills /\ CompleteReportsAll

-----------------------------------------------------------------------------
(* What the invariant says of plugins in the words of the properties.      *)
LEMMA AgentInvMeans == AgentInv => AgentTypeOK /\ CompleteReportsAll /\ SkillsOfReportedPlugins /\ AgentParsedAsAnchored
<1> SUFFICES ASSUME AgentInv PROVE AgentTypeOK /\ CompleteReportsAll /\ SkillsOfReportedPlugins /\ AgentParsedAsAnchored
  OBVIOUS
<1>1. reported \subseteq agentCandidates /\ \A c \in agentCandidates : c.data = c.told /\ c.anchor[1] = c.listed
  BY DEF AgentInv, AgentShape
<1>2. AgentTypeOK
  BY DEF AgentInv, AgentShape, AgentTypeOK
<1>3. AgentParsedAsAnchored
  BY <1>1 DEF AgentParsedAsAnchored
<1>4. SkillsOfReportedPlugins
  <2> SUFFICES ASSUME NEW r \in reported
               PROVE  /\ r.anchor[1] = r.listed
                      /\ sort = "plugins" /\ Marker[r.of] = "skill" =>
                           \E p \in reported : Marker[p.of] = "plugin" /\ Base[p.of] = BundleOf[r.of]
    BY DEF SkillsOfReportedPlugins
  <2>1. r.anchor[1] = r.listed
    BY <1>1
  <2>2. ASSUME sort = "plugins", Marker[r.of] = "skill"
        PROVE  \E p \in reported : Marker[p.of] = "plugin" /\ Base[p.of] = BundleOf[r.of]
    <3>1. BundleOf[r.of] \in accepted
      BY <1>1, <2>2 DEF AgentInv, SkillsWait
    <3> QED
      BY <3>1 DEF AgentInv, SkillsWait
  <2> QED
    BY <2>1, <2>2
<1> QED
  BY <1>2, <1>3, <1>4 DEF AgentInv

(* It holds before the root of an agent is opened.                         *)
LEMMA AgentInit_Inv == InitAgents => AgentInv
<1> SUFFICES ASSUME InitAgents PROVE AgentInv
  OBVIOUS
<1>1. GardenShape
  BY AgentAssumption DEF InitAgents, GardenShape, SpotStates, SpotKinds
<1>2. AgentShape
  BY AgentAssumption DEF InitAgents, AgentShape, Walking, AtMarker
<1>3. SkillsWait /\ StatusAtEnd
  BY AgentAssumption DEF InitAgents, SkillsWait, StatusAtEnd
<1>4. WalkOwesMarkers /\ BundleOwesSkills /\ CompleteReportsAll
  <2>1. agentStatus # "complete"
    BY AgentAssumption DEF InitAgents
  <2> QED
    BY <2>1 DEF InitAgents, WalkOwesMarkers, BundleOwesSkills, CompleteReportsAll, Ahead, Bundling
<1> QED
  BY <1>1, <1>2, <1>3, <1>4 DEF AgentInv

-----------------------------------------------------------------------------
(* The way down: below a directory on the way to an entry lies another one *)
(* on the way, or the entry.                                               *)
LEMMA ChainFacts ==
    ASSUME NEW e \in Spots
    PROVE  /\ e \in Chain[e] /\ Chain[e] \subseteq Spots /\ Root \in Chain[e]
           /\ \A d \in Chain[e] \ {e} : \E c \in Chain[e] \ {Root} : Lies[c] = d
<1>1. Chain[e] = {x \in Spots : \A A \in SUBSET Spots : e \in A /\ Closed(A) => x \in A}
  BY DEF Chain
<1>2. e \in Chain[e] /\ Chain[e] \subseteq Spots /\ Root \in Chain[e]
  BY <1>1, AgentAssumption
<1>3. Closed(Chain[e])
  BY <1>1, AgentAssumption DEF Closed
<1>4. ASSUME NEW d \in Chain[e] \ {e}, \A c \in Chain[e] \ {Root} : Lies[c] # d PROVE FALSE
  <2>1. Closed(Chain[e] \ {d})
    BY <1>3, <1>4 DEF Closed
  <2>2. e \in Chain[e] \ {d} /\ Chain[e] \ {d} \in SUBSET Spots
    BY <1>2, <1>4
  <2>3. d \in Chain[e] \ {d}
    BY <1>1, <1>4, <2>1, <2>2
  <2> QED
    BY <2>3
<1> QED
  BY <1>2, <1>4

(* The user: what he touches is owed no more.                              *)
LEMMA OwedShrinks ==
    ASSUME AgentInv, NEW e0 \in Spots, MoveEntry(e0), NEW e \in Spots, Owed(e)'
    PROVE  Owed(e) /\ e0 \notin Chain[e] /\ garden'[e] = garden[e]
<1>1. garden \in [Spots -> SpotStates] /\ moved \in Seq(Spots) /\ moved' = Append(moved, e0) /\ UNCHANGED sort
  BY DEF AgentInv, GardenShape, MoveEntry
<1>2. \A x \in Spots : x # e0 => garden'[x] = garden[x]
  BY <1>1 DEF MoveEntry
<1>3. /\ Len(moved) + 1 \in DOMAIN moved' /\ moved'[Len(moved) + 1] = e0
      /\ \A i \in DOMAIN moved : i \in DOMAIN moved' /\ moved'[i] = moved[i]
  BY <1>1
<1>4. e0 \notin Chain[e] /\ Calm(e)
  BY <1>3 DEF Owed, Calm
<1>5. \A x \in Chain[e] : garden'[x] = garden[x]
  BY <1>2, <1>4, ChainFacts
<1>6. e \in Chain[e]
  BY ChainFacts
<1> QED
  BY <1>1, <1>4, <1>5, <1>6 DEF Owed, Regular, IsMarker

(* MoveEntry keeps the invariant.                                          *)
LEMMA MoveEntryStep == ASSUME AgentInv, NEW e0 \in Spots, MoveEntry(e0) PROVE AgentInv'
<1>1. UNCHANGED <<sort, apc, openDir, toLook, spotted, sheetRead, entriesRead, manifestsRead, staged,
                  agentCandidates, accepted, reported, agentIssues, agentStatus>>
  BY DEF MoveEntry, agentWalk, agentResult
<1>2. GardenShape'
  <2>1. garden \in [Spots -> SpotStates] /\ moved \in Seq(Spots) /\ sort \in {"plugins", "skills"}
    BY DEF AgentInv, GardenShape
  <2>2. Len(moved) + 1 \in Nat
    BY <2>1
  <2>3. PICK d \in DOMAIN Texts, k \in SpotKinds, id \in {garden[e0].id, Len(moved) + 1} :
          garden' = [garden EXCEPT ![e0] = [kind |-> k, id |-> id, time |-> Len(moved) + 1, data |-> d]]
    BY DEF MoveEntry, SpotKinds
  <2>4. garden' \in [Spots -> SpotStates]
    <3>1. garden[e0].id \in Nat
      BY <2>1 DEF SpotStates
    <3>2. [kind |-> k, id |-> id, time |-> Len(moved) + 1, data |-> d] \in SpotStates
      BY <2>2, <2>3, <3>1 DEF SpotStates
    <3> QED
      BY <2>1, <2>3, <3>2
  <2>5. moved' \in Seq(Spots)
    BY <2>1 DEF MoveEntry
  <2> QED
    BY <1>1, <2>1, <2>4, <2>5 DEF GardenShape
<1>3. AgentShape' /\ SkillsWait' /\ StatusAtEnd'
  BY <1>1 DEF AgentInv, AgentShape, SkillsWait, StatusAtEnd
<1>4. WalkOwesMarkers' /\ BundleOwesSkills'
  <2>1. \A e \in Spots : Owed(e)' => Owed(e)
    BY OwedShrinks
  <2>2. \A e \in Spots : Noted(e)' = Noted(e) /\ AtHand(e)' = AtHand(e) /\ Ahead(e)' = Ahead(e)
    BY <1>1 DEF Noted, AtHand, Ahead
  <2> QED
    BY <1>1, <2>1, <2>2 DEF AgentInv, WalkOwesMarkers, BundleOwesSkills
<1>5. CompleteReportsAll'
  <2> SUFFICES ASSUME agentStatus' = "complete", NEW e \in Spots, Owed(e)',
                      sort = "plugins" /\ Marker[e] = "skill" => BundleOf[e] \in accepted
               PROVE  \E r \in reported : r.of = e
    BY <1>1 DEF CompleteReportsAll, Owed
  <2>1. Owed(e)
    BY OwedShrinks
  <2> QED
    BY <1>1, <2>1 DEF AgentInv, CompleteReportsAll, Owed
<1> QED
  BY <1>2, <1>3, <1>4, <1>5 DEF AgentInv

(* A step that leaves the tree alone leaves what is owed.                  *)
LEMMA OwedStays ==
    ASSUME UNCHANGED <<garden, moved, sort>>
    PROVE  (GardenShape => GardenShape') /\ \A e \in Spots : Owed(e)' <=> Owed(e)
  BY DEF GardenShape, Owed, Regular, IsMarker, Calm

(* A target that is not complete, or that has an issue, owes nothing.      *)
LEMMA AgentOwesNothing ==
    ASSUME agentIssues' # {} \/ apc' \in {"covered", "aborted"}, agentStatus' # "complete"
    PROVE  WalkOwesMarkers' /\ BundleOwesSkills' /\ CompleteReportsAll'
  BY DEF WalkOwesMarkers, BundleOwesSkills, CompleteReportsAll, Walking, Bundling

(* OpenAgentRoot keeps the invariant.                                      *)
LEMMA OpenAgentRootStep == ASSUME AgentInv, OpenAgentRoot PROVE AgentInv'
<1>1. /\ UNCHANGED <<garden, moved, sort, toLook, spotted, sheetRead, entriesRead, manifestsRead, staged>>
      /\ UNCHANGED <<agentCandidates, accepted, reported>> /\ apc = "root"
  BY DEF OpenAgentRoot, userSide, agentResult
<1>2. \/ agentStatus' \in {"not_present", "unavailable", "partial"} /\ apc' = "covered" /\ UNCHANGED openDir
      \/ openDir' = Root /\ apc' = "read" /\ UNCHANGED <<agentIssues, agentStatus>>
  BY DEF OpenAgentRoot
<1>3. agentStatus # "complete"
  BY <1>1 DEF AgentInv, StatusAtEnd
<1>4. GardenShape'
  BY <1>1, OwedStays DEF AgentInv
<1>5. AgentShape'
  BY <1>1, <1>2, AgentAssumption DEF AgentInv, AgentShape, Walking, AtMarker
<1>6. SkillsWait' /\ StatusAtEnd'
  BY <1>1, <1>2, <1>3 DEF AgentInv, SkillsWait, StatusAtEnd, Walking
<1>7. WalkOwesMarkers' /\ BundleOwesSkills' /\ CompleteReportsAll'
  <2>1. CASE apc' = "covered"
    BY <1>2, <1>3, <2>1, AgentOwesNothing
  <2>2. CASE apc' # "covered"
    <3>1. openDir' = Root /\ apc' = "read"
      BY <1>2, <2>2
    <3>2. ASSUME NEW e \in Spots, Owed(e)' PROVE Ahead(e)'
      BY <3>1, <3>2, ChainFacts DEF Owed, Ahead
    <3> QED
      BY <1>2, <1>3, <2>2, <3>1, <3>2 DEF WalkOwesMarkers, BundleOwesSkills, CompleteReportsAll, Bundling
  <2> QED
    BY <2>1, <2>2
<1> QED
  BY <1>4, <1>5, <1>6, <1>7 DEF AgentInv

(* ReadAgentDirectory keeps the invariant.                                 *)
LEMMA ReadAgentDirectoryStep == ASSUME AgentInv, ReadAgentDirectory PROVE AgentInv'
<1>1. /\ UNCHANGED <<garden, moved, sort, openDir, spotted, sheetRead, manifestsRead, staged>>
      /\ UNCHANGED <<agentCandidates, accepted, reported, agentStatus>> /\ apc = "read"
  BY DEF ReadAgentDirectory, userSide, agentResult
<1>2. \/ agentIssues' # {} /\ apc' \in {"look", "accept"} /\ (apc' = "accept" => toLook' = {}) /\ toLook' \subseteq toLook
         /\ UNCHANGED entriesRead
      \/ /\ entriesRead + Cardinality(Inside(openDir)) <= MaxRead /\ toLook' = toLook \cup Inside(openDir)
         /\ entriesRead' = entriesRead + Cardinality(Inside(openDir)) /\ apc' = "look" /\ UNCHANGED agentIssues
  BY DEF ReadAgentDirectory, StopHere, Note
<1>3. agentStatus' # "complete"
  BY <1>1 DEF AgentInv, StatusAtEnd
<1>4. GardenShape'
  BY <1>1, OwedStays DEF AgentInv
<1>5. AgentShape'
  <2>1. Inside(openDir) \subseteq Spots
    BY DEF Inside
  <2>2. Cardinality(Inside(openDir)) \in Nat
    BY <2>1, AgentAssumption, FS_Subset, FS_CardinalityType
  <2>3. toLook' \subseteq Spots /\ apc' \in {"look", "accept"}
    BY <1>2, <2>1 DEF AgentInv, AgentShape
  <2>4. entriesRead' \in 0..MaxRead
    <3>1. entriesRead \in 0..MaxRead
      BY DEF AgentInv, AgentShape
    <3> QED
      BY <1>2, <2>2, <3>1, AgentAssumption
  <2> QED
    BY <1>1, <2>3, <2>4 DEF AgentInv, AgentShape, Walking, AtMarker
<1>6. SkillsWait' /\ StatusAtEnd'
  BY <1>1, <1>2, <1>3 DEF AgentInv, SkillsWait, StatusAtEnd, Walking
<1>7. WalkOwesMarkers' /\ BundleOwesSkills' /\ CompleteReportsAll'
  <2>1. CASE agentIssues' # {}
    BY <1>3, <2>1, AgentOwesNothing
  <2>2. CASE agentIssues' = {}
    <3>1. toLook' = toLook \cup Inside(openDir) /\ apc' = "look" /\ agentIssues = {}
      BY <1>2, <2>2
    <3>2. ASSUME NEW e \in Spots, Owed(e)' PROVE Noted(e)' \/ Ahead(e)'
      <4>1. Owed(e)
        BY <1>1, <3>2, OwedStays
      <4>2. Noted(e) \/ Ahead(e)
        BY <1>1, <3>1, <4>1 DEF AgentInv, WalkOwesMarkers, Walking, AtHand, AtMarker
      <4>3. CASE Noted(e)
        BY <1>1, <4>3 DEF Noted
      <4>4. CASE \E x \in Chain[e] : x \in toLook
        BY <3>1, <4>4 DEF Ahead
      <4>5. CASE openDir \in Chain[e] /\ openDir # e
        <5>1. PICK c \in Chain[e] \ {Root} : Lies[c] = openDir
          BY <4>5, ChainFacts
        <5>2. garden[c].kind # "none" /\ c \in Spots
          BY <4>1, <5>1, ChainFacts DEF Owed, Regular
        <5>3. c \in Inside(openDir)
          BY <5>1, <5>2 DEF Inside
        <5> QED
          BY <3>1, <5>1, <5>3 DEF Ahead
      <4> QED
        BY <1>1, <4>2, <4>3, <4>4, <4>5 DEF Ahead
    <3> QED
      BY <1>3, <3>1, <3>2 DEF WalkOwesMarkers, BundleOwesSkills, CompleteReportsAll, Bundling
  <2> QED
    BY <2>1, <2>2
<1> QED
  BY <1>4, <1>5, <1>6, <1>7 DEF AgentInv

(* Descend keeps the invariant.                                            *)
LEMMA DescendStep == ASSUME AgentInv, Descend PROVE AgentInv'
<1>1. /\ UNCHANGED <<garden, moved, sort, toLook, spotted, sheetRead, entriesRead, manifestsRead, staged>>
      /\ UNCHANGED <<agentCandidates, accepted, reported, agentStatus>> /\ apc = "descend"
  BY DEF Descend, userSide, agentResult
<1>2. \/ agentIssues' # {} /\ apc' = "look" /\ UNCHANGED openDir
      \/ openDir' = spotted.of /\ apc' = "read" /\ UNCHANGED agentIssues
  BY DEF Descend, Note
<1>3. agentStatus' # "complete"
  BY <1>1 DEF AgentInv, StatusAtEnd
<1>4. GardenShape'
  BY <1>1, OwedStays DEF AgentInv
<1>5. AgentShape'
  BY <1>1, <1>2 DEF AgentInv, AgentShape, Walking, AtMarker
<1>6. SkillsWait' /\ StatusAtEnd'
  BY <1>1, <1>2, <1>3 DEF AgentInv, SkillsWait, StatusAtEnd, Walking
<1>7. WalkOwesMarkers' /\ BundleOwesSkills' /\ CompleteReportsAll'
  <2>1. CASE agentIssues' # {}
    BY <1>3, <2>1, AgentOwesNothing
  <2>2. CASE agentIssues' = {}
    <3>1. openDir' = spotted.of /\ apc' = "read" /\ agentIssues = {}
      BY <1>2, <2>2
    <3>2. ASSUME NEW e \in Spots, Owed(e)' PROVE Noted(e)' \/ Ahead(e)'
      <4>1. Owed(e)
        BY <1>1, <3>2, OwedStays
      <4>2. Noted(e) \/ Ahead(e)
        BY <1>1, <3>1, <4>1 DEF AgentInv, WalkOwesMarkers, Walking, AtHand, AtMarker
      <4>3. CASE Noted(e)
        BY <1>1, <4>3 DEF Noted
      <4>4. CASE Ahead(e)
        BY <1>1, <3>1, <4>4 DEF Ahead
      <4> QED
        BY <4>2, <4>3, <4>4
    <3> QED
      BY <1>3, <3>1, <3>2 DEF WalkOwesMarkers, BundleOwesSkills, CompleteReportsAll, Bundling
  <2> QED
    BY <2>1, <2>2
<1> QED
  BY <1>4, <1>5, <1>6, <1>7 DEF AgentInv

(* What becomes of the entry that is looked at.                            *)
Staging(e) == sort = "plugins" /\ Marker[e] = "skill"
(* The outcomes of looking at a marker: passed over, refused, too many, or *)
(* to be opened.                                                           *)
LEMMA LookMarkerCases ==
    ASSUME AgentInv, LookMarker
    PROVE  \E e \in toLook :
             LET sight == [of |-> e, print |-> Marked(e)] IN
             \/ agentIssues' # {} /\ apc' = "look" /\ toLook' = toLook \ {e} /\ UNCHANGED <<spotted, staged>>
                  /\ (UNCHANGED manifestsRead \/ (manifestsRead < MaxManifests /\ manifestsRead' = manifestsRead + 1))
             \/ agentIssues' # {} /\ apc' = "accept" /\ toLook' = {} /\ UNCHANGED <<spotted, manifestsRead, staged>>
             \/ garden[e].kind # "dir" /\ ~IsMarker(e) /\ toLook' = toLook \ {e} /\ UNCHANGED <<apc, spotted, manifestsRead, staged, agentIssues>>
             \/ /\ Regular(e) /\ Staging(e) /\ staged' = staged \cup {sight} /\ toLook' = toLook \ {e}
                /\ UNCHANGED <<apc, spotted, manifestsRead, agentIssues>>
             \/ /\ garden[e].kind = "dir" /\ spotted' = sight /\ toLook' = toLook \ {e} /\ apc' = "descend"
                /\ UNCHANGED <<manifestsRead, staged, agentIssues>>
             \/ /\ Regular(e) /\ IsMarker(e) /\ ~Staging(e) /\ spotted' = sight /\ toLook' = toLook \ {e} /\ apc' = "open"
                /\ manifestsRead < MaxManifests /\ manifestsRead' = manifestsRead + 1 /\ UNCHANGED <<staged, agentIssues>>
<1>1. PICK e \in toLook :
        LET k == garden[e].kind
            drop(codes) == toLook' = toLook \ {e} /\ agentIssues' = agentIssues \cup codes /\ UNCHANGED <<apc, spotted, manifestsRead, staged>>
            sight == [of |-> e, print |-> Marked(e)]
            stage == sort = "plugins" /\ Marker[e] = "skill"
        IN  CASE k = "none" -> drop({"path_unavailable"})
              [] k = "link" -> drop({"symlink_rejected"})
              [] k = "dir" /\ e \in Deep -> drop({"depth_limit"})
              [] k \in {"file", "large", "pipe"} /\ ~IsMarker(e) -> drop({})
              [] k = "pipe" /\ IsMarker(e) -> drop({"path_unavailable"})
              [] Regular(e) /\ IsMarker(e) /\ stage ->
                    staged' = staged \cup {sight} /\ toLook' = toLook \ {e} /\ UNCHANGED <<apc, spotted, manifestsRead, agentIssues>>
              [] Regular(e) /\ IsMarker(e) /\ ~stage /\ manifestsRead >= MaxManifests ->
                    StopHere("manifest_limit") /\ UNCHANGED <<spotted, manifestsRead, staged>>
              [] k = "large" /\ IsMarker(e) /\ ~stage /\ manifestsRead < MaxManifests ->
                    /\ toLook' = toLook \ {e} /\ Note("manifest_size_limit") /\ manifestsRead' = manifestsRead + 1
                    /\ UNCHANGED <<apc, spotted, staged>>
              [] OTHER -> /\ spotted' = sight /\ toLook' = toLook \ {e}
                          /\ manifestsRead' = IF k = "dir" THEN manifestsRead ELSE manifestsRead + 1
                          /\ apc' = IF k = "dir" THEN "descend" ELSE "open"
                          /\ UNCHANGED <<staged, agentIssues>>
  BY DEF LookMarker
<1>2. apc = "look" /\ manifestsRead \in 0..MaxManifests /\ garden[e].kind \in SpotKinds
  BY DEF LookMarker, AgentInv, AgentShape, GardenShape, SpotStates
<1>3. CASE garden[e].kind \in {"none", "link"} \/ (garden[e].kind = "dir" /\ e \in Deep)
  BY <1>1, <1>2, <1>3 DEF Regular
<1>4. CASE garden[e].kind = "dir" /\ e \notin Deep
  BY <1>1, <1>2, <1>4 DEF Regular
<1>7. CASE garden[e].kind = "pipe"
  BY <1>1, <1>2, <1>7 DEF Regular
<1>5. CASE Regular(e) /\ (~IsMarker(e) \/ Staging(e))
  BY <1>1, <1>2, <1>5 DEF Regular, Staging
<1>6. CASE Regular(e) /\ IsMarker(e) /\ ~Staging(e)
  <2>1. CASE manifestsRead >= MaxManifests
    BY <1>1, <1>2, <1>6, <2>1 DEF Regular, Staging, StopHere, Note
  <2>2. CASE ~(manifestsRead >= MaxManifests)
    <3>1. manifestsRead < MaxManifests
      BY <1>2, <2>2, AgentAssumption
    <3>2. CASE garden[e].kind = "large"
      BY <1>1, <1>2, <1>6, <2>2, <3>1, <3>2 DEF Regular, Staging, Note
    <3>3. CASE garden[e].kind = "file"
      BY <1>1, <1>2, <1>6, <2>2, <3>1, <3>3 DEF Regular, Staging
    <3> QED
      BY <1>6, <3>2, <3>3 DEF Regular
  <2> QED
    BY <2>1, <2>2
<1> QED
  BY <1>2, <1>3, <1>4, <1>5, <1>6, <1>7 DEF Regular, SpotKinds

(* LookMarker keeps the invariant.                                         *)
LEMMA LookMarkerStep == ASSUME AgentInv, LookMarker PROVE AgentInv'
<1>1. /\ UNCHANGED <<garden, moved, sort, openDir, sheetRead, entriesRead>>
      /\ UNCHANGED <<agentCandidates, accepted, reported, agentStatus>> /\ apc = "look"
  BY DEF LookMarker, userSide, agentResult
<1>2. PICK e0 \in toLook :
             LET sight == [of |-> e0, print |-> Marked(e0)] IN
             \/ agentIssues' # {} /\ apc' = "look" /\ toLook' = toLook \ {e0} /\ UNCHANGED <<spotted, staged>>
                  /\ (UNCHANGED manifestsRead \/ (manifestsRead < MaxManifests /\ manifestsRead' = manifestsRead + 1))
             \/ agentIssues' # {} /\ apc' = "accept" /\ toLook' = {} /\ UNCHANGED <<spotted, manifestsRead, staged>>
             \/ garden[e0].kind # "dir" /\ ~IsMarker(e0) /\ toLook' = toLook \ {e0} /\ UNCHANGED <<apc, spotted, manifestsRead, staged, agentIssues>>
             \/ /\ Regular(e0) /\ Staging(e0) /\ staged' = staged \cup {sight} /\ toLook' = toLook \ {e0}
                /\ UNCHANGED <<apc, spotted, manifestsRead, agentIssues>>
             \/ /\ garden[e0].kind = "dir" /\ spotted' = sight /\ toLook' = toLook \ {e0} /\ apc' = "descend"
                /\ UNCHANGED <<manifestsRead, staged, agentIssues>>
             \/ /\ Regular(e0) /\ IsMarker(e0) /\ ~Staging(e0) /\ spotted' = sight /\ toLook' = toLook \ {e0} /\ apc' = "open"
                /\ manifestsRead < MaxManifests /\ manifestsRead' = manifestsRead + 1 /\ UNCHANGED <<staged, agentIssues>>
  BY LookMarkerCases
<1>3. agentStatus' # "complete"
  BY <1>1 DEF AgentInv, StatusAtEnd
<1>4. GardenShape'
  BY <1>1, OwedStays DEF AgentInv
<1>e. e0 \in Spots /\ toLook' \subseteq toLook /\ apc' \in {"look", "accept", "descend", "open"}
  BY <1>1, <1>2 DEF AgentInv, AgentShape
<1>s. /\ \A s \in staged' : s.of \in Spots
      /\ apc' \in {"descend", "open"} => spotted'.of = e0
      /\ apc' = "accept" => toLook' = {}
      /\ sort = "skills" => staged' = {}
      /\ sort = "plugins" /\ apc' = "open" => Marker[e0] # "skill"
  <2>1. \A s \in staged : s.of \in Spots
    BY DEF AgentInv, AgentShape
  <2>2. sort = "skills" => staged = {}
    BY DEF AgentInv, StatusAtEnd
  <2>3. UNCHANGED staged \/ (staged' = staged \cup {[of |-> e0, print |-> Marked(e0)]} /\ Staging(e0))
    BY <1>2
  <2>4. (\A s \in staged' : s.of \in Spots) /\ (sort = "skills" => staged' = {})
    BY <1>e, <2>1, <2>2, <2>3 DEF Staging
  <2>5. apc' \in {"descend", "open"} => spotted'.of = e0
    BY <1>1, <1>2
  <2>6. apc' = "accept" => toLook' = {}
    BY <1>1, <1>2
  <2>7. sort = "plugins" /\ apc' = "open" => Marker[e0] # "skill"
    BY <1>1, <1>2 DEF Staging
  <2> QED
    BY <2>4, <2>5, <2>6, <2>7
<1>m. manifestsRead' \in 0..MaxManifests
  <2>1. manifestsRead \in 0..MaxManifests
    BY DEF AgentInv, AgentShape
  <2>2. manifestsRead' = manifestsRead \/ (manifestsRead < MaxManifests /\ manifestsRead' = manifestsRead + 1)
    BY <1>2
  <2> QED
    BY <2>1, <2>2, AgentAssumption
<1>5. AgentShape'
  BY <1>1, <1>e, <1>s, <1>m DEF AgentInv, AgentShape, Walking, AtMarker
<1>6. SkillsWait' /\ StatusAtEnd'
  BY <1>1, <1>e, <1>s, <1>3 DEF AgentInv, SkillsWait, StatusAtEnd, Walking
<1>7. WalkOwesMarkers' /\ BundleOwesSkills' /\ CompleteReportsAll'
  <2>1. CASE agentIssues' # {}
    BY <1>3, <2>1, AgentOwesNothing
  <2>2. CASE agentIssues' = {}
    <3>1. agentIssues = {} /\ toLook' = toLook \ {e0} /\ staged \subseteq staged'
      BY <1>2, <2>2
    <3>2. ASSUME NEW e \in Spots, Owed(e)' PROVE Noted(e)' \/ AtHand(e)' \/ Ahead(e)'
      <4>1. Owed(e)
        BY <1>1, <3>2, OwedStays
      <4>2. Noted(e) \/ \E x \in Chain[e] : x \in toLook
        BY <1>1, <3>1, <4>1 DEF AgentInv, WalkOwesMarkers, Walking, AtHand, AtMarker, Ahead
      <4>3. CASE Noted(e)
        BY <1>1, <3>1, <4>3 DEF Noted
      <4>4. CASE \E x \in Chain[e] : x \in toLook /\ x # e0
        BY <3>1, <4>4 DEF Ahead
      <4>5. CASE e0 \in Chain[e] /\ e0 # e
        <5>1. garden[e0].kind = "dir"
          BY <4>1, <4>5 DEF Owed
        <5>2. apc' = "descend" /\ spotted'.of = e0
          BY <1>2, <2>2, <5>1 DEF Regular
        <5> QED
          BY <4>5, <5>2 DEF Ahead
      <4>6. CASE e0 = e
        <5>1. Regular(e) /\ IsMarker(e)
          BY <4>1 DEF Owed
        <5>2. \/ Staging(e) /\ \E s \in staged' : s.of = e
              \/ apc' = "open" /\ spotted'.of = e
          <6>1. \/ Staging(e) /\ [of |-> e, print |-> Marked(e)] \in staged'
                \/ apc' = "open" /\ spotted' = [of |-> e, print |-> Marked(e)]
            BY <1>2, <2>2, <4>6, <5>1 DEF Regular
          <6>2. [of |-> e, print |-> Marked(e)].of = e
            OBVIOUS
          <6> QED
            BY <6>1, <6>2
        <5> QED
          BY <1>1, <5>2 DEF Noted, Staging, AtHand, AtMarker
      <4> QED
        BY <4>2, <4>3, <4>4, <4>5, <4>6
    <3> QED
      BY <1>e, <1>3, <3>2 DEF WalkOwesMarkers, BundleOwesSkills, CompleteReportsAll, Bundling
  <2> QED
    BY <2>1, <2>2
<1> QED
  BY <1>4, <1>5, <1>6, <1>7 DEF AgentInv

(* A step on the marker at hand, in the walk or among the skills of the    *)
(* reported plugins: it stays at hand, or is noted.                        *)
LEMMA MarkerStays ==
    ASSUME AgentInv, apc \in AtMarker, agentIssues' = {} => agentIssues = {},
           apc \in Walking <=> apc' \in Walking, apc \in Bundling <=> apc' \in Bundling,
           apc' # "root" /\ apc' # "accept",
           UNCHANGED <<garden, moved, sort, toLook, spotted, staged, accepted, reported, agentStatus>>,
           agentCandidates \subseteq agentCandidates',
           agentIssues' = {} => apc' \in AtMarker \/ \E c \in agentCandidates' : c.of = spotted.of
    PROVE  WalkOwesMarkers' /\ BundleOwesSkills' /\ CompleteReportsAll'
<1>1. agentStatus' # "complete"
  BY DEF AgentInv, StatusAtEnd, AtMarker
<1>2. ASSUME NEW e \in Spots, agentIssues' = {}, Noted(e) \/ AtHand(e) PROVE Noted(e)' \/ AtHand(e)'
  BY <1>2 DEF Noted, AtHand
<1>3. WalkOwesMarkers'
  <2> SUFFICES ASSUME apc' \in Walking, agentIssues' = {}, NEW e \in Spots, Owed(e)'
               PROVE  Noted(e)' \/ AtHand(e)' \/ Ahead(e)'
    BY DEF WalkOwesMarkers
  <2>1. Owed(e)
    BY OwedStays
  <2>2. Noted(e) \/ AtHand(e) \/ \E x \in Chain[e] : x \in toLook
    BY <2>1 DEF AgentInv, WalkOwesMarkers, Ahead, AtMarker
  <2> QED
    BY <1>2, <2>2 DEF Ahead
<1>4. BundleOwesSkills'
  <2> SUFFICES ASSUME apc' \in Bundling, agentIssues' = {}, NEW e \in Spots, Owed(e)'
               PROVE  IF sort = "plugins" /\ Marker[e] = "skill"
                      THEN BundleOf[e] \in accepted => Noted(e)' \/ AtHand(e)'
                      ELSE IF Marker[e] = "plugin" THEN \E r \in reported : r.of = e
                      ELSE \E c \in agentCandidates' : c.of = e
    BY DEF BundleOwesSkills
  <2>1. Owed(e)
    BY OwedStays
  <2> QED
    BY <1>2, <2>1 DEF AgentInv, BundleOwesSkills
<1> QED
  BY <1>1, <1>3, <1>4 DEF CompleteReportsAll

(* OpenMarker keeps the invariant.                                         *)
LEMMA OpenMarkerStep == ASSUME AgentInv, OpenMarker PROVE AgentInv'
<1>1. /\ UNCHANGED <<garden, moved, sort, openDir, toLook, spotted, entriesRead, manifestsRead, staged>>
      /\ UNCHANGED <<agentCandidates, accepted, reported, agentStatus>> /\ apc \in {"open", "openStaged"}
  BY DEF OpenMarker, userSide, agentResult
<1>2. \/ agentIssues' # {} /\ apc' = Back /\ UNCHANGED sheetRead
      \/ /\ garden[spotted.of].id = spotted.print[1] /\ sheetRead' = garden[spotted.of]
         /\ apc' = (IF apc = "open" THEN "check" ELSE "checkStaged") /\ UNCHANGED agentIssues
  BY DEF OpenMarker, Note
<1>3. \/ apc = "open" /\ apc' \in {"look", "check"}
      \/ apc = "openStaged" /\ apc' \in {"bundled", "checkStaged"}
  BY <1>1, <1>2 DEF Back
<1>4. GardenShape'
  BY <1>1, OwedStays DEF AgentInv
<1>c. apc' \in {"check", "checkStaged"} => sheetRead'.id = spotted'.print[1] /\ spotted'.of \in Spots
  BY <1>1, <1>2, <1>3 DEF Back, AgentInv, AgentShape, AtMarker
<1>5. AgentShape'
  BY <1>1, <1>3, <1>c DEF AgentInv, AgentShape, Walking, Bundling, AtMarker
<1>6. SkillsWait' /\ StatusAtEnd'
  BY <1>1, <1>3 DEF AgentInv, SkillsWait, StatusAtEnd, Walking
<1>7. agentIssues' = {} => agentIssues = {} /\ apc' \in AtMarker
  BY <1>1, <1>2 DEF AtMarker
<1>8. WalkOwesMarkers' /\ BundleOwesSkills' /\ CompleteReportsAll'
  <2>1. /\ apc \in AtMarker /\ apc' # "root" /\ apc' # "accept"
        /\ apc \in Walking <=> apc' \in Walking
        /\ apc \in Bundling <=> apc' \in Bundling
    BY <1>3 DEF AtMarker, Walking, Bundling
  <2> QED
    BY <1>1, <1>7, <2>1, MarkerStays
<1> QED
  BY <1>4, <1>5, <1>6, <1>8 DEF AgentInv

(* CheckMarker keeps the invariant.                                        *)
LEMMA CheckMarkerStep == ASSUME AgentInv, CheckMarker PROVE AgentInv'
<1>1. /\ UNCHANGED <<garden, moved, sort, openDir, toLook, spotted, sheetRead, entriesRead, manifestsRead, staged>>
      /\ UNCHANGED <<accepted, reported, agentStatus>> /\ apc \in {"check", "checkStaged"} /\ apc' = ReturnAgents
  BY DEF CheckMarker, userSide, agentWalk
<1>2. \/ agentIssues' # {} /\ UNCHANGED agentCandidates
      \/ OpenSheet = sheetRead /\ agentCandidates' = agentCandidates \cup {CandidateRead(OpenSheet)} /\ UNCHANGED agentIssues
  BY DEF CheckMarker, Note
<1>3. \/ apc = "check" /\ apc' = "look"
      \/ apc = "checkStaged" /\ apc' = "bundled"
  BY <1>1 DEF ReturnAgents
<1>4. GardenShape'
  BY <1>1, OwedStays DEF AgentInv
<1>s. spotted.of \in Spots /\ sheetRead.id = spotted.print[1]
  BY <1>1 DEF AgentInv, AgentShape, AtMarker
<1>c. \A c \in agentCandidates' : \/ c \in agentCandidates
                                  \/ c.of = spotted.of /\ c.data = c.told /\ c.anchor[1] = c.listed
  <2>1. LET c == CandidateRead(sheetRead) IN c.of = spotted.of /\ c.data = c.told /\ c.anchor[1] = c.listed
    BY <1>s DEF CandidateRead
  <2> QED
    BY <1>2, <2>1
<1>d. agentCandidates \subseteq agentCandidates'
  BY <1>2
<1>5. AgentShape'
  <2>1. \A c \in agentCandidates' : c.of \in Spots /\ c.data = c.told /\ c.anchor[1] = c.listed
    BY <1>c, <1>s DEF AgentInv, AgentShape
  <2>2. apc' \in {"look", "bundled"}
    BY <1>3
  <2>3. reported' \subseteq agentCandidates'
    BY <1>1, <1>d DEF AgentInv, AgentShape
  <2> QED
    BY <1>1, <2>1, <2>2, <2>3 DEF AgentInv, AgentShape, Walking, Bundling, AtMarker
<1>6. SkillsWait' /\ StatusAtEnd'
  <2>1. ASSUME sort = "plugins", NEW c \in agentCandidates', Marker[c.of] = "skill" PROVE BundleOf[c.of] \in accepted
    BY <1>c, <1>3, <2>1 DEF AgentInv, SkillsWait
  <2> QED
    BY <1>1, <1>3, <2>1 DEF AgentInv, SkillsWait, StatusAtEnd, Walking
<1>7. agentIssues' = {} => agentIssues = {} /\ \E c \in agentCandidates' : c.of = spotted.of
  <2> SUFFICES ASSUME agentIssues' = {} PROVE agentIssues = {} /\ \E c \in agentCandidates' : c.of = spotted.of
    OBVIOUS
  <2>1. agentIssues = {} /\ CandidateRead(OpenSheet) \in agentCandidates'
    BY <1>2
  <2>2. CandidateRead(OpenSheet).of = spotted.of
    BY DEF CandidateRead
  <2> QED
    BY <2>1, <2>2
<1>8. WalkOwesMarkers' /\ BundleOwesSkills' /\ CompleteReportsAll'
  <2>1. /\ apc \in AtMarker /\ apc' # "root" /\ apc' # "accept"
        /\ apc \in Walking <=> apc' \in Walking
        /\ apc \in Bundling <=> apc' \in Bundling
    BY <1>3 DEF AtMarker, Walking, Bundling
  <2> QED
    BY <1>1, <1>7, <1>d, <2>1, MarkerStays
<1> QED
  BY <1>4, <1>5, <1>6, <1>8 DEF AgentInv

(* EndAgentWalk keeps the invariant.                                       *)
LEMMA EndAgentWalkStep == ASSUME AgentInv, EndAgentWalk PROVE AgentInv'
<1>1. /\ UNCHANGED <<garden, moved, sort, openDir, toLook, spotted, sheetRead, entriesRead, manifestsRead, staged>>
      /\ UNCHANGED <<agentCandidates, accepted, reported, agentIssues, agentStatus>>
      /\ apc = "look" /\ apc' = "accept" /\ toLook = {}
  BY DEF EndAgentWalk, userSide, agentWalk, agentResult
<1>2. GardenShape' /\ agentStatus' # "complete"
  BY <1>1, OwedStays DEF AgentInv, StatusAtEnd
<1>3. AgentShape'
  BY <1>1 DEF AgentInv, AgentShape, Walking, AtMarker
<1>4. SkillsWait' /\ StatusAtEnd'
  BY <1>1 DEF AgentInv, SkillsWait, StatusAtEnd, Walking
<1>5. ASSUME agentIssues' = {}, NEW e \in Spots, Owed(e)' PROVE Noted(e)'
  <2>1. Owed(e)
    BY <1>1, <1>5, OwedStays
  <2>2. Noted(e)
    BY <1>1, <1>5, <2>1 DEF AgentInv, WalkOwesMarkers, Walking, AtHand, AtMarker, Ahead
  <2> QED
    BY <1>1, <2>2 DEF Noted
<1> QED
  BY <1>1, <1>2, <1>3, <1>4, <1>5 DEF AgentInv, WalkOwesMarkers, BundleOwesSkills, CompleteReportsAll, Bundling

(* AcceptPlugins keeps the invariant.                                      *)
LEMMA AcceptPluginsStep == ASSUME AgentInv, AcceptPlugins PROVE AgentInv'
<1>1. /\ UNCHANGED <<garden, moved, sort, openDir, toLook, spotted, sheetRead, entriesRead, manifestsRead, staged>>
      /\ UNCHANGED <<agentCandidates, agentStatus>> /\ apc = "accept" /\ apc' = "bundled"
  BY DEF AcceptPlugins, userSide, agentWalk
<1>2. PICK refused \in SUBSET Fine(OfPlugin) :
        LET good == Fine(OfPlugin) \ refused IN
        /\ reported' = good
        /\ accepted' = {Base[c.of] : c \in good}
        /\ agentIssues' = agentIssues \cup {NameOf(c) : c \in OfPlugin \ Fine(OfPlugin)} \cup {"identity_rejected" : c \in refused}
  BY DEF AcceptPlugins
<1>3. reported' \subseteq OfPlugin /\ accepted' = {Base[c.of] : c \in reported'}
  BY <1>2 DEF Fine
<1>4. agentIssues' = {} => agentIssues = {} /\ reported' = OfPlugin
  <2> SUFFICES ASSUME agentIssues' = {} PROVE agentIssues = {} /\ reported' = OfPlugin
    OBVIOUS
  <2>1. agentIssues = {} /\ {NameOf(c) : c \in OfPlugin \ Fine(OfPlugin)} = {} /\ {"identity_rejected" : c \in refused} = {}
    BY <1>2
  <2>2. ASSUME NEW c \in OfPlugin \ Fine(OfPlugin) PROVE FALSE
    <3>1. NameOf(c) \in {NameOf(x) : x \in OfPlugin \ Fine(OfPlugin)}
      OBVIOUS
    <3> QED
      BY <2>1, <3>1
  <2>3. ASSUME NEW c \in refused PROVE FALSE
    <3>1. "identity_rejected" \in {"identity_rejected" : x \in refused}
      BY <2>3
    <3> QED
      BY <2>1, <3>1
  <2> QED
    BY <1>2, <2>1, <2>2, <2>3 DEF Fine
<1>5. GardenShape' /\ agentStatus' # "complete"
  BY <1>1, OwedStays DEF AgentInv, StatusAtEnd
<1>6. AgentShape'
  <2>1. OfPlugin \subseteq agentCandidates /\ \A c \in agentCandidates : c.of \in Spots
    BY DEF OfPlugin, AgentInv, AgentShape
  <2>2. reported' \subseteq agentCandidates' /\ accepted' \subseteq Spots
    BY <1>1, <1>3, <2>1, AgentAssumption
  <2> QED
    BY <1>1, <2>2 DEF AgentInv, AgentShape, Bundling, AtMarker
<1>7. SkillsWait' /\ StatusAtEnd'
  <2>1. \A a \in accepted' : \E p \in reported' : Marker[p.of] = "plugin" /\ Base[p.of] = a
    BY <1>3 DEF OfPlugin
  <2>2. sort = "plugins" => \A c \in agentCandidates : Marker[c.of] # "skill"
    BY <1>1 DEF AgentInv, SkillsWait, Walking
  <2> QED
    BY <1>1, <1>5, <2>1, <2>2 DEF AgentInv, SkillsWait, StatusAtEnd, Walking
<1>8. ASSUME agentIssues' = {}, NEW e \in Spots, Owed(e)'
      PROVE  IF sort = "plugins" /\ Marker[e] = "skill" THEN Noted(e)'
             ELSE IF Marker[e] = "plugin" THEN \E r \in reported' : r.of = e
             ELSE \E c \in agentCandidates : c.of = e
  <2>1. Owed(e)
    BY <1>1, <1>8, OwedStays
  <2>2. Noted(e)
    <3>1. toLook = {} /\ agentIssues = {}
      BY <1>1, <1>4, <1>8 DEF AgentInv, StatusAtEnd
    <3>2. ~AtHand(e) /\ ~Ahead(e)
      BY <1>1, <3>1 DEF AtHand, AtMarker, Ahead
    <3> QED
      BY <1>1, <2>1, <3>1, <3>2 DEF AgentInv, WalkOwesMarkers, Walking
  <2> QED
    BY <1>1, <1>4, <1>8, <2>2 DEF Noted, OfPlugin
<1>9. WalkOwesMarkers' /\ CompleteReportsAll'
  BY <1>1, <1>5 DEF WalkOwesMarkers, CompleteReportsAll, Walking
<1>10. BundleOwesSkills'
  BY <1>1, <1>8 DEF BundleOwesSkills
<1> QED
  BY <1>5, <1>6, <1>7, <1>9, <1>10 DEF AgentInv

(* LookStaged keeps the invariant.                                         *)
LEMMA LookStagedStep == ASSUME AgentInv, LookStaged PROVE AgentInv'
<1>1. /\ UNCHANGED <<garden, moved, sort, openDir, toLook, sheetRead, entriesRead>>
      /\ UNCHANGED <<agentCandidates, accepted, reported, agentStatus>> /\ apc = "bundled"
  BY DEF LookStaged, userSide, agentResult
<1>2. PICK s \in Bundled :
        \/ agentIssues' # {} /\ UNCHANGED <<apc, spotted>> /\ staged' \subseteq staged
             /\ (UNCHANGED manifestsRead \/ (manifestsRead < MaxManifests /\ manifestsRead' = manifestsRead + 1))
        \/ /\ staged' = staged \ {s} /\ spotted' = s /\ apc' = "openStaged" /\ UNCHANGED agentIssues
           /\ manifestsRead < MaxManifests /\ manifestsRead' = manifestsRead + 1
  <2>0. manifestsRead \in 0..MaxManifests /\ MaxManifests \in Nat
    BY AgentAssumption DEF AgentInv, AgentShape
  <2>1. PICK s \in Bundled :
        LET e == s.of
            stays(codes) == agentIssues' = agentIssues \cup codes /\ UNCHANGED <<apc, spotted>>
        IN  IF manifestsRead >= MaxManifests
            THEN staged' = {} /\ stays({"manifest_limit"}) /\ UNCHANGED manifestsRead
            ELSE /\ staged' = staged \ {s} /\ manifestsRead' = manifestsRead + 1
                 /\ CASE garden[e].kind = "none" -> stays({Refused(FALSE)})
                      [] garden[e].kind \in {"link", "dir", "pipe"} \/ (Regular(e) /\ garden[e].id # s.print[1]) -> stays({Refused(TRUE)})
                      [] OTHER -> spotted' = s /\ apc' = "openStaged" /\ UNCHANGED agentIssues
    BY DEF LookStaged
  <2>2. CASE manifestsRead >= MaxManifests
    BY <2>1, <2>2
  <2>3. CASE ~(manifestsRead >= MaxManifests)
    <3>1. manifestsRead < MaxManifests /\ staged' = staged \ {s} /\ manifestsRead' = manifestsRead + 1
      BY <2>0, <2>1, <2>3
    <3>2. \/ agentIssues' # {} /\ UNCHANGED <<apc, spotted>>
          \/ spotted' = s /\ apc' = "openStaged" /\ UNCHANGED agentIssues
      <4>1. CASE garden[s.of].kind = "none"
        <5>1. agentIssues' = agentIssues \cup {Refused(FALSE)} /\ UNCHANGED <<apc, spotted>>
          BY <2>1, <2>3, <4>1 DEF Regular
        <5> QED
          BY <5>1
      <4>2. CASE garden[s.of].kind # "none" /\ (garden[s.of].kind \in {"link", "dir", "pipe"} \/ (Regular(s.of) /\ garden[s.of].id # s.print[1]))
        <5>1. agentIssues' = agentIssues \cup {Refused(TRUE)} /\ UNCHANGED <<apc, spotted>>
          BY <2>1, <2>3, <4>2 DEF Regular
        <5> QED
          BY <5>1
      <4>3. CASE garden[s.of].kind # "none" /\ ~(garden[s.of].kind \in {"link", "dir", "pipe"} \/ (Regular(s.of) /\ garden[s.of].id # s.print[1]))
        BY <2>1, <2>3, <4>3 DEF Regular
      <4> QED
        BY <4>1, <4>2, <4>3
    <3> QED
      BY <3>1, <3>2
  <2> QED
    BY <2>2, <2>3
<1>3. s \in staged /\ BundleOf[s.of] \in accepted /\ s.of \in Spots
  BY DEF Bundled, AgentInv, AgentShape
<1>4. GardenShape' /\ agentStatus' # "complete"
  BY <1>1, OwedStays DEF AgentInv, StatusAtEnd
<1>5. AgentShape'
  <2>1. manifestsRead' \in 0..MaxManifests
    <3>1. manifestsRead \in 0..MaxManifests
      BY DEF AgentInv, AgentShape
    <3>2. manifestsRead' = manifestsRead \/ (manifestsRead < MaxManifests /\ manifestsRead' = manifestsRead + 1)
      BY <1>2
    <3> QED
      BY <3>1, <3>2, AgentAssumption
  <2>2. staged' \subseteq staged /\ (apc' = "bundled" \/ (apc' = "openStaged" /\ spotted' = s))
    BY <1>1, <1>2
  <2> QED
    BY <1>1, <1>3, <2>1, <2>2 DEF AgentInv, AgentShape, Bundling, AtMarker
<1>6. SkillsWait' /\ StatusAtEnd'
  <2>1. staged' \subseteq staged /\ (apc' = "bundled" \/ (apc' = "openStaged" /\ spotted' = s))
    BY <1>1, <1>2
  <2> QED
    BY <1>1, <1>3, <1>4, <2>1 DEF AgentInv, SkillsWait, StatusAtEnd, Walking
<1>7. WalkOwesMarkers' /\ CompleteReportsAll'
  BY <1>1, <1>2, <1>4 DEF WalkOwesMarkers, CompleteReportsAll, Walking
<1>8. BundleOwesSkills'
  <2> SUFFICES ASSUME agentIssues' = {}, NEW e \in Spots, Owed(e)'
               PROVE  IF sort = "plugins" /\ Marker[e] = "skill"
                      THEN BundleOf[e] \in accepted => Noted(e)' \/ AtHand(e)'
                      ELSE IF Marker[e] = "plugin" THEN \E r \in reported : r.of = e
                      ELSE \E c \in agentCandidates : c.of = e
    BY <1>1 DEF BundleOwesSkills
  <2>1. Owed(e)
    BY <1>1, OwedStays
  <2>2. agentIssues = {} /\ staged' = staged \ {s} /\ spotted' = s /\ apc' = "openStaged"
    BY <1>2
  <2>3. Noted(e) => Noted(e)' \/ AtHand(e)'
    BY <1>1, <2>2 DEF Noted, AtHand, AtMarker
  <2>4. ~AtHand(e)
    BY <1>1 DEF AtHand, AtMarker
  <2> QED
    BY <1>1, <2>1, <2>2, <2>3, <2>4 DEF AgentInv, BundleOwesSkills, Bundling
<1> QED
  BY <1>4, <1>5, <1>6, <1>7, <1>8 DEF AgentInv

(* ReportSkills keeps the invariant.                                       *)
LEMMA ReportSkillsStep == ASSUME AgentInv, ReportSkills PROVE AgentInv'
<1> DEFINE skills == {c \in agentCandidates : Marker[c.of] = "skill"}
<1>1. /\ UNCHANGED <<garden, moved, sort, openDir, toLook, spotted, sheetRead, entriesRead, manifestsRead, staged>>
      /\ UNCHANGED <<agentCandidates, accepted>> /\ apc = "bundled" /\ apc' = "covered" /\ Bundled = {}
  BY DEF ReportSkills, userSide, agentWalk
<1>2. PICK refused \in SUBSET Fine(skills) :
        /\ reported' = reported \cup (Fine(skills) \ refused)
        /\ agentIssues' = agentIssues \cup {NameOf(c) : c \in skills \ Fine(skills)} \cup {"identity_rejected" : c \in refused}
        /\ agentStatus' = IF agentIssues' = {} THEN "complete" ELSE "partial"
  BY DEF ReportSkills
<1>3. GardenShape'
  BY <1>1, OwedStays DEF AgentInv
<1>4. reported \subseteq reported' /\ reported' \subseteq agentCandidates
  BY <1>2 DEF AgentInv, AgentShape, Fine
<1>5. agentStatus' \in {"complete", "partial"}
  BY <1>2
<1>6. AgentShape'
  BY <1>1, <1>4, <1>5 DEF AgentInv, AgentShape, AtMarker
<1>7. SkillsWait' /\ StatusAtEnd'
  BY <1>1, <1>4 DEF AgentInv, SkillsWait, StatusAtEnd, Walking
<1>8. WalkOwesMarkers' /\ BundleOwesSkills'
  BY <1>1 DEF WalkOwesMarkers, BundleOwesSkills, Walking, Bundling
<1>9. CompleteReportsAll'
  <2> SUFFICES ASSUME agentStatus' = "complete", NEW e \in Spots, Owed(e)',
                      sort = "plugins" /\ Marker[e] = "skill" => BundleOf[e] \in accepted
               PROVE  \E r \in reported' : r.of = e
    BY <1>1 DEF CompleteReportsAll, Owed
  <2>1. agentIssues = {} /\ {NameOf(c) : c \in skills \ Fine(skills)} = {} /\ refused = {}
    <3>1. agentIssues' = {}
      BY <1>2
    <3> QED
      BY <1>2, <3>1
  <2>2. skills = Fine(skills)
    <3>1. ASSUME NEW c \in skills \ Fine(skills) PROVE FALSE
      <4>1. NameOf(c) \in {NameOf(x) : x \in skills \ Fine(skills)}
        OBVIOUS
      <4> QED
        BY <2>1, <4>1
    <3> QED
      BY <3>1 DEF Fine
  <2>3. Owed(e) /\ IsMarker(e)
    BY <1>1, OwedStays DEF Owed
  <2>4. ~AtHand(e)
    BY <1>1 DEF AtHand, AtMarker
  <2>5. IF sort = "plugins" /\ Marker[e] = "skill" THEN Noted(e)
        ELSE IF Marker[e] = "plugin" THEN \E r \in reported : r.of = e
        ELSE \E c \in agentCandidates : c.of = e
    BY <1>1, <2>1, <2>3, <2>4 DEF AgentInv, BundleOwesSkills, Bundling
  <2>6. CASE sort = "plugins" /\ Marker[e] = "skill"
    <3>1. \A s \in staged : s.of # e
      BY <1>1, <2>6 DEF Bundled
    <3>2. PICK c \in agentCandidates : c.of = e
      BY <2>5, <2>6, <3>1 DEF Noted
    <3>3. c \in skills
      BY <2>6, <3>2
    <3> QED
      BY <1>2, <2>1, <2>2, <3>2, <3>3
  <2>7. CASE Marker[e] = "plugin"
    BY <1>4, <2>5, <2>7
  <2>8. CASE sort # "plugins" /\ Marker[e] # "plugin"
    <3>1. Marker[e] = "skill"
      BY <2>3, <2>8 DEF IsMarker
    <3>2. PICK c \in agentCandidates : c.of = e
      BY <2>5, <2>8
    <3>3. c \in skills
      BY <3>1, <3>2
    <3> QED
      BY <1>2, <2>1, <2>2, <3>2, <3>3
  <2>9. sort \in {"plugins", "skills"} /\ Marker[e] \in {"plugin", "skill"}
    BY <2>3 DEF AgentInv, GardenShape, IsMarker
  <2> QED
    BY <2>6, <2>7, <2>8, <2>9
<1> QED
  BY <1>3, <1>6, <1>7, <1>8, <1>9 DEF AgentInv

(* AbortAgents keeps the invariant.                                        *)
LEMMA AbortAgentsStep == ASSUME AgentInv, AbortAgents PROVE AgentInv'
<1>1. /\ UNCHANGED <<garden, moved, sort>> /\ apc' = "aborted" /\ openDir' = Root /\ toLook' = {} /\ staged' = {}
      /\ entriesRead' = 0 /\ manifestsRead' = 0
      /\ agentCandidates' = {} /\ accepted' = {} /\ reported' = {} /\ agentStatus' = None
  BY DEF AbortAgents, userSide
<1>2. GardenShape' /\ agentStatus' # "complete"
  BY <1>1, AgentAssumption, OwedStays DEF AgentInv
<1>3. AgentShape'
  BY <1>1, AgentAssumption DEF AgentShape, AtMarker
<1>4. SkillsWait' /\ StatusAtEnd'
  BY <1>1, <1>2 DEF SkillsWait, StatusAtEnd
<1>5. WalkOwesMarkers' /\ BundleOwesSkills' /\ CompleteReportsAll'
  BY <1>1, <1>2, AgentOwesNothing
<1> QED
  BY <1>2, <1>3, <1>4, <1>5 DEF AgentInv

(* Every step of the agent collector keeps the invariant.                  *)
LEMMA AgentNext_Inv == AgentInv /\ [NextAgents]_agentVars => AgentInv'
<1> SUFFICES ASSUME AgentInv, [NextAgents]_agentVars PROVE AgentInv'
  OBVIOUS
<1>1. CASE NextAgents
  BY <1>1, OpenAgentRootStep, ReadAgentDirectoryStep, LookMarkerStep, DescendStep, OpenMarkerStep, CheckMarkerStep,
     EndAgentWalkStep, AcceptPluginsStep, LookStagedStep, ReportSkillsStep, AbortAgentsStep, MoveEntryStep DEF NextAgents
<1>2. CASE UNCHANGED agentVars
  <2>1. UNCHANGED <<garden, moved, sort, apc, openDir, toLook, spotted, sheetRead, entriesRead, manifestsRead, staged,
                    agentCandidates, accepted, reported, agentIssues, agentStatus>>
    BY <1>2 DEF agentVars, userSide, agentWalk, agentResult
  <2>2. GardenShape' /\ AgentShape'
    BY <2>1 DEF AgentInv, GardenShape, AgentShape
  <2>3. SkillsWait' /\ StatusAtEnd'
    BY <2>1 DEF AgentInv, SkillsWait, StatusAtEnd
  <2>4. \A e \in Spots : Owed(e)' = Owed(e) /\ Noted(e)' = Noted(e) /\ AtHand(e)' = AtHand(e) /\ Ahead(e)' = Ahead(e)
    BY <2>1 DEF Owed, Regular, IsMarker, Calm, Noted, AtHand, Ahead
  <2>5. WalkOwesMarkers' /\ BundleOwesSkills'
    BY <2>1, <2>4 DEF AgentInv, WalkOwesMarkers, BundleOwesSkills
  <2>6. CompleteReportsAll'
    BY <2>1 DEF AgentInv, CompleteReportsAll, Regular, IsMarker, Calm
  <2> QED
    BY <2>2, <2>3, <2>5, <2>6 DEF AgentInv
<1> QED
  BY <1>1, <1>2

-----------------------------------------------------------------------------
(* The IDE extensions *)

Products == Below(JRoot)
Listed == {n \in DOMAIN Up : Role[n] \in {"extension", "plugin"}}
NodeKinds == {"none", "dir", "file", "large", "link"}
NodeStates == [kind : NodeKinds, id : Nat, time : Nat, data : DOMAIN Docs]

(* The layout: what is listed, and that it has a manifest.                 *)
LEMMA Layout ==
    /\ DOMAIN Up = Nodes \ {VRoot, JRoot} /\ Listed \subseteq Nodes /\ Products \subseteq Nodes \ {VRoot, JRoot}
    /\ Below(VRoot) \subseteq Listed /\ None \notin Products
    /\ \A p \in Products : Below(Only(p)) \subseteq Listed /\ Only(p) \in Nodes
    /\ \A e \in Listed : Manifest(e) \in Nodes
<1>1. /\ DOMAIN Up = Nodes \ {VRoot, JRoot} /\ Listed \subseteq Nodes /\ Products \subseteq Nodes \ {VRoot, JRoot}
      /\ None \notin Products
  BY IdeAssumption DEF Listed, Products, Below
<1>2. Below(VRoot) \subseteq Listed
  BY IdeAssumption DEF Below, Listed, RoleIn
<1>3. \A d \in Nodes : Role[d] \in {"extension", "product", "plugin", "meta"} => Only(d) \in Below(d)
  BY IdeAssumption DEF Only
<1>4. ASSUME NEW p \in Products PROVE Below(Only(p)) \subseteq Listed /\ Only(p) \in Nodes
  <2>1. p \in Nodes /\ Role[p] = "product"
    BY <1>1, IdeAssumption DEF Products, Below, RoleIn
  <2>2. Only(p) \in DOMAIN Up /\ Up[Only(p)] = p
    BY <1>3, <2>1 DEF Below
  <2>3. p # VRoot /\ p # JRoot /\ Only(p) # VRoot /\ Only(p) # JRoot
    BY <1>1, <2>2
  <2>4. Role[Only(p)] = "plugins"
    BY <2>1, <2>2, <2>3, IdeAssumption DEF RoleIn
  <2>5. ASSUME NEW e \in Below(Only(p)) PROVE e \in Listed
    <3>1. e \in DOMAIN Up /\ Up[e] = Only(p)
      BY DEF Below
    <3>2. Role[e] = "plugin"
      BY <2>3, <2>4, <3>1, IdeAssumption DEF RoleIn
    <3> QED
      BY <3>1, <3>2 DEF Listed
  <2> QED
    BY <1>1, <2>2, <2>5
<1>5. ASSUME NEW e \in Listed PROVE Manifest(e) \in Nodes
  <2>1. e \in Nodes /\ Role[e] \in {"extension", "plugin"} /\ e # VRoot /\ e # JRoot
    BY <1>1 DEF Listed
  <2>2. Only(e) \in DOMAIN Up /\ Up[Only(e)] = e
    BY <1>3, <2>1 DEF Below
  <2>3. CASE Role[e] = "extension"
    BY <1>1, <2>2, <2>3 DEF Manifest
  <2>4. CASE Role[e] = "plugin"
    <3>1. Role[Only(e)] = "meta" /\ Only(e) \in Nodes
      BY <1>1, <2>1, <2>2, <2>4, IdeAssumption DEF RoleIn
    <3>2. Only(Only(e)) \in DOMAIN Up
      BY <1>3, <3>1 DEF Below
    <3> QED
      BY <1>1, <2>4, <3>2 DEF Manifest
  <2> QED
    BY <2>1, <2>3, <2>4
<1> QED
  BY <1>1, <1>2, <1>4, <1>5

-----------------------------------------------------------------------------
(* Manifests: what the parsers let pass states its name and its version    *)
(* once.                                                                   *)
LEMMA NamedOnce ==
    ASSUME NEW d \in DOMAIN Docs, NEW t
    PROVE  /\ IsFiniteSet(Named(Docs[d], t)) /\ Named(Docs[d], t) \subseteq 1..Len(Docs[d].fields)
           /\ Len(Docs[d].fields) \in Nat
           /\ PlainIdentity(Value(Docs[d], t)) => Named(Docs[d], t) # {}
<1>1. Docs[d].fields \in Seq([tag : STRING, value : Seq(STRING), nested : BOOLEAN])
  BY IdeAssumption
<1>2. Named(Docs[d], t) \subseteq 1..Len(Docs[d].fields) /\ Len(Docs[d].fields) \in Nat
  BY <1>1 DEF Named
<1>3. IsFiniteSet(Named(Docs[d], t))
  <2> DEFINE all == 1..Len(Docs[d].fields)
  <2>1. IsFiniteSet(all)
    BY <1>2, FS_Interval
  <2> HIDE DEF all
  <2>2. Named(Docs[d], t) \in SUBSET all
    BY <1>2 DEF all
  <2> QED
    BY <2>1, <2>2, FS_Subset
<1>4. PlainIdentity(Value(Docs[d], t)) => Named(Docs[d], t) # {}
  BY DEF PlainIdentity, Value
<1> QED
  BY <1>2, <1>3, <1>4

(* A key that occurs once in a manifest has one value.                     *)
LEMMA StatedOnce ==
    ASSUME NEW d \in DOMAIN Docs, Verdict(Docs[d]) = "ok"
    PROVE  \A t \in {"name", "version"} : Cardinality(Named(Docs[d], t)) = 1
<1> SUFFICES ASSUME NEW t \in {"name", "version"} PROVE Cardinality(Named(Docs[d], t)) = 1
  OBVIOUS
<1>0. IsFiniteSet(Named(Docs[d], t))
  BY NamedOnce
<1>1. ASSUME ParseVSCode(Docs[d]) = "ok" PROVE Cardinality(Named(Docs[d], t)) = 1
  <2>1. UniqueKeys(Docs[d]) /\ PlainIdentity(Value(Docs[d], t))
    BY <1>1 DEF ParseVSCode
  <2>2. Named(Docs[d], t) # {}
    BY <2>1, NamedOnce
  <2>3. PICK i \in Named(Docs[d], t) : TRUE
    BY <2>2
  <2>4. Named(Docs[d], t) = {i}
    BY <2>1, <2>3 DEF UniqueKeys, Named
  <2> QED
    BY <2>4, FS_Singleton
<1>2. ASSUME ParseJetBrains(Docs[d]) = "ok" PROVE Cardinality(Named(Docs[d], t)) = 1
  <2>1. UniqueElements(Docs[d]) /\ t \in IdentityElements /\ PlainIdentity(Value(Docs[d], t))
    BY <1>2 DEF ParseJetBrains, IdentityElements
  <2>2. Named(Docs[d], t) # {} /\ Cardinality(Named(Docs[d], t)) <= 1
    BY <2>1, NamedOnce DEF UniqueElements
  <2>3. Cardinality(Named(Docs[d], t)) \in Nat /\ Cardinality(Named(Docs[d], t)) # 0
    BY <1>0, <2>2, FS_CardinalityType, FS_EmptySet
  <2> QED
    BY <2>2, <2>3
<1> QED
  BY <1>1, <1>2 DEF Verdict

(* The greatest of the places of a key has its value.                      *)
LEMMA ValueIsText ==
    ASSUME NEW d \in DOMAIN Docs, NEW t, Value(Docs[d], t) # <<>>
    PROVE  Value(Docs[d], t) \in Seq(STRING)
<1> DEFINE N == Named(Docs[d], t)
           n == Len(Docs[d].fields)
           S == {n - i : i \in N}
<1>1. N # {} /\ N \subseteq 1..n /\ n \in Nat
  BY NamedOnce DEF Value
<1>2. S \in SUBSET Nat /\ S # {}
  BY <1>1
<1> HIDE DEF S
<1>3. \E x \in S : \A y \in S : x <= y
  BY <1>2, LeastOf
<1>4. PICK x \in S : \A y \in S : x <= y
  BY <1>3
<1>5. PICK i \in N : x = n - i
  BY <1>4 DEF S
<1>6. \A j \in N : j <= i
  <2> SUFFICES ASSUME NEW j \in N PROVE j <= i
    OBVIOUS
  <2>1. n - i <= n - j
    BY <1>4, <1>5 DEF S
  <2> QED
    BY <1>1, <2>1
<1>7. \E k \in N : \A j \in N : j <= k
  BY <1>6
<1>8. PICK k \in N : Value(Docs[d], t) = Docs[d].fields[k].value
  BY <1>1, <1>7 DEF Value
<1>9. Docs[d].fields \in Seq([tag : STRING, value : Seq(STRING), nested : BOOLEAN]) /\ k \in 1..Len(Docs[d].fields)
  BY <1>1, <1>8, IdeAssumption
<1>10. Docs[d].fields[k] \in [tag : STRING, value : Seq(STRING), nested : BOOLEAN]
  <2> DEFINE F == Docs[d].fields
             R == [tag : STRING, value : Seq(STRING), nested : BOOLEAN]
  <2>1. F \in Seq(R) /\ k \in 1..Len(F)
    BY <1>9
  <2> HIDE DEF F, R
  <2>2. F[k] \in R
    BY <2>1
  <2> QED
    BY <2>2 DEF F, R
<1> QED
  BY <1>8, <1>10

(* An entry point stays below the directory of its extension.              *)
LEMMA EntrypointInside ==
    ASSUME NEW v \in Seq(STRING)
    PROVE  \A k \in DOMAIN Entrypoint(v) : Entrypoint(v)[k] \notin Astray
<1> DEFINE local == IF v # <<>> /\ Head(v) = "." THEN Tail(v) ELSE v
<1>1. local \in Seq(STRING)
  <2>1. v # <<>> => Tail(v) \in Seq(STRING)
    BY HeadTailProperties
  <2> QED
    BY <2>1
<1>2. CASE local = <<>> \/ \E i \in DOMAIN local : local[i] \in Astray
  <2>1. Entrypoint(v) = <<"invalid">>
    BY <1>2 DEF Entrypoint
  <2>2. "invalid" \notin Astray
    BY Zenon DEF Astray
  <2> QED
    BY <2>1, <2>2
<1>3. CASE ~(local = <<>> \/ \E i \in DOMAIN local : local[i] \in Astray)
  <2> DEFINE last == local[Len(local)]
             clean == IF last \in DOMAIN JS THEN JS[last] ELSE last
  <2>1. Entrypoint(v) = [local EXCEPT ![Len(local)] = clean]
    BY <1>3 DEF Entrypoint
  <2> HIDE DEF local
  <2>2. Len(local) \in DOMAIN local
    BY <1>1, <1>3
  <2>3. clean \notin Astray
    BY <1>3, <2>2, IdeAssumption
  <2> HIDE DEF clean
  <2> QED
    BY <1>1, <1>3, <2>1, <2>2, <2>3
<1> QED
  BY <1>2, <1>3

IdentityOfManifest(r) ==
    /\ r.doc \in DOMAIN Docs /\ r.doc = r.told
    /\ \A t \in {"name", "version"} : Cardinality(Named(Docs[r.doc], t)) = 1
    /\ \A i \in r.issued : i[1] = "entrypoint" => \A k \in DOMAIN i[2] : i[2][k] \notin Astray

(* What is reported of a manifest has the identity the manifest states.    *)
LEMMA ReportOfManifest ==
    ASSUME NEW d \in DOMAIN Docs, Verdict(Docs[d]) = "ok", NEW m, m.data = d
    PROVE  IdentityOfManifest(ReportExtension(m, d)) /\ ReportExtension(m, d).of = extension.of
<1> DEFINE r == ReportExtension(m, d)
<1>1. r.doc = d /\ r.told = d /\ r.issued = IssuedFor(Docs[d]) /\ r.of = extension.of
  BY DEF ReportExtension
<1>2. ASSUME NEW i \in IssuedFor(Docs[d]), i[1] = "entrypoint" PROVE \A k \in DOMAIN i[2] : i[2][k] \notin Astray
  <2>1. i # <<"manifest">> /\ i # <<"payload-tree">>
    BY <1>2
  <2>2. PICK t \in {"main", "browser"} : Value(Docs[d], t) # <<>> /\ i = <<"entrypoint", Entrypoint(Value(Docs[d], t))>>
    BY <1>2, <2>1 DEF IssuedFor
  <2>3. i[2] = Entrypoint(Value(Docs[d], t))
    BY <2>2
  <2>4. Value(Docs[d], t) \in Seq(STRING)
    BY <2>2, ValueIsText
  <2>5. \A k \in DOMAIN Entrypoint(Value(Docs[d], t)) : Entrypoint(Value(Docs[d], t))[k] \notin Astray
    BY <2>4, EntrypointInside
  <2> QED
    BY <2>3, <2>5
<1> HIDE DEF r
<1> QED
  BY <1>1, <1>2, StatedOnce DEF IdentityOfManifest, r

-----------------------------------------------------------------------------
AtExtension == {"open", "manifest", "check"}
Visiting == {"entry"} \cup AtExtension

IdeTyped == disk \in [Nodes -> NodeStates] /\ touched \in Seq(Nodes)

IdeShape ==
    /\ ipc \in {"vroot", "vread", "jroot", "jread", "product", "plugins", "covered", "aborted"} \cup Visiting
    /\ budget \in 0..JBudget /\ coverage \in Statuses /\ expansion \in {None, "partial", "unavailable"}
    /\ product \in {None} \cup Products /\ productsLeft \subseteq Products /\ extensionsLeft \subseteq Listed
    /\ ipc \in AtExtension => extension.of \in Listed
    /\ ipc = "check" => sheet.data \in DOMAIN Docs
    /\ ipc = "plugins" => product # None
    /\ ipc \in {"vroot", "vread", "jroot", "jread", "product", "covered"} => product = None

(* One target after the other, each once.                                  *)
TargetsOnce ==
    /\ ideTargets \subseteq ({VRoot, JRoot} \cup Products) \X Statuses
    /\ \A t, u \in ideTargets : t[1] = u[1] => t = u
    /\ ipc \in {"vroot", "vread"} \cup Visiting /\ product = None => ideTargets = {}
    /\ ipc \in {"jroot", "jread"} => \A t \in ideTargets : t[1] = VRoot
    /\ ipc # "covered" => \A t \in ideTargets : t[1] # JRoot
    /\ \A t \in ideTargets : t[1] \notin productsLeft /\ t[1] # product
    /\ product \notin productsLeft

ReportsTrue == \A r \in observed : IdentityOfManifest(r)

(* A directory that was there all the time.                                *)
Stayed(e) == IsFolder(e) /\ IdeUntouched(e)
Told(e) == \E r \in observed : r.of = e
Searched(d) == \A e \in Below(d) : Stayed(e) => Told(e)
Searching == IF product = None THEN VRoot ELSE Only(product)

EntriesOwed ==
    ipc \in Visiting /\ coverage = "complete" =>
        \A e \in Below(Searching) : Stayed(e) => e \in extensionsLeft \/ (ipc \in AtExtension /\ extension.of = e) \/ Told(e)
TargetsSearched ==
    /\ Covered(VRoot, "complete") => Searched(VRoot)
    /\ \A p \in Products : Covered(p, "complete") => Searched(Only(p))
ProductsOwed ==
    (ipc \in {"product", "plugins"} \/ (ipc \in Visiting /\ product # None)) /\ expansion = None =>
        \A p \in Products : Stayed(p) => p \in productsLeft \cup {product} \/ \E s \in Statuses : Covered(p, s)
ProductsCovered ==
    ipc = "covered" /\ (\A s \in {"partial", "unavailable", "not_present"} : ~Covered(JRoot, s)) =>
        \A p \in Products : Stayed(p) => \E s \in Statuses : Covered(p, s)

IdeInv ==
    /\ IdeTyped /\ IdeShape /\ TargetsOnce /\ ReportsTrue
    /\ EntriesOwed /\ TargetsSearched /\ ProductsOwed /\ ProductsCovered

-----------------------------------------------------------------------------
(* What the invariant says of editors in the words of the properties.      *)
LEMMA IdeInvMeans == IdeInv => IdeTypeOK /\ CompleteListsAll /\ AnchorHoldsManifest /\ IdentityIsStated
<1> SUFFICES ASSUME IdeInv PROVE IdeTypeOK /\ CompleteListsAll /\ AnchorHoldsManifest /\ IdentityIsStated
  OBVIOUS
<1>1. IdeTypeOK
  <2>1. {VRoot, JRoot} \cup Products \subseteq Nodes /\ Listed \subseteq Nodes
    BY Layout, IdeAssumption
  <2>2. ideTargets \subseteq Nodes \X Statuses /\ \A t, u \in ideTargets : t[1] = u[1] => t = u
    BY <2>1 DEF IdeInv, TargetsOnce
  <2>3. budget \in 0..JBudget /\ coverage \in Statuses /\ expansion \in Statuses \cup {None}
    BY DEF IdeInv, IdeShape, Statuses
  <2>4. product \in {None} \cup Nodes /\ extensionsLeft \subseteq Nodes /\ productsLeft \subseteq Nodes
    BY <2>1 DEF IdeInv, IdeShape
  <2> QED
    BY <2>2, <2>3, <2>4 DEF IdeTypeOK
<1>2. CompleteListsAll
  <2> SUFFICES ASSUME ipc = "covered"
               PROVE  /\ \A e \in There(VRoot) : Covered(VRoot, "complete") /\ IsFolder(e) /\ IdeUntouched(e) => \E r \in observed : r.of = e
                      /\ \A p \in There(JRoot) : /\ IsFolder(p) /\ IdeUntouched(p)
                                                 /\ \A s \in {"partial", "unavailable", "not_present"} : ~Covered(JRoot, s)
                                                 => \E s \in Statuses : Covered(p, s)
                      /\ \A p \in There(JRoot) : Covered(p, "complete") /\ IdeUntouched(p) /\ IdeUntouched(Only(p)) =>
                            \A e \in There(Only(p)) : IsFolder(e) /\ IdeUntouched(e) => \E r \in observed : r.of = e
    BY DEF CompleteListsAll
  <2>1. \A d : There(d) \subseteq Below(d)
    BY DEF There
  <2>2. Covered(VRoot, "complete") => Searched(VRoot)
    BY DEF IdeInv, TargetsSearched
  <2>3. \A p \in Products : Covered(p, "complete") => Searched(Only(p))
    BY DEF IdeInv, TargetsSearched
  <2>4. (\A s \in {"partial", "unavailable", "not_present"} : ~Covered(JRoot, s)) =>
          \A p \in Products : Stayed(p) => \E s \in Statuses : Covered(p, s)
    BY DEF IdeInv, ProductsCovered
  <2> QED
    BY <2>1, <2>2, <2>3, <2>4 DEF Searched, Stayed, Told, Products
<1>3. AnchorHoldsManifest /\ IdentityIsStated
  BY DEF IdeInv, ReportsTrue, IdentityOfManifest, AnchorHoldsManifest, IdentityIsStated
<1> QED
  BY <1>1, <1>2, <1>3

(* It holds before an extension directory is opened.                       *)
LEMMA IdeInit_Inv == InitIde => IdeInv
<1> SUFFICES ASSUME InitIde PROVE IdeInv
  OBVIOUS
<1>1. IdeTyped
  BY IdeAssumption DEF InitIde, IdeTyped, NodeStates, NodeKinds
<1>2. IdeShape
  BY IdeAssumption DEF InitIde, IdeShape, Statuses, AtExtension, Visiting
<1>3. TargetsOnce /\ ReportsTrue
  BY IdeAssumption DEF InitIde, TargetsOnce, ReportsTrue
<1>4. EntriesOwed /\ TargetsSearched /\ ProductsOwed /\ ProductsCovered
  BY DEF InitIde, EntriesOwed, TargetsSearched, ProductsOwed, ProductsCovered, Visiting, AtExtension, Covered
<1> QED
  BY <1>1, <1>2, <1>3, <1>4 DEF IdeInv

-----------------------------------------------------------------------------
(* An issue is never taken back; a listing without one is the whole        *)
(* directory.                                                              *)
LEMMA IssueTells ==
    ASSUME coverage \in Statuses, NEW issue \in {"partial", "unavailable"}, NEW code, IssueManifest(issue, code)
    PROVE  coverage' \in {"partial", "unavailable"}
  BY DEF IssueManifest, IdeAfter, Statuses

(* An issue of an expansion leaves it partial or unavailable.              *)
LEMMA ExpansionTells ==
    ASSUME expansion \in {None, "partial", "unavailable"}, NEW issue \in {"partial", "unavailable"}, NEW code,
           ExpansionIssue(issue, code)
    PROVE  expansion' \in {"partial", "unavailable"} /\ expansion' # None
  BY IdeAssumption DEF ExpansionIssue, IdeAfter

(* The status of a root that could not be opened is not complete.          *)
LEMMA RootAnswers ==
    /\ \A n : OpenRootOf(n) \subseteq {"missing", "ok", "unsafe", "failed"}
    /\ \A n : \A a \in OpenRootOf(n) : a # "ok" => RootStatus(a)[1] \in {"not_present", "partial", "unavailable"}
<1>1. \A n : OpenRootOf(n) \subseteq {"missing", "ok", "unsafe", "failed"}
  BY DEF OpenRootOf
<1>2. \A a \in {"missing", "unsafe", "failed"} : RootStatus(a)[1] \in {"not_present", "partial", "unavailable"}
  BY DEF RootStatus
<1> QED
  BY <1>1, <1>2

(* A listing keeps to its limit, and is whole or told by an issue.         *)
LEMMA ListingTells ==
    ASSUME NEW d, NEW limit \in Nat, NEW l \in Listing(d, limit)
    PROVE  /\ l.names \subseteq Below(d) /\ Cardinality(l.names) \in Nat /\ Cardinality(l.names) <= limit
           /\ l.code = None => l.names = There(d)
           /\ l.code # None => l.status \in {"partial", "unavailable"}
<1> DEFINE all == There(d)
           firsts == {s \in SUBSET all : Cardinality(s) <= limit}
<1>1. \/ Cardinality(all) <= limit /\ l = Read(all, "complete", None)
      \/ \E s \in firsts : l = Read(s, "partial", "entry_limit")
      \/ \E s \in firsts : l = Read(s, IF s = {} THEN "unavailable" ELSE "partial", "path_unavailable")
  BY DEF Listing
<1>2. all \subseteq Below(d) /\ IsFiniteSet(all)
  <2>1. all \in SUBSET Nodes
    BY Layout DEF There, Below
  <2>2. IsFiniteSet(Nodes)
    BY IdeAssumption
  <2> HIDE DEF all
  <2>3. IsFiniteSet(all)
    BY <2>1, <2>2, FS_Subset
  <2>4. all \subseteq Below(d)
    BY DEF all, There
  <2> QED
    BY <2>3, <2>4
<1>3. ASSUME NEW s \in SUBSET all PROVE Cardinality(s) \in Nat /\ s \subseteq Below(d)
  <2> HIDE DEF all
  <2>1. IsFiniteSet(s)
    BY <1>2, FS_Subset
  <2> QED
    BY <1>2, <2>1, FS_CardinalityType
<1>4. None \notin {"entry_limit", "path_unavailable"}
  BY IdeAssumption
<1> HIDE DEF all
<1> QED
  BY <1>1, <1>3, <1>4 DEF Read, all

-----------------------------------------------------------------------------
(* What an editor touched did not stay.                                    *)
LEMMA StayedShrinks ==
    ASSUME IdeInv, NEW n \in Nodes, Touch(n), NEW e \in Nodes, Stayed(e)'
    PROVE  Stayed(e)
<1>1. /\ disk \in [Nodes -> NodeStates] /\ touched \in Seq(Nodes) /\ touched' = Append(touched, n)
      /\ \A x \in Nodes : x # n => disk'[x] = disk[x]
  BY DEF IdeInv, IdeTyped, Touch
<1>2. /\ Len(touched) + 1 \in DOMAIN touched' /\ touched'[Len(touched) + 1] = n
      /\ \A i \in DOMAIN touched : i \in DOMAIN touched' /\ touched'[i] = touched[i]
  BY <1>1
<1>3. IdeUntouched(e) /\ n # e
  BY <1>2 DEF Stayed, IdeUntouched
<1> QED
  BY <1>1, <1>3 DEF Stayed, IsFolder, Holds

(* Touch keeps the invariant.                                              *)
LEMMA TouchStep == ASSUME IdeInv, NEW n \in Nodes, Touch(n) PROVE IdeInv'
<1>1. UNCHANGED <<ipc, product, productsLeft, extensionsLeft, budget, extension, sheet, coverage, expansion, ideTargets, observed>>
  BY DEF Touch, listing, ideResult
<1>2. IdeTyped'
  <2>1. disk \in [Nodes -> NodeStates] /\ touched \in Seq(Nodes)
    BY DEF IdeInv, IdeTyped
  <2>2. Len(touched) + 1 \in Nat
    BY <2>1
  <2>3. PICK d \in DOMAIN Docs, k \in NodeKinds, id \in {disk[n].id, Len(touched) + 1} :
          disk' = [disk EXCEPT ![n] = [kind |-> k, id |-> id, time |-> Len(touched) + 1, data |-> d]]
    BY DEF Touch, NodeKinds
  <2>4. disk[n].id \in Nat
    BY <2>1 DEF NodeStates
  <2>5. [kind |-> k, id |-> id, time |-> Len(touched) + 1, data |-> d] \in NodeStates
    BY <2>2, <2>3, <2>4 DEF NodeStates
  <2>6. disk' \in [Nodes -> NodeStates]
    BY <2>1, <2>3, <2>5
  <2>7. touched' \in Seq(Nodes)
    BY <2>1 DEF Touch
  <2> QED
    BY <2>6, <2>7 DEF IdeTyped
<1>3. IdeShape' /\ TargetsOnce' /\ ReportsTrue'
  BY <1>1 DEF IdeInv, IdeShape, TargetsOnce, ReportsTrue
<1>4. \A d, e : e \in Below(d) => e \in Nodes
  BY Layout DEF Below
<1>5. \A e \in Nodes : Stayed(e)' => Stayed(e)
  BY StayedShrinks
<1>6. EntriesOwed'
  <2>1. Searching' = Searching /\ \A e : Told(e)' = Told(e)
    BY <1>1 DEF Searching, Told
  <2> QED
    BY <1>1, <1>4, <1>5, <2>1 DEF IdeInv, EntriesOwed
<1>7. TargetsSearched'
  <2>1. \A d, s : Covered(d, s)' = Covered(d, s)
    BY <1>1 DEF Covered
  <2>2. ASSUME NEW d, Searched(d) PROVE Searched(d)'
    BY <1>1, <1>4, <1>5, <2>2 DEF Searched, Told
  <2> QED
    BY <2>1, <2>2 DEF IdeInv, TargetsSearched
<1>8. ProductsOwed' /\ ProductsCovered'
  <2>1. \A p \in Products : Stayed(p)' => Stayed(p)
    BY <1>4, <1>5 DEF Products
  <2>2. \A d, s : Covered(d, s)' = Covered(d, s)
    BY <1>1 DEF Covered
  <2> QED
    BY <1>1, <2>1, <2>2 DEF IdeInv, ProductsOwed, ProductsCovered
<1> QED
  BY <1>2, <1>3, <1>6, <1>7, <1>8 DEF IdeInv

(* What is known of the disk survives a step that leaves it alone.         *)
LEMMA DiskStays ==
    ASSUME UNCHANGED <<disk, touched>>
    PROVE  (IdeTyped => IdeTyped') /\ \A e : Stayed(e)' <=> Stayed(e)
  BY DEF IdeTyped, Stayed, IsFolder, Holds, IdeUntouched

(* What was searched stays searched, and a target that is not complete     *)
(* says nothing.                                                           *)
LEMMA SearchedStays ==
    ASSUME IdeInv, UNCHANGED <<disk, touched>>, observed \subseteq observed',
           \A d \in {VRoot} \cup Products : <<d, "complete">> \in ideTargets' => <<d, "complete">> \in ideTargets
    PROVE  TargetsSearched'
<1>1. \A d : Searched(d) => Searched(d)'
  BY DiskStays DEF Searched, Told
<1> QED
  BY <1>1 DEF IdeInv, TargetsSearched, Covered

AmongProducts == ipc \in {"product", "plugins"} \/ (ipc \in Visiting /\ product # None)
(* What is known of the products survives a step that leaves them alone.   *)
LEMMA ProductsStay ==
    ASSUME IdeInv, UNCHANGED <<disk, touched>>, ideTargets \subseteq ideTargets', AmongProducts' => AmongProducts,
           expansion' = None => expansion = None, ipc' # "covered",
           expansion' = None => \A p \in productsLeft \cup {product} : p \in Products /\ Stayed(p) =>
                                    p \in productsLeft' \cup {product'} \/ \E s \in Statuses : <<p, s>> \in ideTargets'
    PROVE  ProductsOwed' /\ ProductsCovered'
<1>1. ASSUME AmongProducts', expansion' = None, NEW p \in Products, Stayed(p)'
      PROVE  p \in productsLeft' \cup {product'} \/ \E s \in Statuses : Covered(p, s)'
  <2>1. AmongProducts /\ expansion = None /\ Stayed(p)
    BY <1>1, DiskStays
  <2>2. p \in productsLeft \cup {product} \/ \E s \in Statuses : <<p, s>> \in ideTargets
    BY <2>1 DEF IdeInv, ProductsOwed, AmongProducts, Covered
  <2> QED
    BY <1>1, <2>1, <2>2 DEF Covered
<1> QED
  BY <1>1 DEF ProductsOwed, ProductsCovered, AmongProducts

(* A step on one entry of a directory.                                     *)
LEMMA VisitStep ==
    ASSUME IdeInv, ipc \in Visiting, ipc' \in Visiting,
           UNCHANGED <<disk, touched, product, productsLeft, budget, expansion, ideTargets>>,
           observed \subseteq observed', \A r \in observed' : IdentityOfManifest(r),
           coverage' \in Statuses, extensionsLeft' \subseteq extensionsLeft,
           ipc' \in AtExtension => extension'.of \in Listed, ipc' = "check" => sheet'.data \in DOMAIN Docs,
           coverage' = "complete" => coverage = "complete",
           coverage' = "complete" => \A e : Stayed(e) /\ (e \in extensionsLeft \/ (ipc \in AtExtension /\ extension.of = e)) =>
                e \in extensionsLeft' \/ (ipc' \in AtExtension /\ extension'.of = e) \/ Told(e)'
    PROVE  IdeInv'
<1>1. IdeTyped'
  BY DiskStays DEF IdeInv
<1>2. IdeShape'
  <2>1. ipc' \notin {"plugins", "vroot", "vread", "jroot", "jread", "product", "covered"}
    BY DEF Visiting, AtExtension
  <2>2. extensionsLeft' \subseteq Listed
    BY DEF IdeInv, IdeShape
  <2> QED
    BY <2>1, <2>2 DEF IdeInv, IdeShape
<1>3. TargetsOnce' /\ ReportsTrue'
  <2>1. ipc' \notin {"vroot", "vread", "jroot", "jread", "covered"} /\ ipc # "covered"
    BY DEF Visiting, AtExtension
  <2> QED
    BY <2>1 DEF IdeInv, TargetsOnce, ReportsTrue
<1>4. EntriesOwed'
  <2> SUFFICES ASSUME coverage' = "complete", NEW e \in Below(Searching), Stayed(e)'
               PROVE  e \in extensionsLeft' \/ (ipc' \in AtExtension /\ extension'.of = e) \/ Told(e)'
    BY DEF EntriesOwed, Searching
  <2>1. Stayed(e)
    BY DiskStays
  <2>2. e \in extensionsLeft \/ (ipc \in AtExtension /\ extension.of = e) \/ Told(e)
    BY <2>1 DEF IdeInv, EntriesOwed
  <2>3. Told(e) => Told(e)'
    BY DEF Told
  <2> QED
    BY <2>1, <2>2, <2>3
<1>5. TargetsSearched'
  BY SearchedStays
<1>6. ProductsOwed' /\ ProductsCovered'
  <2>1. (AmongProducts' => AmongProducts) /\ ipc' # "covered"
    BY DEF AmongProducts, Visiting, AtExtension
  <2> QED
    BY <2>1, ProductsStay
<1> QED
  BY <1>1, <1>2, <1>3, <1>4, <1>5, <1>6 DEF IdeInv

(* LookExtension keeps the invariant.                                      *)
LEMMA LookExtensionStep == ASSUME IdeInv, LookExtension PROVE IdeInv'
<1>1. /\ UNCHANGED <<disk, touched, product, productsLeft, budget, sheet, expansion, ideTargets, observed>> /\ ipc = "entry"
  BY DEF LookExtension, editorSide, ideResult
<1>2. PICK e \in extensionsLeft :
        /\ extensionsLeft' = extensionsLeft \ {e}
        /\ CASE e \in BadNames -> IssueManifest("partial", "identity_rejected") /\ UNCHANGED <<ipc, extension>>
             [] e \notin BadNames /\ Holds(e, "none") -> IssueManifest("partial", "path_unavailable") /\ UNCHANGED <<ipc, extension>>
             [] e \notin BadNames /\ Holds(e, "link") -> IssueManifest("partial", "symlink_rejected") /\ UNCHANGED <<ipc, extension>>
             [] e \notin BadNames /\ Holds(e, "file") -> Quiet /\ UNCHANGED <<ipc, extension>>
             [] OTHER -> extension' = [of |-> e, id |-> disk[e].id] /\ ipc' = "open" /\ Quiet
  BY DEF LookExtension
<1>3. coverage \in Statuses /\ e \in Listed
  BY DEF IdeInv, IdeShape
<1>4. \/ coverage' \in {"partial", "unavailable"} /\ UNCHANGED <<ipc, extension>>
      \/ UNCHANGED coverage /\ ~Stayed(e) /\ UNCHANGED <<ipc, extension>>
      \/ UNCHANGED coverage /\ extension' = [of |-> e, id |-> disk[e].id] /\ ipc' = "open"
  <2>1. CASE e \in BadNames
    BY <1>2, <1>3, <2>1, IssueTells
  <2>2. CASE e \notin BadNames /\ Holds(e, "none")
    <3>1. IssueManifest("partial", "path_unavailable") /\ UNCHANGED <<ipc, extension>>
      BY <1>2, <2>2 DEF Holds
    <3> QED
      BY <1>3, <3>1, IssueTells
  <2>3. CASE e \notin BadNames /\ Holds(e, "link")
    <3>1. IssueManifest("partial", "symlink_rejected") /\ UNCHANGED <<ipc, extension>>
      BY <1>2, <2>3 DEF Holds
    <3> QED
      BY <1>3, <3>1, IssueTells
  <2>4. CASE e \notin BadNames /\ Holds(e, "file")
    BY <1>2, <2>4 DEF Holds, Quiet, Stayed, IsFolder
  <2>5. CASE e \notin BadNames /\ ~Holds(e, "none") /\ ~Holds(e, "link") /\ ~Holds(e, "file")
    BY <1>2, <2>5 DEF Quiet
  <2> QED
    BY <2>1, <2>2, <2>3, <2>4, <2>5
<1>5. ipc' \in Visiting /\ ipc \in Visiting /\ (ipc' \in AtExtension => extension'.of = e) /\ ipc' # "check"
  BY <1>1, <1>4 DEF Visiting, AtExtension
<1>6. coverage' \in Statuses /\ (coverage' = "complete" => coverage = "complete")
  BY <1>3, <1>4 DEF Statuses
<1>7. ASSUME coverage' = "complete", NEW x, Stayed(x), x \in extensionsLeft \/ (ipc \in AtExtension /\ extension.of = x)
      PROVE  x \in extensionsLeft' \/ (ipc' \in AtExtension /\ extension'.of = x)
  <2>1. x \in extensionsLeft
    BY <1>1, <1>7 DEF AtExtension
  <2> QED
    BY <1>2, <1>4, <1>7, <2>1 DEF AtExtension
<1> QED
  BY <1>1, <1>2, <1>3, <1>5, <1>6, <1>7, VisitStep DEF IdeInv, ReportsTrue

(* The step on the entry at hand: an issue, or it stays at hand or is told.*)
LEMMA AtHandStep ==
    ASSUME IdeInv, ipc \in AtExtension, ipc' \in Visiting,
           UNCHANGED <<disk, touched, product, productsLeft, extensionsLeft, budget, extension, expansion, ideTargets>>,
           observed \subseteq observed', \A r \in observed' : IdentityOfManifest(r),
           ipc' = "check" => sheet'.data \in DOMAIN Docs,
           \/ coverage' \in {"partial", "unavailable"}
           \/ UNCHANGED coverage /\ (ipc' \in AtExtension \/ Told(extension.of)')
    PROVE  IdeInv'
<1>1. ipc \in Visiting /\ extension.of \in Listed /\ coverage \in Statuses
  BY DEF Visiting, IdeInv, IdeShape
<1>2. coverage' \in Statuses /\ (coverage' = "complete" => coverage = "complete")
  BY <1>1 DEF Statuses
<1> QED
  BY <1>1, <1>2, VisitStep

(* OpenExtension keeps the invariant.                                      *)
LEMMA OpenExtensionStep == ASSUME IdeInv, OpenExtension PROVE IdeInv'
<1>1. UNCHANGED <<disk, touched, product, productsLeft, extensionsLeft, budget, extension, sheet, expansion, ideTargets, observed>> /\ ipc = "open"
  BY DEF OpenExtension, editorSide, listing, ideResult
<1>2. coverage \in Statuses
  BY DEF IdeInv, IdeShape
<1>3. \/ (\E code : IssueManifest("partial", code)) /\ ipc' = "entry"
      \/ ipc' = "manifest" /\ UNCHANGED coverage
  BY DEF OpenExtension, Quiet
<1>4. \/ coverage' \in {"partial", "unavailable"} /\ ipc' = "entry"
      \/ UNCHANGED coverage /\ ipc' = "manifest"
  BY <1>2, <1>3, IssueTells
<1>5. ipc \in AtExtension /\ ipc' \in Visiting /\ ipc' # "check"
  BY <1>1, <1>4 DEF Visiting, AtExtension
<1> QED
  BY <1>1, <1>4, <1>5, AtHandStep DEF IdeInv, ReportsTrue, AtExtension

(* OpenManifest keeps the invariant.                                       *)
LEMMA OpenManifestStep == ASSUME IdeInv, OpenManifest PROVE IdeInv'
<1>1. UNCHANGED <<disk, touched, product, productsLeft, extensionsLeft, budget, extension, expansion, ideTargets, observed>> /\ ipc = "manifest"
  BY DEF OpenManifest, editorSide, listing, ideResult
<1>2. coverage \in Statuses /\ Manifest(extension.of) \in Nodes
  BY <1>1, Layout DEF IdeInv, IdeShape, AtExtension
<1>3. \/ (\E code : IssueManifest("partial", code)) /\ ipc' = "entry"
      \/ ipc' = "check" /\ UNCHANGED coverage /\ sheet' = disk[Manifest(extension.of)]
  BY DEF OpenManifest, Quiet, Refuse
<1>4. \/ coverage' \in {"partial", "unavailable"} /\ ipc' = "entry"
      \/ UNCHANGED coverage /\ ipc' = "check" /\ sheet' = disk[Manifest(extension.of)]
  BY <1>2, <1>3, IssueTells
<1>5. ipc \in AtExtension /\ ipc' \in Visiting
  BY <1>1, <1>4 DEF Visiting, AtExtension
<1>6. disk[Manifest(extension.of)].data \in DOMAIN Docs
  BY <1>2 DEF IdeInv, IdeTyped, NodeStates
<1> QED
  BY <1>1, <1>4, <1>5, <1>6, AtHandStep DEF IdeInv, ReportsTrue, AtExtension

(* CheckManifest keeps the invariant.                                      *)
LEMMA CheckManifestStep == ASSUME IdeInv, CheckManifest PROVE IdeInv'
<1>1. UNCHANGED <<disk, touched, product, productsLeft, extensionsLeft, budget, extension, sheet, expansion, ideTargets>> /\ ipc = "check" /\ ipc' = "entry"
  BY DEF CheckManifest, editorSide, listing
<1>2. coverage \in Statuses /\ sheet.data \in DOMAIN Docs
  BY <1>1 DEF IdeInv, IdeShape
<1>3. \/ (\E code : IssueManifest("partial", code)) /\ UNCHANGED observed
      \/ /\ SheetNow = sheet /\ Verdict(Docs[sheet.data]) = "ok" /\ UNCHANGED coverage
         /\ observed' = observed \cup {ReportExtension(SheetNow, sheet.data)}
  BY DEF CheckManifest, Quiet
<1>4. CASE (\E code : IssueManifest("partial", code)) /\ UNCHANGED observed
  <2>1. coverage' \in {"partial", "unavailable"}
    BY <1>2, <1>4, IssueTells
  <2>2. ipc \in AtExtension /\ ipc' \in Visiting /\ ipc' # "check"
    BY <1>1 DEF Visiting, AtExtension
  <2> QED
    BY <1>1, <1>4, <2>1, <2>2, AtHandStep DEF IdeInv, ReportsTrue
<1>5. CASE /\ SheetNow = sheet /\ Verdict(Docs[sheet.data]) = "ok" /\ UNCHANGED coverage
           /\ observed' = observed \cup {ReportExtension(SheetNow, sheet.data)}
  <2> DEFINE r == ReportExtension(sheet, sheet.data)
  <2>1. IdentityOfManifest(r) /\ r.of = extension.of
    BY <1>2, <1>5, ReportOfManifest
  <2>2. observed' = observed \cup {r}
    BY <1>5
  <2> HIDE DEF r
  <2>3. observed \subseteq observed' /\ (\A x \in observed' : IdentityOfManifest(x)) /\ Told(extension.of)'
    BY <1>1, <2>1, <2>2 DEF IdeInv, ReportsTrue, Told
  <2>4. ipc \in AtExtension /\ ipc' \in Visiting /\ ipc' # "check"
    BY <1>1 DEF Visiting, AtExtension
  <2> QED
    BY <1>1, <1>5, <2>3, <2>4, AtHandStep
<1> QED
  BY <1>3, <1>4, <1>5

-----------------------------------------------------------------------------
(* The roots and the products.                                             *)
LEMMA FirstIsNode ==
    ASSUME IdeInv
    PROVE  /\ \A t \in ideTargets : t[1] # None /\ t = <<t[1], t[2]>> /\ t[2] \in Statuses
           /\ VRoot # None /\ JRoot # None /\ VRoot # JRoot
           /\ VRoot \notin Products /\ JRoot \notin Products /\ None \notin Products
<1>1. VRoot # None /\ JRoot # None /\ VRoot # JRoot
  BY IdeAssumption
<1>2. VRoot \notin Products /\ JRoot \notin Products /\ None \notin Products
  BY Layout
<1>3. ideTargets \subseteq ({VRoot, JRoot} \cup Products) \X Statuses
  BY DEF IdeInv, TargetsOnce
<1> QED
  BY <1>1, <1>2, <1>3

(* OpenVSCodeRoot keeps the invariant.                                     *)
LEMMA OpenVSCodeRootStep == ASSUME IdeInv, OpenVSCodeRoot PROVE IdeInv'
<1>1. UNCHANGED <<disk, touched, product, productsLeft, extensionsLeft, budget, extension, sheet, expansion, observed>> /\ ipc = "vroot"
  BY DEF OpenVSCodeRoot, editorSide, listing
<1>2. PICK reply \in OpenRootOf(VRoot) :
        IF reply = "ok" THEN ipc' = "vread" /\ UNCHANGED <<coverage, ideTargets, ideIssues>>
        ELSE /\ ideTargets' = ideTargets \cup {<<VRoot, RootStatus(reply)[1]>>}
             /\ ideIssues' = ideIssues \cup RootStatus(reply)[2]
             /\ ipc' = "jroot" /\ UNCHANGED coverage
  BY DEF OpenVSCodeRoot
<1>3. \/ ipc' = "vread" /\ UNCHANGED <<coverage, ideTargets>>
      \/ \E s \in {"not_present", "partial", "unavailable"} :
            ideTargets' = {<<VRoot, s>>} /\ ipc' = "jroot" /\ UNCHANGED coverage
  <2>1. ideTargets = {}
    BY <1>1 DEF IdeInv, TargetsOnce, IdeShape
  <2>2. reply # "ok" => RootStatus(reply)[1] \in {"not_present", "partial", "unavailable"}
    BY RootAnswers
  <2> QED
    BY <1>2, <2>1, <2>2
<1>4. product = None /\ ideTargets = {}
  BY <1>1 DEF IdeInv, IdeShape, TargetsOnce
<1>5. IdeTyped'
  BY <1>1, DiskStays DEF IdeInv
<1>6. IdeShape'
  BY <1>1, <1>3, <1>4 DEF IdeInv, IdeShape, AtExtension
<1>7. TargetsOnce' /\ ReportsTrue'
  <2>1. \A t \in ideTargets' : t[1] = VRoot /\ ipc' = "jroot" /\ t[2] \in Statuses /\ t = <<VRoot, t[2]>>
    BY <1>3, <1>4 DEF Statuses
  <2>2. \A t, u \in ideTargets' : t = u
    BY <1>3, <1>4
  <2>3. productsLeft \subseteq Products /\ (ipc' = "vread" \/ ipc' = "jroot")
    BY <1>3 DEF IdeInv, IdeShape
  <2>4. ipc' = "vread" => ideTargets' = {}
    BY <1>3, <1>4
  <2> QED
    BY <1>1, <1>4, <2>1, <2>2, <2>3, <2>4, FirstIsNode DEF IdeInv, TargetsOnce, ReportsTrue, Visiting, AtExtension
<1>8. TargetsSearched'
  BY <1>1, <1>3, <1>4, SearchedStays
<1>9. EntriesOwed' /\ ProductsOwed' /\ ProductsCovered'
  BY <1>3 DEF EntriesOwed, ProductsOwed, ProductsCovered, Visiting, AtExtension
<1> QED
  BY <1>5, <1>6, <1>7, <1>8, <1>9 DEF IdeInv

(* ReadVSCodeRoot keeps the invariant.                                     *)
LEMMA ReadVSCodeRootStep == ASSUME IdeInv, ReadVSCodeRoot PROVE IdeInv'
<1>1. UNCHANGED <<disk, touched, product, productsLeft, budget, extension, sheet, expansion, ideTargets, observed>> /\ ipc = "vread" /\ ipc' = "entry"
  BY DEF ReadVSCodeRoot, editorSide, ideResult
<1>2. PICK l \in Listing(VRoot, VLimit) :
        /\ extensionsLeft' = l.names
        /\ IF l.code = None THEN Quiet ELSE IssueManifest(l.status, l.code)
  BY DEF ReadVSCodeRoot
<1>3. coverage \in Statuses /\ product = None
  BY <1>1 DEF IdeInv, IdeShape
<1>4. /\ l.names \subseteq Below(VRoot)
      /\ l.code = None => l.names = There(VRoot)
      /\ l.code # None => l.status \in {"partial", "unavailable"}
  BY ListingTells, IdeAssumption
<1>5. \/ coverage' \in {"partial", "unavailable"}
      \/ UNCHANGED coverage /\ extensionsLeft' = There(VRoot)
  <2>1. CASE l.code = None
    BY <1>2, <1>4, <2>1 DEF Quiet
  <2>2. CASE l.code # None
    BY <1>2, <1>3, <1>4, <2>2, IssueTells
  <2> QED
    BY <2>1, <2>2
<1>6. IdeTyped' /\ ReportsTrue'
  BY <1>1, DiskStays DEF IdeInv, ReportsTrue
<1>7. IdeShape'
  <2>1. extensionsLeft' \subseteq Listed
    BY <1>2, <1>4, Layout
  <2>2. coverage' \in Statuses
    BY <1>3, <1>5 DEF Statuses
  <2> QED
    BY <1>1, <2>1, <2>2 DEF IdeInv, IdeShape, Visiting, AtExtension
<1>8. TargetsOnce'
  BY <1>1 DEF IdeInv, TargetsOnce, Visiting
<1>9. TargetsSearched'
  BY <1>1, SearchedStays
<1>10. EntriesOwed'
  BY <1>1, <1>3, <1>5 DEF EntriesOwed, Searching, There, Stayed, IsFolder, Holds
<1>11. ProductsOwed' /\ ProductsCovered'
  BY <1>1, <1>3 DEF ProductsOwed, ProductsCovered
<1> QED
  BY <1>6, <1>7, <1>8, <1>9, <1>10, <1>11 DEF IdeInv

(* EndVSCode keeps the invariant.                                          *)
LEMMA EndVSCodeStep == ASSUME IdeInv, EndVSCode PROVE IdeInv'
<1>1. /\ UNCHANGED <<disk, touched, product, productsLeft, extensionsLeft, budget, extension, sheet, coverage, expansion, observed>>
      /\ ipc = "entry" /\ ipc' = "jroot" /\ product = None /\ extensionsLeft = {}
      /\ ideTargets' = ideTargets \cup {<<VRoot, coverage>>}
  BY DEF EndVSCode, editorSide, listing
<1>2. ideTargets' = {<<VRoot, coverage>>} /\ coverage \in Statuses
  BY <1>1 DEF IdeInv, TargetsOnce, IdeShape, Visiting
<1>3. IdeTyped' /\ ReportsTrue'
  BY <1>1, DiskStays DEF IdeInv, ReportsTrue
<1>4. IdeShape'
  BY <1>1 DEF IdeInv, IdeShape, AtExtension
<1>5. TargetsOnce'
  <2>1. productsLeft' \subseteq Products
    BY <1>1 DEF IdeInv, IdeShape
  <2>2. product' \notin productsLeft'
    BY <1>1 DEF IdeInv, TargetsOnce
  <2> QED
    BY <1>1, <1>2, <2>1, <2>2, FirstIsNode DEF TargetsOnce, Visiting, AtExtension
<1>6. TargetsSearched'
  <2>1. ASSUME coverage = "complete" PROVE Searched(VRoot)'
    <3>1. \A e \in Below(VRoot) : Stayed(e) => Told(e)
      BY <1>1, <2>1 DEF IdeInv, EntriesOwed, Searching, Visiting, AtExtension
    <3> QED
      BY <1>1, <3>1, DiskStays DEF Searched, Told
  <2>2. Covered(VRoot, "complete")' => coverage = "complete"
    BY <1>2 DEF Covered
  <2>3. \A p \in Products : ~Covered(p, "complete")'
    BY <1>2, FirstIsNode DEF Covered
  <2> QED
    BY <2>1, <2>2, <2>3 DEF TargetsSearched
<1>7. EntriesOwed' /\ ProductsOwed' /\ ProductsCovered'
  BY <1>1 DEF EntriesOwed, ProductsOwed, ProductsCovered, Visiting, AtExtension
<1> QED
  BY <1>3, <1>4, <1>5, <1>6, <1>7 DEF IdeInv

(* OpenJetBrainsRoot keeps the invariant.                                  *)
LEMMA OpenJetBrainsRootStep == ASSUME IdeInv, OpenJetBrainsRoot PROVE IdeInv'
<1>1. UNCHANGED <<disk, touched, product, productsLeft, extensionsLeft, budget, extension, sheet, coverage, expansion, observed>> /\ ipc = "jroot"
  BY DEF OpenJetBrainsRoot, editorSide, listing
<1>2. PICK reply \in OpenRootOf(JRoot) :
        IF reply = "ok" THEN ipc' = "jread" /\ UNCHANGED <<ideTargets, ideIssues>>
        ELSE /\ ideTargets' = ideTargets \cup {<<JRoot, RootStatus(reply)[1]>>}
             /\ ideIssues' = ideIssues \cup RootStatus(reply)[2]
             /\ ipc' = "covered"
  BY DEF OpenJetBrainsRoot
<1>3. \/ ipc' = "jread" /\ UNCHANGED ideTargets
      \/ \E s \in {"not_present", "partial", "unavailable"} : ideTargets' = ideTargets \cup {<<JRoot, s>>} /\ ipc' = "covered"
  BY <1>2, RootAnswers
<1>4. product = None /\ \A t \in ideTargets : t[1] = VRoot
  BY <1>1 DEF IdeInv, IdeShape, TargetsOnce
<1>5. IdeTyped' /\ ReportsTrue'
  BY <1>1, DiskStays DEF IdeInv, ReportsTrue
<1>6. IdeShape'
  BY <1>1, <1>3, <1>4 DEF IdeInv, IdeShape, AtExtension
<1>7. TargetsOnce'
  <2>1. productsLeft' \subseteq Products /\ product' \notin productsLeft' /\ product' = None
    BY <1>1, <1>4 DEF IdeInv, IdeShape, TargetsOnce
  <2>2. CASE ipc' = "jread" /\ UNCHANGED ideTargets
    BY <1>1, <1>4, <2>2 DEF IdeInv, TargetsOnce, Visiting, AtExtension
  <2>3. CASE ipc' # "jread"
    <3>1. PICK s \in {"not_present", "partial", "unavailable"} : ideTargets' = ideTargets \cup {<<JRoot, s>>} /\ ipc' = "covered"
      BY <1>3, <2>3
    <3>2. <<JRoot, s>>[1] = JRoot /\ <<JRoot, s>> \in ({VRoot, JRoot} \cup Products) \X Statuses
      BY DEF Statuses
    <3>3. \A t \in ideTargets' : t \in ideTargets \/ t = <<JRoot, s>>
      BY <3>1
    <3>4. \A t, u \in ideTargets' : t[1] = u[1] => t = u
      BY <1>4, <3>2, <3>3, FirstIsNode DEF IdeInv, TargetsOnce
    <3> QED
      BY <1>1, <1>4, <2>1, <3>1, <3>2, <3>3, <3>4, FirstIsNode DEF IdeInv, TargetsOnce, Visiting, AtExtension
  <2> QED
    BY <1>3, <2>2, <2>3
<1>8. TargetsSearched'
  <2>1. \A d \in {VRoot} \cup Products : <<d, "complete">> \in ideTargets' => <<d, "complete">> \in ideTargets
    BY <1>3, FirstIsNode
  <2> QED
    BY <1>1, <2>1, SearchedStays
<1>9. EntriesOwed' /\ ProductsOwed' /\ ProductsCovered'
  BY <1>3 DEF EntriesOwed, ProductsOwed, ProductsCovered, Visiting, AtExtension, Covered
<1> QED
  BY <1>5, <1>6, <1>7, <1>8, <1>9 DEF IdeInv

(* ReadJetBrainsRoot keeps the invariant.                                  *)
LEMMA ReadJetBrainsRootStep == ASSUME IdeInv, ReadJetBrainsRoot PROVE IdeInv'
<1>1. /\ UNCHANGED <<disk, touched, product, extensionsLeft, extension, sheet, coverage, ideTargets, observed>>
      /\ ipc = "jread" /\ ipc' = "product"
  BY DEF ReadJetBrainsRoot, editorSide
<1>2. PICK l \in Listing(JRoot, budget) :
        /\ productsLeft' = l.names /\ budget' = budget - Cardinality(l.names)
        /\ IF l.code = None THEN UNCHANGED <<expansion, ideIssues>> ELSE ExpansionIssue(l.status, l.code)
  BY DEF ReadJetBrainsRoot
<1>3. budget \in 0..JBudget /\ JBudget \in Nat /\ expansion \in {None, "partial", "unavailable"} /\ product = None
  BY <1>1, IdeAssumption DEF IdeInv, IdeShape
<1>4. /\ l.names \subseteq Products /\ Cardinality(l.names) \in Nat /\ Cardinality(l.names) <= budget
      /\ l.code = None => l.names = There(JRoot)
      /\ l.code # None => l.status \in {"partial", "unavailable"}
  <2>1. budget \in Nat
    BY <1>3
  <2> QED
    BY <2>1, ListingTells DEF Products
<1>5. /\ expansion' \in {None, "partial", "unavailable"}
      /\ expansion' = None => productsLeft' = There(JRoot)
  <2>1. CASE l.code = None
    BY <1>2, <1>3, <1>4, <2>1
  <2>2. CASE l.code # None
    BY <1>2, <1>3, <1>4, <2>2, ExpansionTells
  <2> QED
    BY <2>1, <2>2
<1>6. IdeTyped' /\ ReportsTrue'
  BY <1>1, DiskStays DEF IdeInv, ReportsTrue
<1>7. IdeShape'
  <2>1. budget' \in 0..JBudget
    BY <1>2, <1>3, <1>4
  <2>2. productsLeft' \subseteq Products
    BY <1>2, <1>4
  <2> QED
    BY <1>1, <1>3, <1>5, <2>1, <2>2 DEF IdeInv, IdeShape, AtExtension
<1>8. TargetsOnce'
  <2>1. \A t \in ideTargets : t[1] = VRoot
    BY <1>1 DEF IdeInv, TargetsOnce
  <2> QED
    BY <1>1, <1>2, <1>3, <1>4, <2>1, FirstIsNode DEF IdeInv, TargetsOnce, Visiting, AtExtension
<1>9. TargetsSearched'
  BY <1>1, SearchedStays
<1>10. EntriesOwed' /\ ProductsCovered'
  BY <1>1 DEF EntriesOwed, ProductsCovered, Visiting, AtExtension
<1>11. ProductsOwed'
  BY <1>1, <1>5 DEF ProductsOwed, There, Products, Stayed, IsFolder, Holds
<1> QED
  BY <1>6, <1>7, <1>8, <1>9, <1>10, <1>11 DEF IdeInv

(* Products that are done with: each gets a target, and none is taken      *)
(* twice.                                                                  *)
LEMMA TargetsAdded ==
    ASSUME IdeInv, ipc \in {"product", "entry"}, ipc' = "product", product' = None,
           NEW S \in SUBSET Products, S \subseteq productsLeft \cup {product},
           ipc = "entry" => product # None,
           NEW f \in [S -> Statuses], ideTargets' = ideTargets \cup {<<p, f[p]>> : p \in S},
           productsLeft' \subseteq productsLeft \ S
    PROVE  TargetsOnce'
<1>1. /\ ideTargets \subseteq ({VRoot, JRoot} \cup Products) \X Statuses
      /\ \A t, u \in ideTargets : t[1] = u[1] => t = u
      /\ \A t \in ideTargets : t[1] # JRoot /\ t[1] \notin productsLeft /\ t[1] # product
  BY DEF IdeInv, TargetsOnce
<1>2. \A t \in ideTargets' : t \in ideTargets \/ (t[1] \in S /\ t = <<t[1], f[t[1]]>>)
  OBVIOUS
<1>3. ideTargets' \subseteq ({VRoot, JRoot} \cup Products) \X Statuses
  BY <1>1, <1>2
<1>4. \A t, u \in ideTargets' : t[1] = u[1] => t = u
  BY <1>1, <1>2
<1>5. \A t \in ideTargets' : t[1] # JRoot /\ t[1] \notin productsLeft' /\ t[1] # None
  BY <1>1, <1>2, FirstIsNode
<1>6. None \notin productsLeft'
  BY FirstIsNode DEF IdeInv, IdeShape
<1> QED
  BY <1>3, <1>4, <1>5, <1>6 DEF TargetsOnce, Visiting, AtExtension

(* BudgetSpent keeps the invariant.                                        *)
LEMMA BudgetSpentStep == ASSUME IdeInv, BudgetSpent PROVE IdeInv'
<1> DEFINE S == {q \in productsLeft \ BadNames : IsFolder(q)}
<1>1. /\ UNCHANGED <<disk, touched, ipc, product, extensionsLeft, budget, extension, sheet, coverage, observed>>
      /\ ipc = "product" /\ ideTargets' = ideTargets \cup {<<p, "partial">> : p \in S} /\ productsLeft' = {}
  BY DEF BudgetSpent, editorSide
<1>2. expansion' \in {"partial", "unavailable"} /\ expansion' # None
  <2>1. \E code : ExpansionIssue("partial", code)
    BY DEF BudgetSpent
  <2>2. expansion \in {None, "partial", "unavailable"}
    BY DEF IdeInv, IdeShape
  <2> QED
    BY <2>1, <2>2, ExpansionTells
<1>3. product = None /\ S \subseteq productsLeft /\ S \subseteq Products
  BY <1>1 DEF IdeInv, IdeShape
<1>4. IdeTyped' /\ ReportsTrue'
  BY <1>1, DiskStays DEF IdeInv, ReportsTrue
<1>5. IdeShape'
  BY <1>1, <1>2 DEF IdeInv, IdeShape
<1>6. TargetsOnce'
  <2> DEFINE f == [p \in S |-> "partial"]
  <2> HIDE DEF S
  <2>1. f \in [S -> Statuses]
    BY DEF Statuses
  <2>2. {<<p, f[p]>> : p \in S} = {<<p, "partial">> : p \in S}
    OBVIOUS
  <2> HIDE DEF f
  <2>3. ideTargets' = ideTargets \cup {<<p, f[p]>> : p \in S}
    BY <1>1, <2>2
  <2>4. productsLeft' \subseteq productsLeft \ S /\ S \in SUBSET Products /\ S \subseteq productsLeft \cup {product}
    BY <1>1, <1>3
  <2>5. ipc' = "product" /\ product' = None
    BY <1>1, <1>3
  <2> QED
    BY <1>1, <2>1, <2>3, <2>4, <2>5, TargetsAdded
<1>7. TargetsSearched'
  <2> HIDE DEF S
  <2>1. \A d \in {VRoot} \cup Products : <<d, "complete">> \in ideTargets' => <<d, "complete">> \in ideTargets
    BY <1>1
  <2> QED
    BY <1>1, <2>1, SearchedStays
<1>8. EntriesOwed' /\ ProductsOwed' /\ ProductsCovered'
  BY <1>1, <1>2 DEF EntriesOwed, ProductsOwed, ProductsCovered, Visiting, AtExtension
<1> QED
  BY <1>4, <1>5, <1>6, <1>7, <1>8 DEF IdeInv

(* LookProduct keeps the invariant.                                        *)
LEMMA LookProductStep == ASSUME IdeInv, LookProduct PROVE IdeInv'
<1>1. /\ UNCHANGED <<disk, touched, extensionsLeft, budget, sheet, observed>> /\ ipc = "product"
  BY DEF LookProduct, editorSide
<1>2. PICK p \in productsLeft :
        LET done(s, code) == /\ ideTargets' = ideTargets \cup {<<p, s>>} /\ ideIssues' = ideIssues \cup {code}
                             /\ UNCHANGED <<ipc, product, extension, coverage, expansion>>
        IN  /\ productsLeft' = productsLeft \ {p}
            /\ CASE p \in BadNames -> ExpansionIssue("partial", "identity_rejected") /\ UNCHANGED <<ipc, product, extension, coverage, ideTargets>>
                 [] p \notin BadNames /\ Holds(p, "none") -> done("unavailable", "path_unavailable")
                 [] p \notin BadNames /\ Holds(p, "link") -> done("partial", "symlink_rejected")
                 [] p \notin BadNames /\ Holds(p, "file") -> UNCHANGED <<ipc, product, extension, coverage, expansion, ideTargets, ideIssues>>
                 [] OTHER -> /\ product' = p /\ extension' = [of |-> p, id |-> disk[p].id]
                             /\ coverage' = "complete" /\ ipc' = "plugins" /\ UNCHANGED <<expansion, ideTargets, ideIssues>>
  BY DEF LookProduct
<1>3. product = None /\ p \in Products /\ productsLeft' = productsLeft \ {p} /\ expansion \in {None, "partial", "unavailable"}
  BY <1>1, <1>2 DEF IdeInv, IdeShape
<1>4. IdeTyped' /\ ReportsTrue'
  BY <1>1, DiskStays DEF IdeInv, ReportsTrue
<1>5. CASE p \in BadNames \/ (p \notin BadNames /\ (Holds(p, "none") \/ Holds(p, "link") \/ Holds(p, "file")))
  <2>1. /\ UNCHANGED <<ipc, product, extension, coverage>>
        /\ \/ expansion' \in {"partial", "unavailable"} /\ expansion' # None /\ UNCHANGED ideTargets
           \/ UNCHANGED expansion /\ \E s \in {"partial", "unavailable"} : ideTargets' = ideTargets \cup {<<p, s>>}
           \/ UNCHANGED <<expansion, ideTargets>> /\ ~IsFolder(p)
    <3>1. CASE p \in BadNames
      BY <1>2, <1>3, <3>1, ExpansionTells
    <3>2. CASE p \notin BadNames /\ Holds(p, "none")
      BY <1>2, <3>2 DEF Holds
    <3>3. CASE p \notin BadNames /\ Holds(p, "link")
      BY <1>2, <3>3 DEF Holds
    <3>4. CASE p \notin BadNames /\ Holds(p, "file")
      BY <1>2, <3>4 DEF Holds, IsFolder
    <3> QED
      BY <1>5, <3>1, <3>2, <3>3, <3>4
  <2>2. IdeShape'
    BY <1>1, <1>3, <2>1 DEF IdeInv, IdeShape
  <2>3. TargetsOnce'
    <3>1. CASE UNCHANGED ideTargets
      BY <1>1, <1>3, <2>1, <3>1 DEF IdeInv, TargetsOnce
    <3>2. CASE \E s \in {"partial", "unavailable"} : ideTargets' = ideTargets \cup {<<p, s>>}
      <4>1. PICK s \in {"partial", "unavailable"} : ideTargets' = ideTargets \cup {<<p, s>>}
        BY <3>2
      <4> DEFINE f == [q \in {p} |-> s]
      <4>2. f \in [{p} -> Statuses]
        BY DEF Statuses
      <4>3. {<<q, f[q]>> : q \in {p}} = {<<p, s>>}
        OBVIOUS
      <4> HIDE DEF f
      <4>4. ideTargets' = ideTargets \cup {<<q, f[q]>> : q \in {p}}
        BY <4>1, <4>3
      <4>5. {p} \in SUBSET Products /\ {p} \subseteq productsLeft \cup {product} /\ productsLeft' \subseteq productsLeft \ {p}
        BY <1>2, <1>3
      <4>6. ipc' = "product" /\ product' = None
        BY <1>1, <1>3, <2>1
      <4> QED
        BY <1>1, <4>2, <4>4, <4>5, <4>6, TargetsAdded
    <3> QED
      BY <2>1, <3>1, <3>2
  <2>4. TargetsSearched'
    BY <1>1, <2>1, SearchedStays
  <2>5. EntriesOwed'
    BY <1>1, <2>1 DEF EntriesOwed, Visiting, AtExtension
  <2>6. ProductsOwed' /\ ProductsCovered'
    <3>1. (AmongProducts' => AmongProducts) /\ ipc' # "covered" /\ ideTargets \subseteq ideTargets'
      BY <1>1, <2>1 DEF AmongProducts
    <3>2. expansion' = None => expansion = None
      BY <1>3, <2>1
    <3>3. ASSUME expansion' = None, NEW q \in productsLeft \cup {product}, q \in Products, Stayed(q)
          PROVE  q \in productsLeft' \cup {product'} \/ \E s \in Statuses : <<q, s>> \in ideTargets'
      <4>1. q = p => \E s \in {"partial", "unavailable"} : <<q, s>> \in ideTargets'
        BY <2>1, <3>3 DEF Stayed
      <4> QED
        BY <1>3, <2>1, <3>3, <4>1 DEF Statuses
    <3> QED
      BY <1>1, <3>1, <3>2, <3>3, ProductsStay
  <2> QED
    BY <1>4, <2>2, <2>3, <2>4, <2>5, <2>6 DEF IdeInv
<1>6. CASE ~(p \in BadNames \/ (p \notin BadNames /\ (Holds(p, "none") \/ Holds(p, "link") \/ Holds(p, "file"))))
  <2>1. product' = p /\ coverage' = "complete" /\ ipc' = "plugins" /\ UNCHANGED <<expansion, ideTargets>>
    BY <1>2, <1>6
  <2>2. IdeShape'
    BY <1>1, <1>3, <2>1, FirstIsNode DEF IdeInv, IdeShape, Statuses, Visiting, AtExtension
  <2>3. TargetsOnce'
    BY <1>1, <1>2, <1>3, <2>1 DEF IdeInv, TargetsOnce, Visiting, AtExtension
  <2>4. TargetsSearched'
    BY <1>1, <2>1, SearchedStays
  <2>5. EntriesOwed'
    BY <2>1 DEF EntriesOwed, Visiting, AtExtension
  <2>6. ProductsOwed' /\ ProductsCovered'
    <3>1. (AmongProducts' => AmongProducts) /\ ipc' # "covered"
      BY <1>1, <2>1 DEF AmongProducts
    <3>2. \A q \in productsLeft \cup {product} : q \in Products => q \in productsLeft' \cup {product'}
      BY <1>3, <2>1, FirstIsNode
    <3> QED
      BY <1>1, <2>1, <3>1, <3>2, ProductsStay
  <2> QED
    BY <1>4, <2>2, <2>3, <2>4, <2>5, <2>6 DEF IdeInv
<1> QED
  BY <1>5, <1>6

(* OpenProduct keeps the invariant.                                        *)
LEMMA OpenProductStep == ASSUME IdeInv, OpenProduct PROVE IdeInv'
<1>1. /\ UNCHANGED <<disk, touched, product, productsLeft, extension, sheet, expansion, ideTargets, observed>>
      /\ ipc = "plugins" /\ ipc' = "entry"
  BY DEF OpenProduct, editorSide, ideResult
<1>2. coverage \in Statuses /\ product \in Products /\ product # None /\ budget \in 0..JBudget /\ JBudget \in Nat
  BY <1>1, IdeAssumption DEF IdeInv, IdeShape
<1>3. \/ (\E code : \E s \in {"partial", "unavailable"} : IssueManifest(s, code)) /\ UNCHANGED <<extensionsLeft, budget>>
      \/ (\E reply \in OpenRootOf(Only(product)) \ {"ok"} : coverage' = RootStatus(reply)[1]) /\ UNCHANGED <<extensionsLeft, budget>>
      \/ \E l \in Listing(Only(product), budget) :
            /\ extensionsLeft' = l.names /\ budget' = budget - Cardinality(l.names)
            /\ IF l.code = None THEN Quiet ELSE IssueManifest(l.status, l.code)
  BY DEF OpenProduct
<1>4. /\ coverage' \in Statuses /\ extensionsLeft' \subseteq Listed /\ budget' \in 0..JBudget
      /\ coverage' = "complete" => extensionsLeft' = There(Only(product))
  <2>0. extensionsLeft \subseteq Listed
    BY DEF IdeInv, IdeShape
  <2>1. CASE (\E code : \E s \in {"partial", "unavailable"} : IssueManifest(s, code)) /\ UNCHANGED <<extensionsLeft, budget>>
    <3>1. coverage' \in {"partial", "unavailable"}
      BY <1>2, <2>1, IssueTells
    <3> QED
      BY <1>2, <2>0, <2>1, <3>1 DEF Statuses
  <2>2. CASE (\E reply \in OpenRootOf(Only(product)) \ {"ok"} : coverage' = RootStatus(reply)[1]) /\ UNCHANGED <<extensionsLeft, budget>>
    <3>1. coverage' \in {"not_present", "partial", "unavailable"}
      BY <2>2, RootAnswers
    <3> QED
      BY <1>2, <2>0, <2>2, <3>1 DEF Statuses
  <2>3. ASSUME NEW l \in Listing(Only(product), budget),
               extensionsLeft' = l.names /\ budget' = budget - Cardinality(l.names),
               IF l.code = None THEN Quiet ELSE IssueManifest(l.status, l.code)
        PROVE  /\ coverage' \in Statuses /\ extensionsLeft' \subseteq Listed /\ budget' \in 0..JBudget
               /\ coverage' = "complete" => extensionsLeft' = There(Only(product))
    <3>0. budget \in Nat
      BY <1>2
    <3>1. /\ l.names \subseteq Below(Only(product)) /\ Cardinality(l.names) \in Nat /\ Cardinality(l.names) <= budget
          /\ l.code = None => l.names = There(Only(product))
          /\ l.code # None => l.status \in {"partial", "unavailable"}
      BY <3>0, ListingTells
    <3>2. budget' \in 0..JBudget /\ extensionsLeft' \subseteq Listed
      BY <1>2, <2>3, <3>1, Layout
    <3>3. CASE l.code = None
      BY <1>2, <2>3, <3>1, <3>2, <3>3 DEF Quiet
    <3>4. CASE l.code # None
      <4>1. coverage' \in {"partial", "unavailable"}
        BY <1>2, <2>3, <3>1, <3>4, IssueTells
      <4> QED
        BY <3>2, <4>1 DEF Statuses
    <3> QED
      BY <3>3, <3>4
  <2> QED
    BY <1>3, <2>1, <2>2, <2>3
<1>5. IdeTyped' /\ ReportsTrue'
  BY <1>1, DiskStays DEF IdeInv, ReportsTrue
<1>6. IdeShape'
  BY <1>1, <1>2, <1>4 DEF IdeInv, IdeShape, Visiting, AtExtension
<1>7. TargetsOnce'
  BY <1>1, <1>2 DEF IdeInv, TargetsOnce
<1>8. TargetsSearched'
  BY <1>1, SearchedStays
<1>9. EntriesOwed'
  BY <1>1, <1>2, <1>4 DEF EntriesOwed, Searching, There, Stayed, IsFolder, Holds
<1>10. ProductsOwed' /\ ProductsCovered'
  <2>1. (AmongProducts' => AmongProducts) /\ ipc' # "covered"
    BY <1>1 DEF AmongProducts
  <2> QED
    BY <1>1, <2>1, ProductsStay
<1> QED
  BY <1>5, <1>6, <1>7, <1>8, <1>9, <1>10 DEF IdeInv

(* EndProduct keeps the invariant.                                         *)
LEMMA EndProductStep == ASSUME IdeInv, EndProduct PROVE IdeInv'
<1>1. /\ UNCHANGED <<disk, touched, productsLeft, extensionsLeft, budget, extension, sheet, coverage, expansion, observed>>
      /\ ipc = "entry" /\ product # None /\ extensionsLeft = {} /\ product' = None /\ ipc' = "product"
      /\ ideTargets' = ideTargets \cup {<<product, coverage>>}
  BY DEF EndProduct, editorSide
<1>2. product \in Products /\ coverage \in Statuses /\ product \notin productsLeft
  BY <1>1 DEF IdeInv, IdeShape, TargetsOnce
<1>3. IdeTyped' /\ ReportsTrue'
  BY <1>1, DiskStays DEF IdeInv, ReportsTrue
<1>4. IdeShape'
  BY <1>1 DEF IdeInv, IdeShape, AtExtension
<1>5. TargetsOnce'
  <2> DEFINE f == [q \in {product} |-> coverage]
  <2>1. f \in [{product} -> Statuses]
    BY <1>2
  <2>2. {<<q, f[q]>> : q \in {product}} = {<<product, coverage>>}
    OBVIOUS
  <2> HIDE DEF f
  <2>3. ideTargets' = ideTargets \cup {<<q, f[q]>> : q \in {product}}
    BY <1>1, <2>2
  <2>4. {product} \in SUBSET Products /\ {product} \subseteq productsLeft \cup {product} /\ productsLeft' \subseteq productsLeft \ {product}
    BY <1>1, <1>2
  <2> QED
    BY <1>1, <2>1, <2>3, <2>4, TargetsAdded
<1>6. TargetsSearched'
  <2>1. PICK p \in Products : p = product
    BY <1>2
  <2>2. ASSUME coverage = "complete" PROVE Searched(Only(p))
    BY <1>1, <2>1, <2>2 DEF IdeInv, EntriesOwed, Searching, Searched, Visiting, AtExtension
  <2>3. \A d : Searched(d) => Searched(d)'
    BY <1>1, DiskStays DEF Searched, Told
  <2>4. \A d : <<d, "complete">> \in ideTargets' => <<d, "complete">> \in ideTargets \/ (d = p /\ coverage = "complete")
    BY <1>1, <2>1
  <2>5. Covered(VRoot, "complete")' => Searched(VRoot)'
    BY <2>1, <2>3, <2>4, FirstIsNode DEF IdeInv, TargetsSearched, Covered
  <2>6. ASSUME NEW q \in Products, Covered(q, "complete")' PROVE Searched(Only(q))'
    <3>1. Searched(Only(q))
      BY <2>2, <2>4, <2>6 DEF IdeInv, TargetsSearched, Covered
    <3> QED
      BY <2>3, <3>1
  <2> QED
    BY <2>5, <2>6 DEF TargetsSearched
<1>7. EntriesOwed'
  BY <1>1 DEF EntriesOwed, Visiting, AtExtension
<1>8. ProductsOwed' /\ ProductsCovered'
  <2>1. (AmongProducts' => AmongProducts) /\ ipc' # "covered"
    BY <1>1 DEF AmongProducts, Visiting
  <2>2. <<product, coverage>> \in ideTargets'
    BY <1>1
  <2> QED
    BY <1>1, <1>2, <2>1, <2>2, ProductsStay
<1> QED
  BY <1>3, <1>4, <1>5, <1>6, <1>7, <1>8 DEF IdeInv

(* EndJetBrains keeps the invariant.                                       *)
LEMMA EndJetBrainsStep == ASSUME IdeInv, EndJetBrains PROVE IdeInv'
<1>1. /\ UNCHANGED <<disk, touched, product, productsLeft, extensionsLeft, budget, extension, sheet, coverage, expansion, observed>>
      /\ ipc = "product" /\ ipc' = "covered" /\ productsLeft = {}
      /\ \/ expansion # None /\ ideTargets' = ideTargets \cup {<<JRoot, expansion>>}
         \/ expansion = None /\ ideTargets' = ideTargets \cup {<<JRoot, "complete">>}
         \/ expansion = None /\ ideTargets' = ideTargets
  BY DEF EndJetBrains, editorSide, listing
<1>2. product = None /\ expansion \in {None, "partial", "unavailable"} /\ \A t \in ideTargets : t[1] # JRoot
  BY <1>1 DEF IdeInv, IdeShape, TargetsOnce
<1>3. IdeTyped' /\ ReportsTrue'
  BY <1>1, DiskStays DEF IdeInv, ReportsTrue
<1>4. IdeShape'
  BY <1>1, <1>2 DEF IdeInv, IdeShape, AtExtension
<1>5. ideTargets' = ideTargets \/ \E s \in Statuses : ideTargets' = ideTargets \cup {<<JRoot, s>>}
  BY <1>1, <1>2 DEF Statuses
<1>6. TargetsOnce'
  <2>1. \A t \in ideTargets' : t \in ideTargets \/ (t[1] = JRoot /\ \E s \in Statuses : ideTargets' = ideTargets \cup {<<JRoot, s>>} /\ t = <<JRoot, s>>)
    BY <1>5
  <2>2. ideTargets' \subseteq ({VRoot, JRoot} \cup Products) \X Statuses
    BY <1>5 DEF IdeInv, TargetsOnce
  <2>3. \A t, u \in ideTargets' : t[1] = u[1] => t = u
    BY <1>2, <1>5 DEF IdeInv, TargetsOnce
  <2>4. \A t \in ideTargets' : t[1] \notin productsLeft' /\ t[1] # product'
    BY <1>1, <1>2, <1>5, FirstIsNode
  <2> QED
    BY <1>1, <2>2, <2>3, <2>4 DEF TargetsOnce, Visiting, AtExtension
<1>7. TargetsSearched'
  <2>1. \A d \in {VRoot} \cup Products : <<d, "complete">> \in ideTargets' => <<d, "complete">> \in ideTargets
    BY <1>5, FirstIsNode
  <2> QED
    BY <1>1, <2>1, SearchedStays
<1>8. EntriesOwed' /\ ProductsOwed'
  BY <1>1, <1>2 DEF EntriesOwed, ProductsOwed, Visiting, AtExtension
<1>9. ProductsCovered'
  <2>1. CASE expansion # None
    <3>1. <<JRoot, expansion>> \in ideTargets' /\ expansion \in {"partial", "unavailable"}
      BY <1>1, <1>2, <2>1
    <3> QED
      BY <3>1 DEF ProductsCovered, Covered
  <2>2. CASE expansion = None
    <3>1. \A p \in Products : Stayed(p) => \E s \in Statuses : Covered(p, s)
      BY <1>1, <1>2, <2>2, FirstIsNode DEF IdeInv, ProductsOwed
    <3>2. \A p \in Products : Stayed(p)' => Stayed(p)
      BY <1>1, DiskStays
    <3> QED
      BY <1>5, <3>1, <3>2 DEF ProductsCovered, Covered
  <2> QED
    BY <2>1, <2>2
<1> QED
  BY <1>3, <1>4, <1>6, <1>7, <1>8, <1>9 DEF IdeInv

(* AbortIde keeps the invariant.                                           *)
LEMMA AbortIdeStep == ASSUME IdeInv, AbortIde PROVE IdeInv'
<1>1. /\ UNCHANGED <<disk, touched>> /\ ipc' = "aborted" /\ product' = None /\ productsLeft' = {} /\ extensionsLeft' = {}
      /\ budget' = JBudget /\ coverage' = "complete" /\ expansion' = None /\ ideTargets' = {} /\ observed' = {}
  BY DEF AbortIde, editorSide
<1>2. IdeTyped'
  BY <1>1, DiskStays DEF IdeInv
<1>3. IdeShape'
  BY <1>1, IdeAssumption DEF IdeShape, Statuses, AtExtension
<1>4. TargetsOnce' /\ ReportsTrue'
  BY <1>1 DEF TargetsOnce, ReportsTrue
<1>5. EntriesOwed' /\ TargetsSearched' /\ ProductsOwed' /\ ProductsCovered'
  BY <1>1 DEF EntriesOwed, TargetsSearched, ProductsOwed, ProductsCovered, Covered, Visiting, AtExtension
<1> QED
  BY <1>2, <1>3, <1>4, <1>5 DEF IdeInv

(* Every step of the IDE collector keeps the invariant.                    *)
LEMMA IdeNext_Inv == IdeInv /\ [NextIde]_ideVars => IdeInv'
<1> SUFFICES ASSUME IdeInv, [NextIde]_ideVars PROVE IdeInv'
  OBVIOUS
<1>1. CASE NextIde
  BY <1>1, OpenVSCodeRootStep, ReadVSCodeRootStep, EndVSCodeStep, OpenJetBrainsRootStep, ReadJetBrainsRootStep, BudgetSpentStep,
     LookProductStep, OpenProductStep, EndProductStep, EndJetBrainsStep, LookExtensionStep, OpenExtensionStep, OpenManifestStep,
     CheckManifestStep, AbortIdeStep, TouchStep DEF NextIde
<1>2. CASE UNCHANGED ideVars
  <2>1. UNCHANGED <<disk, touched, ipc, product, productsLeft, extensionsLeft, budget, extension, sheet, coverage, expansion,
                    ideTargets, observed>>
    BY <1>2 DEF ideVars, editorSide, listing, ideResult
  <2>2. IdeTyped' /\ IdeShape'
    BY <2>1 DEF IdeInv, IdeTyped, IdeShape
  <2>3. TargetsOnce' /\ ReportsTrue'
    BY <2>1 DEF IdeInv, TargetsOnce, ReportsTrue
  <2>4. \A e : Stayed(e)' = Stayed(e) /\ Told(e)' = Told(e)
    BY <2>1 DEF Stayed, IsFolder, Holds, IdeUntouched, Told
  <2>5. EntriesOwed'
    BY <2>1, <2>4 DEF IdeInv, EntriesOwed, Searching
  <2>6. TargetsSearched'
    BY <2>1, SearchedStays
  <2>7. ProductsOwed' /\ ProductsCovered'
    BY <2>1, <2>4 DEF IdeInv, ProductsOwed, ProductsCovered, Covered
  <2> QED
    BY <2>2, <2>3, <2>5, <2>6, <2>7 DEF IdeInv
<1> QED
  BY <1>1, <1>2

-----------------------------------------------------------------------------
(* The walk of a project *)

ItemStates == [kind : ItemKinds, id : Nat, time : Nat, data : ItemData]
WalkStamps == ItemKinds \X Nat \X Nat

(* The items: every change is at a time of its own.                        *)
ItemsShape ==
    /\ item \in [Items -> ItemStates] /\ wtime \in 0..MaxWrites
    /\ \A x \in Items : item[x].time <= wtime
    /\ item[RootItem].kind \in {"none", "link", "denied", "dir"}
    /\ \A e \in WalkEntries : item[e].kind \in KindsOf(Class[e]) /\ (Class[e] = "lock" => item[e].data # None)

(* A stamp names the bytes that the file had under it.                     *)
Stamped(e, print, data) ==
    print \in WalkStamps /\ print[3] <= wtime /\ (WalkStamp(e) = print => item[e].data = data)

Spare == Cardinality(configs) + Cardinality(evid)

WalkShape ==
    /\ wpc \in {"root", "read", "entry", "open", "build", "issue", "hash", "launch", "parse", "confirm", "covered", "aborted"}
    /\ entriesLeft \subseteq WalkEntries /\ configs \subseteq WalkEntries /\ spent \in 0..EntryBudget
    /\ wpc = "read" => reading \in Items
    /\ wpc = "open" =>
          /\ glimpse.of \in entriesLeft /\ Stamped(glimpse.of, glimpse.print, glimpse.data)
          /\ ~IsDirClass(glimpse.of) => Recognized(glimpse.of) /\ Spare < FileBudget
    /\ wpc = "build" => entriesLeft = {}
    /\ IsFiniteSet(evid) /\ Spare <= FileBudget
    /\ \A f \in evid : f.of \in WalkEntries /\ Recognized(f.of) /\ Stamped(f.of, f.print, f.data)

Anchored(e, data) == \E t \in issued : t.of = e /\ t.status = "anchored" /\ t.data = data

BuiltShape ==
    /\ handed \subseteq configs /\ work = [left |-> work.left, now |-> work.now] /\ work.left \subseteq evid
    /\ \A t \in issued : \E f \in evid : f.of = t.of /\ (t.status = "anchored" => f.data = t.data)
    /\ wpc = "hash" => work.now \in work.left
    /\ wpc \in {"launch", "parse", "confirm"} => work.now \in evid /\ Anchored(work.now.of, work.now.data)
    /\ wpc \in {"parse", "confirm"} => Class[work.now.of] = "lock"
    /\ wpc = "confirm" => parsed = work.now.data /\ parsed \in DOMAIN Provenances
    /\ IsFiniteSet(records) /\ \A r \in records : r.says \in DOMAIN Provenances /\ Anchored(r.lock, r.says)
    /\ wstatus \in {"complete", "partial", "unavailable", "not_present"}

(* What the walk owes: a file of a class that nobody touched.              *)
OwesItem(e) == Untouched(e) /\ ~Skipped(e) /\ Recognized(e)
KnownItem(e) == IF Class[e] = "config" THEN e \in configs ELSE \E f \in evid : f.of = e
ItemAhead(e) == wpc = "root" \/ (\E x \in Way[e] : x \in entriesLeft) \/ (wpc = "read" /\ reading \in DirsTo(e))
ItemHanded(e) == IF Class[e] = "config" THEN e \in handed ELSE (\E f \in work.left : f.of = e) \/ \E t \in issued : t.of = e

WalkOwesItems ==
    wpc \in {"root", "read", "entry", "open", "build"} /\ werrors = {} =>
        \A e \in WalkEntries : OwesItem(e) => KnownItem(e) \/ ItemAhead(e)
BuildOwesItems ==
    wpc \in {"issue", "hash", "launch", "parse", "confirm"} /\ werrors = {} =>
        \A e \in WalkEntries : OwesItem(e) => ItemHanded(e)

WalkInv == ItemsShape /\ WalkShape /\ BuiltShape /\ WalkOwesItems /\ BuildOwesItems /\ CompleteRootWasSearched

-----------------------------------------------------------------------------
(* The way down, as for plugins.                                           *)
LEMMA WayFacts ==
    ASSUME NEW e \in Items
    PROVE  /\ e \in Way[e] /\ Way[e] \subseteq Items /\ RootItem \in Way[e]
           /\ \A d \in DirsTo(e) : d \in Items /\ IsDirClass(d) /\ \E c \in Way[e] \ {RootItem} : In[c] = d
<1>1. Way[e] = {x \in Items : \A A \in SUBSET Items : e \in A /\ Upward(A) => x \in A}
  BY DEF Way
<1>2. e \in Way[e] /\ Way[e] \subseteq Items /\ RootItem \in Way[e]
  BY <1>1, ProjectWalkAssumption
<1>3. Upward(Way[e])
  BY <1>1, ProjectWalkAssumption DEF Upward
<1>4. ASSUME NEW d \in Way[e] \ {e}, \A c \in Way[e] \ {RootItem} : In[c] # d PROVE FALSE
  <2>1. Upward(Way[e] \ {d})
    BY <1>3, <1>4 DEF Upward
  <2>2. e \in Way[e] \ {d} /\ Way[e] \ {d} \in SUBSET Items
    BY <1>2, <1>4
  <2>3. d \in Way[e] \ {d}
    BY <1>1, <1>4, <2>1, <2>2
  <2> QED
    BY <2>3
<1>5. \A d \in DirsTo(e) : d \in Items /\ \E c \in Way[e] \ {RootItem} : In[c] = d
  BY <1>2, <1>4 DEF DirsTo
<1>6. \A d \in DirsTo(e) : IsDirClass(d)
  BY <1>2, <1>5, ProjectWalkAssumption DEF IsDirClass
<1> QED
  BY <1>2, <1>5, <1>6

(* Every set of entries of a project is finite.                            *)
LEMMA ItemsFinite == \A S \in SUBSET WalkEntries : IsFiniteSet(S) /\ Cardinality(S) \in Nat
<1>1. IsFiniteSet(WalkEntries)
  BY ProjectWalkAssumption, FS_Subset DEF WalkEntries
<1> QED
  BY <1>1, FS_Subset, FS_CardinalityType

(* It holds before a root is opened.                                       *)
LEMMA WalkInit_Inv == ProjectInit => WalkInv
<1> SUFFICES ASSUME ProjectInit PROVE WalkInv
  OBVIOUS
<1>1. ItemsShape
  <2>1. item \in TreeStarts /\ wtime = 0
    BY DEF ProjectInit
  <2>2. item \in [Items -> [kind : ItemKinds, id : Nat, time : {0}, data : ItemData]]
    BY <2>1, ProjectWalkAssumption
  <2>3. item \in [Items -> ItemStates] /\ \A x \in Items : item[x].time = 0
    BY <2>2 DEF ItemStates
  <2>4. /\ item[RootItem].kind \in {"none", "link", "denied", "dir"}
        /\ \A e \in WalkEntries : item[e].kind \in KindsOf(Class[e]) /\ (Class[e] = "lock" => item[e].data # None)
    BY <2>1, ProjectWalkAssumption DEF WalkEntries
  <2> QED
    BY <2>1, <2>3, <2>4, ProjectWalkAssumption DEF ItemsShape
<1>2. WalkShape
  <2>1. Cardinality({}) = 0 /\ IsFiniteSet({})
    BY FS_EmptySet
  <2> QED
    BY <2>1, ProjectWalkAssumption DEF ProjectInit, WalkShape, Spare
<1>3. BuiltShape
  BY FS_EmptySet DEF ProjectInit, BuiltShape
<1>4. WalkOwesItems /\ BuildOwesItems /\ CompleteRootWasSearched
  BY DEF ProjectInit, WalkOwesItems, BuildOwesItems, CompleteRootWasSearched, ItemAhead
<1> QED
  BY <1>1, <1>2, <1>3, <1>4 DEF WalkInv

-----------------------------------------------------------------------------
(* The user *)

(* What a change by the user does to the entry, its stamp and the time.    *)
LEMMA WriteFacts ==
    ASSUME WalkInv, WriteProject
    PROVE  /\ wtime' = wtime + 1 /\ wtime' \in 0..MaxWrites /\ wtime \in Nat
           /\ item' \in [Items -> ItemStates]
           /\ \A x \in Items : item'[x] = item[x] \/ item'[x].time = wtime + 1
           /\ item'[RootItem].kind \in {"none", "link", "denied", "dir"}
           /\ \A e \in WalkEntries : item'[e].kind \in KindsOf(Class[e]) /\ (Class[e] = "lock" => item'[e].data # None)
<1>1. /\ wtime < MaxWrites /\ wtime' = wtime + 1 /\ wtime \in 0..MaxWrites /\ item \in [Items -> ItemStates]
      /\ MaxWrites \in Nat
  BY ProjectWalkAssumption DEF WalkInv, ItemsShape, WriteProject
<1>2. wtime' \in 0..MaxWrites /\ wtime \in Nat /\ wtime + 1 \in Nat
  BY <1>1
<1>3. /\ item[RootItem].kind \in {"none", "link", "denied", "dir"}
      /\ \A e \in WalkEntries : item[e].kind \in KindsOf(Class[e]) /\ (Class[e] = "lock" => item[e].data # None)
  BY DEF WalkInv, ItemsShape
<1>4. CASE \E e \in WalkEntries : \E data \in DOMAIN Provenances \cup {"broken"} :
              item[e].kind = "file" /\ item' = [item EXCEPT ![e].data = data, ![e].time = wtime + 1]
  <2>1. PICK e \in WalkEntries, data \in DOMAIN Provenances \cup {"broken"} :
              item[e].kind = "file" /\ item' = [item EXCEPT ![e].data = data, ![e].time = wtime + 1]
    BY <1>4
  <2>2. e \in Items /\ e # RootItem /\ data \in ItemData /\ data # None
    BY ProjectWalkAssumption DEF WalkEntries, ItemData
  <2>3. /\ item'[e] = [item[e] EXCEPT !.data = data, !.time = wtime + 1]
        /\ item' = [item EXCEPT ![e] = [item[e] EXCEPT !.data = data, !.time = wtime + 1]]
    BY <1>1, <2>1, <2>2
  <2>4. item'[e] \in ItemStates /\ item'[e].kind = item[e].kind /\ item'[e].time = wtime + 1 /\ item'[e].data = data
    BY <1>1, <1>2, <2>2, <2>3 DEF ItemStates
  <2>5. \A x \in Items : x # e => item'[x] = item[x]
    BY <1>1, <2>3
  <2>6. item' \in [Items -> ItemStates]
    BY <1>1, <2>2, <2>3, <2>4
  <2>7. \A x \in Items : item'[x].kind = item[x].kind /\ (item'[x].data = item[x].data \/ item'[x].data # None)
    BY <2>2, <2>4, <2>5
  <2>8. \A x \in Items : item'[x] = item[x] \/ item'[x].time = wtime + 1
    BY <2>4, <2>5
  <2>9. \A x \in WalkEntries : item'[x].kind \in KindsOf(Class[x]) /\ (Class[x] = "lock" => item'[x].data # None)
    BY <1>3, <2>7 DEF WalkEntries
  <2>10. item'[RootItem].kind = item[RootItem].kind
    BY <2>7, ProjectWalkAssumption
  <2> QED
    BY <1>1, <1>2, <1>3, <2>6, <2>8, <2>9, <2>10
<1>5. CASE \E e \in WalkEntries : \E k \in {"none", "link", IF IsDirClass(e) THEN "dir" ELSE "file"} :
              item' = [item EXCEPT ![e] = [kind |-> k, id |-> wtime + 1, time |-> wtime + 1, data |-> @.data],
                                   ![In[e]].time = wtime + 1]
  <2>1. PICK e \in WalkEntries : \E k \in {"none", "link", IF IsDirClass(e) THEN "dir" ELSE "file"} :
              item' = [item EXCEPT ![e] = [kind |-> k, id |-> wtime + 1, time |-> wtime + 1, data |-> @.data],
                                   ![In[e]].time = wtime + 1]
    BY <1>5
  <2>k. PICK k \in {"none", "link", IF IsDirClass(e) THEN "dir" ELSE "file"} :
              item' = [item EXCEPT ![e] = [kind |-> k, id |-> wtime + 1, time |-> wtime + 1, data |-> @.data],
                                   ![In[e]].time = wtime + 1]
    BY <2>1
  <2>2. e \in Items /\ e # RootItem /\ In[e] \in Items /\ k \in KindsOf(Class[e]) /\ KindsOf(Class[e]) \subseteq ItemKinds
    BY <2>k, ProjectWalkAssumption DEF WalkEntries, KindsOf, IsDirClass, ItemKinds
  <2> DEFINE new == [kind |-> k, id |-> wtime + 1, time |-> wtime + 1, data |-> item[e].data]
             one == [item EXCEPT ![e] = new]
             up == [one[In[e]] EXCEPT !.time = wtime + 1]
  <2>3. new \in ItemStates /\ new.kind = k /\ new.time = wtime + 1 /\ new.data = item[e].data
    BY <1>1, <1>2, <2>2 DEF ItemStates
  <2>4. item' = [one EXCEPT ![In[e]] = up]
    BY <1>1, <2>k, <2>2
  <2> HIDE DEF new
  <2>5. one \in [Items -> ItemStates] /\ one[e] = new /\ \A x \in Items : x # e => one[x] = item[x]
    BY <1>1, <2>2, <2>3
  <2> HIDE DEF one
  <2>6. up \in ItemStates /\ up.time = wtime + 1 /\ up.kind = one[In[e]].kind /\ up.data = one[In[e]].data
    BY <1>2, <2>2, <2>5 DEF ItemStates
  <2> HIDE DEF up
  <2>7. item' \in [Items -> ItemStates] /\ item'[In[e]] = up /\ \A x \in Items : x # In[e] => item'[x] = one[x]
    BY <2>2, <2>4, <2>5, <2>6
  <2>8. \A x \in Items : item'[x].kind = one[x].kind /\ item'[x].data = one[x].data
    BY <2>6, <2>7
  <2>9. \A x \in Items : item'[x] = item[x] \/ item'[x].time = wtime + 1
    BY <2>3, <2>5, <2>6, <2>7
  <2>10. \A x \in Items : IF x = e THEN one[x].kind = k /\ one[x].data = item[x].data ELSE one[x] = item[x]
    BY <2>3, <2>5
  <2>11. item'[RootItem].kind = item[RootItem].kind
    BY <2>2, <2>8, <2>10, ProjectWalkAssumption
  <2>12. \A x \in WalkEntries : item'[x].kind \in KindsOf(Class[x]) /\ (Class[x] = "lock" => item'[x].data # None)
    BY <1>3, <2>2, <2>8, <2>10 DEF WalkEntries
  <2> QED
    BY <1>1, <1>2, <1>3, <2>7, <2>9, <2>11, <2>12
<1>6. CASE \E k \in {"none", "link", "dir", "denied"} :
              item' = [item EXCEPT ![RootItem] = [kind |-> k, id |-> wtime + 1, time |-> wtime + 1, data |-> None]]
  <2>1. PICK k \in {"none", "link", "dir", "denied"} :
              item' = [item EXCEPT ![RootItem] = [kind |-> k, id |-> wtime + 1, time |-> wtime + 1, data |-> None]]
    BY <1>6
  <2>2. RootItem \in Items /\ None \in ItemData /\ k \in ItemKinds
    BY ProjectWalkAssumption DEF ItemData, ItemKinds
  <2>3. [kind |-> k, id |-> wtime + 1, time |-> wtime + 1, data |-> None] \in ItemStates
    BY <1>2, <2>2 DEF ItemStates
  <2>4. item' \in [Items -> ItemStates] /\ item'[RootItem].kind = k /\ item'[RootItem].time = wtime + 1
        /\ \A x \in Items : x # RootItem => item'[x] = item[x]
    BY <1>1, <2>1, <2>2, <2>3
  <2> QED
    BY <1>1, <1>2, <1>3, <2>4 DEF WalkEntries
<1> QED
  BY <1>4, <1>5, <1>6 DEF WriteProject

(* A stamp names one content for ever.                                     *)
LEMMA StampsStay ==
    ASSUME NEW e \in Items, NEW print, NEW data, Stamped(e, print, data), wtime \in Nat, wtime' \in Nat, wtime <= wtime',
           item'[e] = item[e] \/ item'[e].time > wtime
    PROVE  Stamped(e, print, data)'
<1>1. print \in WalkStamps /\ print[3] \in Nat /\ print[3] <= wtime /\ (WalkStamp(e) = print => item[e].data = data)
  BY DEF Stamped, WalkStamps
<1>2. print[3] <= wtime'
  BY <1>1
<1>3. CASE item'[e] = item[e]
  BY <1>1, <1>2, <1>3 DEF Stamped, WalkStamp
<1>4. CASE item'[e].time > wtime
  <2>1. WalkStamp(e)'[3] = item'[e].time
    BY DEF WalkStamp
  <2>2. WalkStamp(e)' # print
    BY <1>1, <1>4, <2>1
  <2> QED
    BY <1>1, <1>2, <2>2 DEF Stamped
<1> QED
  BY <1>3, <1>4

(* A change leaves the walk with no more to find than before.              *)
LEMMA OwesShrinks ==
    ASSUME WalkInv, WriteProject, NEW e \in WalkEntries, OwesItem(e)'
    PROVE  OwesItem(e)
<1>1. wtime \in Nat /\ \A x \in Items : item'[x] = item[x] \/ item'[x].time = wtime + 1
  BY WriteFacts
<1>2. e \in Items /\ DirsTo(e) \subseteq Items /\ ProjectOf(e) \in Items
  <2>1. e \in Items /\ e # RootItem /\ In[e] \in Items /\ (Class[In[e]] = "git" => In[In[e]] \in Items)
    BY ProjectWalkAssumption DEF WalkEntries
  <2> QED
    BY <2>1, WayFacts DEF ProjectOf
<1>3. \A x \in {e, ProjectOf(e)} \cup DirsTo(e) : x \in Items /\ item'[x].time = 0 /\ item'[x].kind \in {"file", "large", "dir"}
  BY <1>2 DEF OwesItem, Untouched
<1>4. \A x \in {e, ProjectOf(e)} \cup DirsTo(e) : item'[x] = item[x]
  BY <1>1, <1>3
<1>5. Untouched(e)
  BY <1>3, <1>4 DEF Untouched
<1>6. ~Skipped(e) /\ Recognized(e)
  BY DEF OwesItem, Skipped, Recognized
<1> QED
  BY <1>5, <1>6 DEF OwesItem

(* WriteProject keeps the invariant.                                       *)
LEMMA WriteProjectStep == ASSUME WalkInv, WriteProject PROVE WalkInv'
<1>1. UNCHANGED <<wpc, rootSeen, reading, entriesLeft, glimpse, hooksOf, spent, configs, evid, projects, work, parsed,
                  handed, issued, records, werrors, wstatus>>
  BY DEF WriteProject, walked, built
<1>2. ItemsShape'
  <2>1. \A x \in Items : item'[x].time <= wtime'
    BY WriteFacts DEF WalkInv, ItemsShape, ItemStates
  <2> QED
    BY <2>1, WriteFacts DEF ItemsShape
<1>3. WalkShape'
  <2>1. \A e \in Items : \A print, data : Stamped(e, print, data) => Stamped(e, print, data)'
    BY WriteFacts, StampsStay
  <2>2. WalkEntries \subseteq Items /\ entriesLeft \subseteq WalkEntries
    BY DEF WalkEntries, WalkInv, WalkShape
  <2>3. \A f \in evid : f.of \in Items /\ Stamped(f.of, f.print, f.data)'
    BY <2>1, <2>2 DEF WalkInv, WalkShape
  <2>4. wpc = "open" => Stamped(glimpse.of, glimpse.print, glimpse.data)'
    <3>1. PICK saw : saw = glimpse
      OBVIOUS
    <3>2. wpc = "open" => saw.of \in Items /\ Stamped(saw.of, saw.print, saw.data)
      BY <2>2, <3>1 DEF WalkInv, WalkShape
    <3>3. wpc = "open" => Stamped(saw.of, saw.print, saw.data)'
      BY <2>1, <3>2
    <3> QED
      BY <1>1, <3>1, <3>3
  <2>5. WalkShape
    BY DEF WalkInv
  <2> QED
    BY <1>1, <2>3, <2>4, <2>5 DEF WalkShape, Spare, Recognized, IsDirClass, Stamped
<1>4. BuiltShape'
  BY <1>1 DEF WalkInv, BuiltShape, Anchored
<1>5. WalkOwesItems' /\ BuildOwesItems'
  <2>1. WalkOwesItems /\ BuildOwesItems
    BY DEF WalkInv
  <2> QED
    BY <1>1, <2>1, OwesShrinks DEF WalkOwesItems, BuildOwesItems, KnownItem, ItemAhead, ItemHanded
<1>6. CompleteRootWasSearched'
  <2> SUFFICES ASSUME wpc = "covered", wstatus = "complete", NEW e \in WalkEntries, Untouched(e)', ~Skipped(e)
               PROVE  /\ Class[e] = "config" => e \in handed
                      /\ Class[e] \in {"lock", "launch", "hook"} => \E t \in issued : t.of = e
    BY <1>1 DEF CompleteRootWasSearched, Skipped
  <2>1. CASE Recognized(e)
    <3>1. OwesItem(e)
      BY <2>1, OwesShrinks DEF OwesItem, Recognized, Skipped
    <3> QED
      BY <3>1 DEF WalkInv, CompleteRootWasSearched, OwesItem
  <2>2. CASE ~Recognized(e)
    BY <2>2 DEF Recognized
  <2> QED
    BY <2>1, <2>2
<1> QED
  BY <1>2, <1>3, <1>4, <1>5, <1>6 DEF WalkInv

-----------------------------------------------------------------------------
(* What a step of the collector leaves alone *)

(* What is known of the entries survives a step that leaves them alone.    *)
LEMMA ItemsStay ==
    ASSUME WalkInv, UNCHANGED projectSide
    PROVE  /\ ItemsShape' /\ UNCHANGED <<item, wtime>>
           /\ \A e \in WalkEntries : OwesItem(e)' <=> OwesItem(e)
           /\ \A e, print, data : Stamped(e, print, data)' <=> Stamped(e, print, data)
<1>1. UNCHANGED <<item, wtime>>
  BY DEF projectSide
<1> QED
  BY <1>1 DEF WalkInv, ItemsShape, OwesItem, Untouched, Skipped, Recognized, Stamped, WalkStamp

(* What is known of the evidence survives a step that leaves it alone.     *)
LEMMA EvidenceStays ==
    ASSUME WalkInv, UNCHANGED <<item, wtime, configs, evid>>
    PROVE  /\ IsFiniteSet(evid') /\ Spare' = Spare /\ Spare' <= FileBudget /\ configs' \subseteq WalkEntries
           /\ \A f \in evid' : f.of \in WalkEntries /\ Recognized(f.of) /\ Stamped(f.of, f.print, f.data)'
BY DEF WalkInv, WalkShape, Spare, Recognized, Stamped, WalkStamp

(* What is known of the result survives a step that leaves it alone and    *)
(* parses nothing.                                                         *)
LEMMA BuiltStays ==
    ASSUME WalkInv, UNCHANGED built, configs \subseteq configs', evid \subseteq evid',
           wpc' \notin {"hash", "launch", "parse", "confirm"}, wstatus' \in {"complete", "partial", "unavailable", "not_present"}
    PROVE  BuiltShape'
<1>1. UNCHANGED <<work, parsed, handed, issued, records>>
  BY DEF built
<1>2. \A e, data : Anchored(e, data)' <=> Anchored(e, data)
  BY <1>1 DEF Anchored
<1> QED
  BY <1>1, <1>2 DEF WalkInv, BuiltShape

(* What is owed lies below directories that are still there and searched.  *)
LEMMA OwedWay ==
    ASSUME WalkInv, NEW e \in WalkEntries, OwesItem(e), NEW x \in Way[e]
    PROVE  /\ x \in Items /\ item[x].kind \in {"file", "large", "dir"} /\ ~IsDirClass(e)
           /\ x # e => x \in DirsTo(e) /\ x \notin SkippedDirs /\ IsDirClass(x) /\ (x # RootItem => item[x].kind = "dir")
           /\ x = e => item[x].kind \in {"file", "large"}
<1>1. e \in Items /\ e # RootItem /\ x \in Items
  BY WayFacts DEF WalkEntries
<1>2. item[x].kind \in {"file", "large", "dir"}
  BY <1>1 DEF OwesItem, Untouched, DirsTo
<1>3. ~IsDirClass(e)
  BY DEF OwesItem, Recognized, IsDirClass
<1>4. \A y \in WalkEntries : item[y].kind \in KindsOf(Class[y])
  BY DEF WalkInv, ItemsShape
<1>5. x # e => x \in DirsTo(e) /\ x \notin SkippedDirs /\ IsDirClass(x)
  BY <1>1, WayFacts DEF DirsTo, OwesItem, Skipped
<1>6. x # e /\ x # RootItem => item[x].kind = "dir"
  <2>1. x # RootItem => item[x].kind \in KindsOf(Class[x])
    BY <1>1, <1>4 DEF WalkEntries
  <2> QED
    BY <1>2, <1>5, <2>1 DEF KindsOf, IsDirClass
<1>7. x = e => item[x].kind \in {"file", "large"}
  BY <1>2, <1>3, <1>4 DEF KindsOf, IsDirClass
<1> QED
  BY <1>1, <1>2, <1>3, <1>5, <1>6, <1>7

-----------------------------------------------------------------------------
(* The walk *)

(* OpenRootDirectory keeps the invariant.                                  *)
LEMMA OpenRootDirectoryStep == ASSUME WalkInv, OpenRootDirectory PROVE WalkInv'
<1>1. UNCHANGED <<projectSide, entriesLeft, glimpse, hooksOf, spent, configs, evid, built>> /\ wpc = "root"
  BY DEF OpenRootDirectory
<1>2. \/ wpc' = "covered" /\ wstatus' \in {"not_present", "partial", "unavailable"}
      \/ wpc' = "read" /\ reading' = RootItem /\ UNCHANGED <<werrors, wstatus>>
  <2> DEFINE k == item[RootItem].kind
  <2>1. CASE k = "none"
    BY <2>1 DEF OpenRootDirectory
  <2>2. CASE k = "link"
    BY <2>2 DEF OpenRootDirectory
  <2>3. CASE k = "denied"
    BY <2>3 DEF OpenRootDirectory
  <2>4. CASE k \notin {"none", "link", "denied"}
    BY <2>4 DEF OpenRootDirectory
  <2> QED
    BY <2>1, <2>2, <2>3, <2>4
<1>3. wpc' \in {"covered", "read"} /\ wstatus' \in {"complete", "partial", "unavailable", "not_present"}
  BY <1>2 DEF WalkInv, BuiltShape
<1>4. WalkShape'
  BY <1>1, <1>2, <1>3, ItemsStay, EvidenceStays, ProjectWalkAssumption DEF WalkInv, WalkShape, projectSide
<1>5. BuiltShape'
  BY <1>1, <1>3, BuiltStays
<1>6. WalkOwesItems'
  <2>1. ASSUME NEW e \in WalkEntries PROVE RootItem \in DirsTo(e)
    BY WayFacts DEF WalkEntries, DirsTo
  <2> QED
    BY <1>2, <1>3, <2>1 DEF WalkOwesItems, ItemAhead
<1>7. BuildOwesItems' /\ CompleteRootWasSearched'
  BY <1>2, <1>3 DEF BuildOwesItems, CompleteRootWasSearched
<1> QED
  BY <1>1, <1>4, <1>5, <1>6, <1>7, ItemsStay DEF WalkInv

(* ReadBounded keeps the invariant.                                        *)
LEMMA ReadBoundedStep == ASSUME WalkInv, ReadBounded PROVE WalkInv'
<1>1. UNCHANGED <<projectSide, rootSeen, reading, glimpse, hooksOf, configs, evid, built, wstatus>> /\ wpc = "read"
  BY DEF ReadBounded
<1>2. Here(reading) \subseteq WalkEntries
  BY DEF Here
<1>3. \/ wpc' = "entry" /\ werrors' # {} /\ UNCHANGED <<entriesLeft, spent>>
      \/ wpc' = "build" /\ werrors' # {} /\ entriesLeft' = {} /\ UNCHANGED spent
      \/ /\ wpc' = "entry" /\ UNCHANGED werrors /\ spent + Cardinality(Here(reading)) <= EntryBudget
         /\ entriesLeft' = entriesLeft \cup Here(reading) /\ spent' = spent + Cardinality(Here(reading))
  BY DEF ReadBounded, Fail, StopWalk
<1>4. wpc' \in {"entry", "build"} /\ wstatus' \in {"complete", "partial", "unavailable", "not_present"}
  BY <1>1, <1>3 DEF WalkInv, BuiltShape
<1>5. WalkShape'
  <2>1. Cardinality(Here(reading)) \in Nat
    BY <1>2, ItemsFinite
  <2>2. spent \in 0..EntryBudget /\ EntryBudget \in Nat /\ entriesLeft \subseteq WalkEntries
    BY ProjectWalkAssumption DEF WalkInv, WalkShape
  <2>3. spent' \in 0..EntryBudget /\ entriesLeft' \subseteq WalkEntries /\ (wpc' = "build" => entriesLeft' = {})
    BY <1>2, <1>3, <2>1, <2>2
  <2> QED
    BY <1>1, <1>4, <2>3, EvidenceStays DEF WalkShape, projectSide
<1>6. BuiltShape'
  BY <1>1, <1>4, BuiltStays
<1>7. WalkOwesItems'
  <2> SUFFICES ASSUME werrors' = {}, NEW e \in WalkEntries, OwesItem(e)'
               PROVE  KnownItem(e)' \/ ItemAhead(e)'
    BY DEF WalkOwesItems
  <2>1. OwesItem(e) /\ wpc' = "entry" /\ werrors = {} /\ entriesLeft' = entriesLeft \cup Here(reading)
    BY <1>1, <1>3, ItemsStay
  <2>2. KnownItem(e) \/ ItemAhead(e)
    BY <1>1, <2>1 DEF WalkInv, WalkOwesItems
  <2>3. CASE KnownItem(e)
    BY <1>1, <2>3 DEF KnownItem
  <2>4. CASE \E x \in Way[e] : x \in entriesLeft
    BY <2>1, <2>4 DEF ItemAhead
  <2>5. CASE reading \in DirsTo(e)
    <3>1. e \in Items
      BY DEF WalkEntries
    <3>2. PICK c \in Way[e] \ {RootItem} : In[c] = reading
      BY <2>5, <3>1, WayFacts
    <3>3. c \in Here(reading)
      BY <2>1, <3>2, OwedWay DEF Here, WalkEntries
    <3> QED
      BY <2>1, <3>2, <3>3 DEF ItemAhead
  <2> QED
    BY <1>1, <2>2, <2>3, <2>4, <2>5 DEF ItemAhead
<1>8. BuildOwesItems' /\ CompleteRootWasSearched'
  BY <1>4 DEF BuildOwesItems, CompleteRootWasSearched
<1> QED
  BY <1>1, <1>5, <1>6, <1>7, <1>8, ItemsStay DEF WalkInv

(* Lstat of an entry: it ends the walk, passes over the entry, or goes to  *)
(* open it.                                                                *)
PassedOver(e) ==
    /\ entriesLeft' = entriesLeft \ {e} /\ UNCHANGED <<wpc, glimpse>>
    /\ werrors' # {} \/ (UNCHANGED werrors /\ item[e].kind = "dir" /\ e \in SkippedDirs)
                     \/ (UNCHANGED werrors /\ item[e].kind \in {"file", "large"} /\ ~Recognized(e))
GoneTo(e) ==
    /\ wpc' = "open" /\ glimpse'.of = e /\ glimpse'.print = WalkStamp(e) /\ glimpse'.data = item[e].data
    /\ UNCHANGED <<entriesLeft, werrors>>
    /\ item[e].kind \notin {"none", "link"}
    /\ item[e].kind \in {"file", "large"} => Recognized(e) /\ Spare < FileBudget

(* The budgets that remain are natural numbers within the limits.          *)
LEMMA SpareFacts == WalkInv => Spare \in Nat /\ FileBudget \in Nat /\ Cardinality(configs) \in Nat /\ Cardinality(evid) \in Nat
<1> SUFFICES ASSUME WalkInv PROVE Spare \in Nat /\ FileBudget \in Nat /\ Cardinality(configs) \in Nat /\ Cardinality(evid) \in Nat
  OBVIOUS
<1>1. Cardinality(configs) \in Nat /\ Cardinality(evid) \in Nat
  BY ItemsFinite, FS_CardinalityType DEF WalkInv, WalkShape
<1> QED
  BY <1>1, ProjectWalkAssumption DEF Spare

(* The outcomes of looking at an entry: passed over, refused, over a       *)
(* budget, a directory or a file to open.                                  *)
LEMMA LookItemCases ==
    ASSUME WalkInv, LookItem
    PROVE  \E e \in entriesLeft :
              \/ wpc' = "build" /\ werrors' # {} /\ entriesLeft' = {}
              \/ PassedOver(e)
              \/ GoneTo(e)
<1>1. PICK e \in entriesLeft :
        LET k == item[e].kind
            full == Cardinality(configs) + Cardinality(evid) >= FileBudget
        IN  CASE Class[e] = "hook" /\ full -> StopWalk("config_limit") /\ UNCHANGED glimpse
              [] ~(Class[e] = "hook" /\ full) /\ k = "none" -> Skip(e, {"path_unavailable"})
              [] k = "link" /\ ~(Class[e] = "hook" /\ full) -> Skip(e, {IF Class[e] = "hook" THEN "path_unavailable" ELSE "symlink_rejected"})
              [] k = "dir" /\ e \in SkippedDirs -> Skip(e, {})
              [] k = "dir" /\ e \in TooDeep \ SkippedDirs -> Skip(e, {"depth_limit"})
              [] k \in {"file", "large"} /\ ~Recognized(e) -> Skip(e, {})
              [] k = "large" /\ Class[e] = "config" -> Skip(e, {"config_size_limit"})
              [] k \in {"file", "large"} /\ Recognized(e) /\ full /\ Class[e] # "hook"
                    /\ ~(k = "large" /\ Class[e] = "config") -> StopWalk("config_limit") /\ UNCHANGED glimpse
              [] OTHER -> /\ glimpse' = [of |-> e, print |-> WalkStamp(e), project |-> IF Class[e] = "hook" THEN hooksOf ELSE WalkStamp(In[e]),
                                         data |-> item[e].data]
                          /\ wpc' = "open" /\ UNCHANGED <<entriesLeft, werrors>>
  BY DEF LookItem
<1> DEFINE k == item[e].kind
           full == Spare >= FileBudget
<1>2. e \in WalkEntries /\ k \in KindsOf(Class[e])
  BY DEF WalkInv, WalkShape, ItemsShape
<1>3. k \in {"none", "link", "dir", "file", "large"} /\ (k = "dir" <=> k = "dir" /\ IsDirClass(e))
  BY <1>2 DEF KindsOf, IsDirClass
<1>4. CASE Class[e] = "hook" /\ full
  <2>1. StopWalk("config_limit")
    <3>1. k # "dir" /\ Recognized(e)
      BY <1>3, <1>4 DEF IsDirClass, Recognized
    <3> QED
      BY <1>1, <1>3, <1>4, <3>1 DEF Spare
  <2> QED
    BY <2>1 DEF StopWalk, Fail
<1>5. CASE ~(Class[e] = "hook" /\ full) /\ k \in {"none", "link"}
  <2>1. \E codes : codes # {} /\ Skip(e, codes)
    BY <1>1, <1>5 DEF Spare
  <2> QED
    BY <2>1 DEF Skip, PassedOver
<1>6. CASE k = "dir" /\ e \in SkippedDirs
  <2>1. Skip(e, {}) /\ Class[e] # "hook"
    BY <1>1, <1>3, <1>6 DEF Spare, IsDirClass
  <2> QED
    BY <1>6, <2>1 DEF Skip, PassedOver
<1>7. CASE k = "dir" /\ e \in TooDeep \ SkippedDirs
  <2>1. Skip(e, {"depth_limit"}) /\ Class[e] # "hook"
    BY <1>1, <1>3, <1>7 DEF Spare, IsDirClass
  <2> QED
    BY <2>1 DEF Skip, PassedOver
<1>8. CASE k \in {"file", "large"} /\ ~Recognized(e)
  <2>1. Skip(e, {}) /\ Class[e] # "hook"
    BY <1>1, <1>8 DEF Spare, Recognized
  <2> QED
    BY <1>8, <2>1 DEF Skip, PassedOver
<1>9. CASE k = "large" /\ Class[e] = "config"
  <2>1. Skip(e, {"config_size_limit"})
    BY <1>1, <1>9 DEF Spare, Recognized
  <2> QED
    BY <2>1 DEF Skip, PassedOver
<1>10. CASE k \in {"file", "large"} /\ Recognized(e) /\ full /\ Class[e] # "hook" /\ ~(k = "large" /\ Class[e] = "config")
  <2>1. StopWalk("config_limit")
    BY <1>1, <1>10 DEF Spare
  <2> QED
    BY <2>1 DEF StopWalk, Fail
<1>11. CASE \/ k = "dir" /\ e \notin SkippedDirs \cup TooDeep
            \/ k \in {"file", "large"} /\ Recognized(e) /\ ~full /\ ~(k = "large" /\ Class[e] = "config")
  <2>1. ~(Class[e] = "hook" /\ full)
    BY <1>3, <1>11 DEF IsDirClass
  <2>2. /\ glimpse' = [of |-> e, print |-> WalkStamp(e), project |-> IF Class[e] = "hook" THEN hooksOf ELSE WalkStamp(In[e]),
                       data |-> item[e].data]
        /\ wpc' = "open" /\ UNCHANGED <<entriesLeft, werrors>>
    BY <1>1, <1>11, <2>1 DEF Spare
  <2>3. glimpse'.of = e /\ glimpse'.print = WalkStamp(e) /\ glimpse'.data = item[e].data
    BY <2>2
  <2>4. k \in {"file", "large"} => Recognized(e) /\ Spare < FileBudget
    BY <1>11, SpareFacts
  <2> QED
    BY <1>11, <2>2, <2>3, <2>4 DEF GoneTo
<1> QED
  BY <1>3, <1>4, <1>5, <1>6, <1>7, <1>8, <1>9, <1>10, <1>11

(* LookItem keeps the invariant.                                           *)
LEMMA LookItemStep == ASSUME WalkInv, LookItem PROVE WalkInv'
<1>1. UNCHANGED <<projectSide, rootSeen, reading, hooksOf, spent, configs, evid, built, wstatus>> /\ wpc = "entry"
  BY DEF LookItem
<1>2. PICK e0 \in entriesLeft : (wpc' = "build" /\ werrors' # {} /\ entriesLeft' = {}) \/ PassedOver(e0) \/ GoneTo(e0)
  BY LookItemCases
<1>3. e0 \in WalkEntries /\ e0 \in Items /\ item[e0].kind \in KindsOf(Class[e0]) /\ UNCHANGED <<item, wtime>>
  BY DEF WalkInv, WalkShape, ItemsShape, WalkEntries, projectSide, LookItem
<1>4. wpc' \in {"build", "entry", "open"} /\ wstatus' \in {"complete", "partial", "unavailable", "not_present"}
  BY <1>1, <1>2 DEF WalkInv, BuiltShape, PassedOver, GoneTo
<1>5. WalkShape'
  <2>1. entriesLeft' \subseteq WalkEntries /\ (wpc' = "build" => entriesLeft' = {})
    BY <1>1, <1>2 DEF WalkInv, WalkShape, PassedOver, GoneTo
  <2>2. wpc' = "open" => /\ glimpse'.of \in entriesLeft' /\ Stamped(glimpse.of, glimpse.print, glimpse.data)'
                         /\ ~IsDirClass(glimpse'.of) => Recognized(glimpse'.of) /\ Spare' < FileBudget
    <3> SUFFICES ASSUME wpc' = "open"
                 PROVE  /\ glimpse'.of \in entriesLeft' /\ Stamped(glimpse.of, glimpse.print, glimpse.data)'
                        /\ ~IsDirClass(glimpse'.of) => Recognized(glimpse'.of) /\ Spare' < FileBudget
      OBVIOUS
    <3>1. GoneTo(e0)
      BY <1>1, <1>2 DEF PassedOver
    <3>2. item[e0] \in ItemStates /\ item[e0].time <= wtime
      BY <1>3 DEF WalkInv, ItemsShape
    <3>3. WalkStamp(e0) \in WalkStamps /\ WalkStamp(e0)[3] = item[e0].time
      BY <3>2 DEF WalkStamp, WalkStamps, ItemStates
    <3>4. ~IsDirClass(e0) => item[e0].kind \in {"file", "large"}
      BY <1>3, <3>1 DEF GoneTo, KindsOf, IsDirClass
    <3>5. Stamped(glimpse.of, glimpse.print, glimpse.data)'
      BY <1>3, <3>1, <3>2, <3>3 DEF GoneTo, Stamped, WalkStamp
    <3> QED
      BY <1>1, <1>3, <3>1, <3>4, <3>5, EvidenceStays DEF GoneTo
  <2>3. spent' \in 0..EntryBudget
    BY <1>1 DEF WalkInv, WalkShape
  <2> QED
    BY <1>1, <1>3, <1>4, <2>1, <2>2, <2>3, EvidenceStays DEF WalkShape, Recognized, IsDirClass
<1>6. BuiltShape'
  BY <1>1, <1>4, BuiltStays
<1>7. WalkOwesItems'
  <2> SUFFICES ASSUME werrors' = {}, NEW e \in WalkEntries, OwesItem(e)'
               PROVE  KnownItem(e)' \/ ItemAhead(e)'
    BY DEF WalkOwesItems
  <2>1. OwesItem(e) /\ (PassedOver(e0) \/ GoneTo(e0))
    BY <1>1, <1>2, ItemsStay
  <2>2. werrors = {}
    BY <2>1 DEF PassedOver, GoneTo
  <2>3. KnownItem(e) \/ ItemAhead(e)
    BY <1>1, <2>1, <2>2 DEF WalkInv, WalkOwesItems
  <2>4. CASE KnownItem(e)
    BY <1>1, <2>4 DEF KnownItem
  <2>5. CASE ItemAhead(e)
    <3>1. PICK x \in Way[e] : x \in entriesLeft
      BY <1>1, <2>5 DEF ItemAhead
    <3>2. CASE GoneTo(e0)
      BY <3>1, <3>2 DEF GoneTo, ItemAhead
    <3>3. CASE PassedOver(e0)
      <4>1. x # e0
        <5> SUFFICES ASSUME x = e0 PROVE FALSE
          OBVIOUS
        <5>1. Recognized(e)
          BY <2>1 DEF OwesItem
        <5>2. (item[x].kind = "dir" /\ x \in SkippedDirs) \/ (item[x].kind \in {"file", "large"} /\ ~Recognized(x))
          BY <3>3 DEF PassedOver
        <5>3. x # RootItem
          BY <1>3 DEF WalkEntries
        <5>4. CASE x = e
          BY <2>1, <5>1, <5>2, <5>4, OwedWay
        <5>5. CASE x # e
          BY <2>1, <5>2, <5>3, <5>5, OwedWay
        <5> QED
          BY <5>4, <5>5
      <4> QED
        BY <3>1, <3>3, <4>1 DEF PassedOver, ItemAhead
    <3> QED
      BY <2>1, <3>2, <3>3
  <2> QED
    BY <2>3, <2>4, <2>5
<1>8. BuildOwesItems' /\ CompleteRootWasSearched'
  BY <1>4 DEF BuildOwesItems, CompleteRootWasSearched
<1> QED
  BY <1>1, <1>5, <1>6, <1>7, <1>8, ItemsStay DEF WalkInv

(* The opening of an entry: a fault, a directory to read, a configuration  *)
(* or a file of evidence, which is true to the bytes under its stamp.      *)
LEMMA FoundFacts ==
    ASSUME WalkInv, wpc = "open", NEW over, NEW print \in {glimpse.print, WalkStamp(glimpse.of)}
    PROVE  /\ Found(print, over).of = glimpse.of /\ Found(print, over).print = print
           /\ Stamped(glimpse.of, print, Found(print, over).data)
<1>1. glimpse.of \in Items /\ Stamped(glimpse.of, glimpse.print, glimpse.data)
  BY DEF WalkInv, WalkShape, WalkEntries
<1>2. item[glimpse.of] \in ItemStates /\ item[glimpse.of].time <= wtime
  BY <1>1 DEF WalkInv, ItemsShape
<1>3. WalkStamp(glimpse.of) \in WalkStamps /\ WalkStamp(glimpse.of)[3] <= wtime
  BY <1>2 DEF WalkStamp, WalkStamps, ItemStates
<1>4. /\ Found(print, over).of = glimpse.of /\ Found(print, over).print = print
      /\ Found(print, over).data = IF print = glimpse.print THEN glimpse.data ELSE item[glimpse.of].data
  BY DEF Found
<1>5. Stamped(glimpse.of, print, IF print = glimpse.print THEN glimpse.data ELSE item[glimpse.of].data)
  BY <1>1, <1>3 DEF Stamped
<1> QED
  BY <1>4, <1>5

TrueOf(f) == f.of = glimpse.of /\ Stamped(f.of, f.print, f.data) /\ Recognized(f.of) /\ ~IsDirClass(f.of)

(* The outcomes of opening an entry: refused, a directory to be read, a    *)
(* configuration, or a file that is taken as evidence.                     *)
LEMMA OpenItemCases ==
    ASSUME WalkInv, OpenItem
    PROVE  \/ /\ wpc' = "entry" /\ werrors' # {} /\ UNCHANGED configs
              /\ evid' = evid \/ \E f : TrueOf(f) /\ evid' = evid \cup {f}
           \/ wpc' = "read" /\ reading' = glimpse.of /\ IsDirClass(glimpse.of) /\ UNCHANGED <<configs, evid, werrors>>
           \/ wpc' = "entry" /\ Class[glimpse.of] = "config" /\ configs' = configs \cup {glimpse.of} /\ UNCHANGED <<evid, werrors>>
           \/ wpc' = "entry" /\ Class[glimpse.of] # "config" /\ UNCHANGED <<configs, werrors>> /\ \E f : TrueOf(f) /\ evid' = evid \cup {f}
<1> DEFINE e == glimpse.of
<1>1. PICK fails \in BOOLEAN :
        LET gone == fails \/ ~SameEntry(e)
            code == IF fails THEN "path_unavailable" ELSE "identity_changed"
        IN  CASE gone ->
                    /\ KeepEvidence(IF Class[e] \in {"lock", "launch"} THEN {Found(glimpse.print, FALSE)} ELSE {}, {code})
                    /\ wpc' = "entry"
              [] ~gone /\ IsDirClass(e) ->
                    /\ reading' = e /\ hooksOf' = IF Class[e] = "git" THEN glimpse.project ELSE hooksOf
                    /\ wpc' = "read" /\ UNCHANGED <<configs, evid, werrors>>
              [] ~gone /\ Class[e] = "config" /\ item[e].kind = "large" -> KeepEvidence({}, {"config_size_limit"}) /\ wpc' = "entry"
              [] ~gone /\ Class[e] = "config" /\ item[e].kind # "large" ->
                    configs' = configs \cup {e} /\ wpc' = "entry" /\ UNCHANGED <<reading, hooksOf, evid, werrors>>
              [] ~gone /\ Class[e] \in {"lock", "launch"} /\ WalkStamp(e) # glimpse.print -> KeepEvidence({}, {"identity_changed"}) /\ wpc' = "entry"
              [] OTHER -> KeepEvidence({Found(WalkStamp(e), item[e].kind = "large")}, {}) /\ wpc' = "entry"
  BY DEF OpenItem
<1>2. wpc = "open" /\ (~IsDirClass(e) => Recognized(e))
  BY DEF OpenItem, WalkInv, WalkShape
<1> DEFINE gone == fails \/ ~SameEntry(e)
<1>3. \A over : \A print \in {glimpse.print, WalkStamp(e)} : ~IsDirClass(e) => TrueOf(Found(print, over))
  BY <1>2, FoundFacts DEF TrueOf
<1>4. CASE gone
  <2>1. PICK code : KeepEvidence(IF Class[e] \in {"lock", "launch"} THEN {Found(glimpse.print, FALSE)} ELSE {}, {code}) /\ wpc' = "entry"
    BY <1>1, <1>4
  <2>2. werrors' # {} /\ UNCHANGED configs
    BY <2>1 DEF KeepEvidence
  <2>3. CASE Class[e] \in {"lock", "launch"}
    <3>1. evid' = evid \cup {Found(glimpse.print, FALSE)} /\ ~IsDirClass(e)
      BY <2>1, <2>3 DEF KeepEvidence, IsDirClass
    <3> QED
      BY <1>3, <2>1, <2>2, <3>1
  <2>4. CASE Class[e] \notin {"lock", "launch"}
    <3>1. evid' = evid
      BY <2>1, <2>4 DEF KeepEvidence
    <3> QED
      BY <2>1, <2>2, <3>1
  <2> QED
    BY <2>3, <2>4
<1>5. CASE ~gone /\ IsDirClass(e)
  <2>1. Class[e] \notin {"config", "lock", "launch"}
    BY <1>5 DEF IsDirClass
  <2>2. reading' = e /\ wpc' = "read" /\ UNCHANGED <<configs, evid, werrors>>
    BY <1>1, <1>5, <2>1
  <2> QED
    BY <1>5, <2>2
<1>6. CASE ~gone /\ ~IsDirClass(e) /\ Class[e] = "config"
  <2>1. CASE item[e].kind = "large"
    <3>1. KeepEvidence({}, {"config_size_limit"}) /\ wpc' = "entry"
      BY <1>1, <1>6, <2>1
    <3> QED
      BY <3>1 DEF KeepEvidence
  <2>2. CASE item[e].kind # "large"
    BY <1>1, <1>6, <2>2
  <2> QED
    BY <2>1, <2>2
<1>7. CASE ~gone /\ ~IsDirClass(e) /\ Class[e] \in {"lock", "launch"} /\ WalkStamp(e) # glimpse.print
  <2>1. KeepEvidence({}, {"identity_changed"}) /\ wpc' = "entry"
    BY <1>1, <1>7
  <2> QED
    BY <2>1 DEF KeepEvidence
<1>8. CASE ~gone /\ ~IsDirClass(e) /\ Class[e] # "config" /\ ~(Class[e] \in {"lock", "launch"} /\ WalkStamp(e) # glimpse.print)
  <2>1. KeepEvidence({Found(WalkStamp(e), item[e].kind = "large")}, {}) /\ wpc' = "entry"
    BY <1>1, <1>8
  <2>2. TrueOf(Found(WalkStamp(e), item[e].kind = "large"))
    BY <1>3, <1>8
  <2> QED
    BY <1>8, <2>1, <2>2 DEF KeepEvidence
<1> QED
  BY <1>4, <1>5, <1>6, <1>7, <1>8

(* OpenItem keeps the invariant.                                           *)
LEMMA OpenItemStep == ASSUME WalkInv, OpenItem PROVE WalkInv'
<1>1. UNCHANGED <<projectSide, rootSeen, glimpse, spent, built, wstatus>> /\ wpc = "open" /\ entriesLeft' = entriesLeft \ {glimpse.of}
  BY DEF OpenItem
<1>2. PICK g : g = glimpse.of
  OBVIOUS
<1>3. /\ g \in WalkEntries /\ g \in Items /\ g \in entriesLeft /\ UNCHANGED <<item, wtime>>
      /\ ~IsDirClass(g) => Recognized(g) /\ Spare < FileBudget
  BY <1>1, <1>2 DEF WalkInv, WalkShape, WalkEntries, projectSide
<1>4. \/ /\ wpc' = "entry" /\ werrors' # {} /\ UNCHANGED configs
         /\ evid' = evid \/ \E f : TrueOf(f) /\ evid' = evid \cup {f}
      \/ wpc' = "read" /\ reading' = g /\ IsDirClass(g) /\ UNCHANGED <<configs, evid, werrors>>
      \/ wpc' = "entry" /\ Class[g] = "config" /\ configs' = configs \cup {g} /\ UNCHANGED <<evid, werrors>>
      \/ wpc' = "entry" /\ Class[g] # "config" /\ UNCHANGED <<configs, werrors>> /\ \E f : TrueOf(f) /\ evid' = evid \cup {f}
  BY <1>2, OpenItemCases
<1>5. wpc' \in {"entry", "read"} /\ wstatus' \in {"complete", "partial", "unavailable", "not_present"}
  BY <1>1, <1>4 DEF WalkInv, BuiltShape
<1>6. /\ configs' = configs \/ (Class[g] = "config" /\ configs' = configs \cup {g} /\ evid' = evid)
      /\ evid' = evid \/ (configs' = configs /\ \E f : TrueOf(f) /\ evid' = evid \cup {f})
  BY <1>4
<1>7. IsFiniteSet(evid) /\ IsFiniteSet(configs) /\ Spare \in Nat /\ FileBudget \in Nat /\ Spare <= FileBudget
      /\ Cardinality(configs) \in Nat /\ Cardinality(evid) \in Nat
  BY SpareFacts, ItemsFinite DEF WalkInv, WalkShape
<1>8. IsFiniteSet(evid') /\ Spare' <= FileBudget
  <2>1. CASE configs' = configs /\ evid' = evid
    BY <1>7, <2>1 DEF Spare
  <2>2. CASE Class[g] = "config" /\ configs' = configs \cup {g} /\ evid' = evid
    <3>1. Cardinality(configs') \in {Cardinality(configs), Cardinality(configs) + 1}
      BY <1>7, <2>2, FS_AddElement
    <3>2. Spare < FileBudget
      BY <1>3, <2>2 DEF IsDirClass
    <3> QED
      BY <1>7, <2>2, <3>1, <3>2 DEF Spare
  <2>3. ASSUME configs' = configs, NEW f, TrueOf(f), evid' = evid \cup {f} PROVE IsFiniteSet(evid') /\ Spare' <= FileBudget
    <3>1. IsFiniteSet(evid') /\ Cardinality(evid') \in {Cardinality(evid), Cardinality(evid) + 1}
      BY <1>7, <2>3, FS_AddElement
    <3>2. Spare < FileBudget
      BY <1>2, <1>3, <2>3 DEF TrueOf
    <3> QED
      BY <1>7, <2>3, <3>1, <3>2 DEF Spare
  <2> QED
    BY <1>6, <2>1, <2>2, <2>3
<1>9. \A f \in evid' : f.of \in WalkEntries /\ Recognized(f.of) /\ Stamped(f.of, f.print, f.data)
  BY <1>2, <1>3, <1>6 DEF TrueOf, WalkInv, WalkShape
<1>10. WalkShape'
  <2>1. \A f \in evid' : f.of \in WalkEntries /\ Recognized(f.of) /\ Stamped(f.of, f.print, f.data)'
    BY <1>3, <1>9 DEF Stamped, WalkStamp
  <2>2. configs \subseteq WalkEntries /\ entriesLeft \subseteq WalkEntries /\ spent \in 0..EntryBudget
    BY DEF WalkInv, WalkShape
  <2>3. configs' \subseteq WalkEntries /\ entriesLeft' \subseteq WalkEntries /\ spent' \in 0..EntryBudget
    BY <1>1, <1>3, <1>6, <2>2
  <2>4. wpc' = "read" => reading' \in Items
    BY <1>3, <1>4
  <2> QED
    BY <1>5, <1>8, <2>1, <2>3, <2>4 DEF WalkShape, Recognized
<1>11. BuiltShape'
  BY <1>1, <1>5, <1>6, BuiltStays
<1>12. WalkOwesItems'
  <2> SUFFICES ASSUME werrors' = {}, NEW e \in WalkEntries, OwesItem(e)'
               PROVE  KnownItem(e)' \/ ItemAhead(e)'
    BY DEF WalkOwesItems
  <2>1. OwesItem(e)
    BY <1>1, ItemsStay
  <2>2. werrors = {}
    BY <1>4
  <2>3. KnownItem(e) \/ \E x \in Way[e] : x \in entriesLeft
    BY <1>1, <2>1, <2>2 DEF WalkInv, WalkOwesItems, ItemAhead
  <2>4. CASE KnownItem(e)
    BY <1>6, <2>4 DEF KnownItem
  <2>5. CASE \E x \in Way[e] : x \in entriesLeft /\ x # g
    BY <1>1, <1>2, <2>5 DEF ItemAhead
  <2>6. CASE g \in Way[e] /\ g # e
    <3>1. g \in DirsTo(e) /\ IsDirClass(g)
      BY <2>1, <2>6, OwedWay
    <3>2. wpc' = "read" /\ reading' = g
      BY <1>2, <1>4, <3>1 DEF TrueOf, IsDirClass
    <3> QED
      BY <3>1, <3>2 DEF ItemAhead
  <2>7. CASE g = e
    <3>1. ~IsDirClass(g)
      BY <2>1, <2>7 DEF OwesItem, Recognized, IsDirClass
    <3>2. \/ Class[g] = "config" /\ configs' = configs \cup {g}
          \/ Class[g] # "config" /\ \E f : TrueOf(f) /\ evid' = evid \cup {f}
      BY <1>4, <3>1
    <3> QED
      BY <1>2, <2>7, <3>2 DEF KnownItem, TrueOf
  <2> QED
    BY <2>3, <2>4, <2>5, <2>6, <2>7
<1>13. BuildOwesItems' /\ CompleteRootWasSearched'
  BY <1>5 DEF BuildOwesItems, CompleteRootWasSearched
<1> QED
  BY <1>1, <1>10, <1>11, <1>12, <1>13, ItemsStay DEF WalkInv

(* EndProjects keeps the invariant.                                        *)
LEMMA EndProjectsStep == ASSUME WalkInv, EndProjects PROVE WalkInv'
<1>1. UNCHANGED <<projectSide, item, wtime, rootSeen, reading, entriesLeft, glimpse, hooksOf, spent, configs, evid, built, werrors, wstatus>>
      /\ wpc = "entry" /\ wpc' = "build" /\ entriesLeft = {}
  BY DEF EndProjects, walked, projectSide
<1>2. WalkShape'
  BY <1>1, EvidenceStays DEF WalkInv, WalkShape
<1>3. BuiltShape'
  BY <1>1, BuiltStays DEF WalkInv, BuiltShape
<1>4. WalkOwesItems'
  BY <1>1, ItemsStay DEF WalkInv, WalkOwesItems, KnownItem, ItemAhead
<1>5. BuildOwesItems' /\ CompleteRootWasSearched'
  BY <1>1 DEF BuildOwesItems, CompleteRootWasSearched
<1> QED
  BY <1>1, <1>2, <1>3, <1>4, <1>5, ItemsStay DEF WalkInv

-----------------------------------------------------------------------------
(* The second half: projects, evidence, lockfiles *)

(* What a step of the second half keeps of the walk.                       *)
LEMMA WalkedStays ==
    ASSUME WalkInv, UNCHANGED <<projectSide, walked>>, wpc' \in {"issue", "hash", "launch", "parse", "confirm", "covered", "aborted"}
    PROVE  /\ ItemsShape' /\ WalkShape' /\ WalkOwesItems' /\ UNCHANGED <<item, wtime, configs, evid>>
           /\ \A e \in WalkEntries : OwesItem(e)' <=> OwesItem(e)
<1>1. UNCHANGED <<item, wtime, configs, evid, entriesLeft, spent, reading, glimpse>>
  BY DEF walked, projectSide
<1>2. WalkShape'
  BY <1>1, EvidenceStays DEF WalkInv, WalkShape
<1>3. WalkOwesItems'
  BY DEF WalkOwesItems
<1> QED
  BY <1>1, <1>2, <1>3, ItemsStay

(* BuildProjects keeps the invariant.                                      *)
LEMMA BuildProjectsStep == ASSUME WalkInv, BuildProjects PROVE WalkInv'
<1>1. UNCHANGED <<projectSide, walked, parsed, issued, records, wstatus>> /\ wpc = "build" /\ wpc' = "issue"
  BY DEF BuildProjects
<1> DEFINE all == {ProjectOf(e) : e \in configs} \cup {ProjectOf(f.of) : f \in evid}
<1>2. PICK safe \in {all} \cup {all \ {d} : d \in all} :
            /\ werrors' = werrors \cup (IF safe = all THEN {} ELSE {"identity_rejected"})
            /\ handed' = {e \in configs : ProjectOf(e) \in safe}
            /\ work' = [left |-> {f \in evid : ProjectOf(f.of) \in safe}, now |-> None]
  BY DEF BuildProjects
<1>3. work' = [left |-> work'.left, now |-> work'.now] /\ work'.left = {f \in evid : ProjectOf(f.of) \in safe}
  BY <1>2
<1>4. BuiltShape'
  BY <1>1, <1>2, <1>3, WalkedStays DEF WalkInv, BuiltShape, Anchored, walked
<1>5. BuildOwesItems'
  <2> SUFFICES ASSUME werrors' = {}, NEW e \in WalkEntries, OwesItem(e)' PROVE ItemHanded(e)'
    BY DEF BuildOwesItems
  <2>1. OwesItem(e) /\ werrors = {} /\ safe = all /\ entriesLeft = {}
    BY <1>1, <1>2, WalkedStays DEF WalkInv, WalkShape
  <2>2. KnownItem(e)
    BY <1>1, <2>1 DEF WalkInv, WalkOwesItems, ItemAhead
  <2>3. CASE Class[e] = "config"
    <3>1. e \in configs /\ ProjectOf(e) \in all
      BY <2>2, <2>3 DEF KnownItem
    <3> QED
      BY <1>2, <2>1, <2>3, <3>1 DEF ItemHanded
  <2>4. CASE Class[e] # "config"
    <3>1. PICK f \in evid : f.of = e
      BY <2>2, <2>4 DEF KnownItem
    <3>2. ProjectOf(f.of) \in all
      OBVIOUS
    <3>3. f \in work'.left
      BY <1>3, <2>1, <3>2
    <3> QED
      BY <2>4, <3>1, <3>3 DEF ItemHanded
  <2> QED
    BY <2>3, <2>4
<1>6. CompleteRootWasSearched'
  BY <1>1 DEF CompleteRootWasSearched
<1> QED
  BY <1>1, <1>4, <1>5, <1>6, WalkedStays DEF WalkInv

(* A file of evidence gets its record: an anchor when it is as it was      *)
(* found.                                                                  *)
LEMMA IssueStepKeeps ==
    ASSUME WalkInv, wpc \in {"issue", "hash"}, NEW f \in work.left, NEW s, IssueStep(f, s), s = "anchored" => WalkStamp(f.of) = f.print
    PROVE  WalkInv'
<1> DEFINE new == [of |-> f.of, status |-> s, data |-> IF s = "anchored" THEN item[f.of].data ELSE None]
<1>4. /\ issued' = issued \cup {new}
      /\ work' = [left |-> work.left \ {f}, now |-> IF s = "anchored" /\ After(f) # "issue" THEN f ELSE None]
      /\ wpc' = (IF s = "anchored" THEN After(f) ELSE "issue")
      /\ UNCHANGED <<projectSide, walked, projects, parsed, handed, records, werrors, wstatus>>
  BY DEF IssueStep, Issue
<1>5. After(f) \in {"parse", "launch", "issue"} /\ (After(f) = "parse" => Class[f.of] = "lock")
  BY DEF After
<1>6. wpc' \in {"issue", "launch", "parse"} /\ (wpc' # "issue" => s = "anchored" /\ After(f) = wpc' /\ work'.now = f)
  BY <1>4, <1>5
<1>7. f \in work.left /\ f \in evid /\ Stamped(f.of, f.print, f.data) /\ work'.left = work.left \ {f} /\ work' = [left |-> work'.left, now |-> work'.now]
  BY <1>4 DEF WalkInv, WalkShape, BuiltShape
<1>8. new.of = f.of /\ new.status = s /\ (s = "anchored" => new.data = f.data)
  BY <1>7 DEF Stamped
<1> HIDE DEF new
<1>9. BuiltShape'
  <2>1. handed' \subseteq configs' /\ work'.left \subseteq evid'
    BY <1>4, <1>7 DEF WalkInv, BuiltShape, walked
  <2>2. \A t \in issued' : \E x \in evid' : x.of = t.of /\ (t.status = "anchored" => x.data = t.data)
    BY <1>4, <1>7, <1>8 DEF WalkInv, BuiltShape, walked
  <2>3. wpc' \in {"launch", "parse", "confirm"} => work'.now \in evid' /\ Anchored(work.now.of, work.now.data)'
    <3> SUFFICES ASSUME wpc' # "issue" PROVE work'.now \in evid' /\ Anchored(work.now.of, work.now.data)'
      BY <1>6
    <3>1. new \in issued' /\ new.of = f.of /\ new.status = "anchored" /\ new.data = f.data /\ work'.now = f
      BY <1>4, <1>6, <1>8
    <3> QED
      BY <1>4, <1>7, <3>1 DEF Anchored, walked
  <2>4. wpc' \in {"parse", "confirm"} => Class[work'.now.of] = "lock"
    BY <1>5, <1>6
  <2>5. IsFiniteSet(records') /\ \A r \in records' : r.says \in DOMAIN Provenances /\ Anchored(r.lock, r.says)'
    BY <1>4 DEF WalkInv, BuiltShape, Anchored
  <2> QED
    BY <1>4, <1>6, <1>7, <2>1, <2>2, <2>3, <2>4, <2>5 DEF WalkInv, BuiltShape
<1>10. BuildOwesItems'
  <2> SUFFICES ASSUME werrors' = {}, NEW e \in WalkEntries, OwesItem(e)' PROVE ItemHanded(e)'
    BY DEF BuildOwesItems
  <2>1. ItemHanded(e)
    BY <1>4, <1>6, WalkedStays DEF WalkInv, BuildOwesItems
  <2> QED
    BY <1>4, <1>7, <1>8, <2>1 DEF ItemHanded
<1>11. CompleteRootWasSearched'
  BY <1>6 DEF CompleteRootWasSearched
<1> QED
  BY <1>4, <1>6, <1>9, <1>10, <1>11, WalkedStays DEF WalkInv

(* IssueEvidence keeps the invariant.                                      *)
LEMMA IssueEvidenceStep == ASSUME WalkInv, IssueEvidence PROVE WalkInv'
<1>1. PICK f \in work.left :
        \/ IssueStep(f, "oversize") \/ IssueStep(f, "unavailable")
        \/ /\ work' = [work EXCEPT !.now = f] /\ wpc' = "hash"
           /\ UNCHANGED <<projectSide, walked, projects, parsed, handed, issued, records, errorRoom, werrors, wstatus>>
  BY DEF IssueEvidence
<1>2. wpc = "issue"
  BY DEF IssueEvidence
<1>3. CASE IssueStep(f, "oversize") \/ IssueStep(f, "unavailable")
  BY <1>2, <1>3, IssueStepKeeps
<1>4. CASE /\ work' = [work EXCEPT !.now = f] /\ wpc' = "hash"
           /\ UNCHANGED <<projectSide, walked, projects, parsed, handed, issued, records, errorRoom, werrors, wstatus>>
  <2>1. work' = [left |-> work.left, now |-> f] /\ work'.left = work.left /\ work'.now = f
    BY <1>4 DEF WalkInv, BuiltShape
  <2>2. BuiltShape'
    BY <1>4, <2>1, WalkedStays DEF WalkInv, BuiltShape, Anchored
  <2>3. BuildOwesItems'
    BY <1>2, <1>4, <2>1, WalkedStays DEF WalkInv, BuildOwesItems, ItemHanded
  <2>4. CompleteRootWasSearched'
    BY <1>4 DEF CompleteRootWasSearched
  <2> QED
    BY <1>4, <2>2, <2>3, <2>4, WalkedStays DEF WalkInv
<1> QED
  BY <1>1, <1>3, <1>4

(* HashEvidence keeps the invariant.                                       *)
LEMMA HashEvidenceStep == ASSUME WalkInv, HashEvidence PROVE WalkInv'
<1>1. wpc = "hash" /\ work.now \in work.left
  BY DEF HashEvidence, WalkInv, BuiltShape
<1>2. \/ IssueStep(work.now, "oversize") \/ IssueStep(work.now, "unavailable")
      \/ WalkStamp(work.now.of) = work.now.print /\ IssueStep(work.now, "anchored")
  BY DEF HashEvidence
<1> QED
  BY <1>1, <1>2, IssueStepKeeps

(* A step that ends the work on one file.                                  *)
LEMMA WorkedStays ==
    ASSUME WalkInv, UNCHANGED <<projectSide, walked, projects, handed, issued, wstatus>>, wpc \in {"launch", "parse", "confirm"},
           wpc' = "issue", work' = [work EXCEPT !.now = None], werrors = werrors' \/ werrors' # {},
           IsFiniteSet(records'), \A r \in records' : r.says \in DOMAIN Provenances /\ Anchored(r.lock, r.says)
    PROVE  WalkInv'
<1>1. work'.left = work.left /\ work' = [left |-> work'.left, now |-> work'.now]
  BY DEF WalkInv, BuiltShape
<1>2. BuiltShape'
  BY <1>1, WalkedStays DEF WalkInv, BuiltShape, Anchored
<1>3. BuildOwesItems'
  <2> SUFFICES ASSUME werrors' = {}, NEW e \in WalkEntries, OwesItem(e)' PROVE ItemHanded(e)'
    BY DEF BuildOwesItems
  <2>1. ItemHanded(e)
    BY WalkedStays DEF WalkInv, BuildOwesItems
  <2> QED
    BY <1>1, <2>1 DEF ItemHanded
<1>4. CompleteRootWasSearched'
  BY DEF CompleteRootWasSearched
<1> QED
  BY <1>2, <1>3, <1>4, WalkedStays DEF WalkInv

(* CheckLaunch keeps the invariant.                                        *)
LEMMA CheckLaunchStep == ASSUME WalkInv, CheckLaunch PROVE WalkInv'
<1>1. /\ UNCHANGED <<projectSide, walked, projects, parsed, handed, issued, records, wstatus>> /\ wpc = "launch" /\ wpc' = "issue"
      /\ work' = [work EXCEPT !.now = None]
  BY DEF CheckLaunch
<1>2. werrors = werrors' \/ werrors' # {}
  BY DEF CheckLaunch, FailIfRoom, Fail
<1> QED
  BY <1>1, <1>2, WorkedStays DEF WalkInv, BuiltShape

(* ParseLockfile keeps the invariant.                                      *)
LEMMA ParseLockfileStep == ASSUME WalkInv, ParseLockfile PROVE WalkInv'
<1>1. UNCHANGED <<projectSide, walked, projects, handed, issued, records, wstatus>> /\ wpc = "parse"
  BY DEF ParseLockfile
<1>2. CASE WalkStamp(work.now.of) # work.now.print \/ item[work.now.of].data = "broken"
  <2>1. wpc' = "issue" /\ work' = [work EXCEPT !.now = None] /\ (werrors = werrors' \/ werrors' # {})
    BY <1>2 DEF ParseLockfile, FailIfRoom, Fail
  <2> QED
    BY <1>1, <2>1, WorkedStays DEF WalkInv, BuiltShape
<1>3. CASE WalkStamp(work.now.of) = work.now.print /\ item[work.now.of].data # "broken"
  <2>1. parsed' = item[work.now.of].data /\ wpc' = "confirm" /\ UNCHANGED <<work, werrors>>
    BY <1>3 DEF ParseLockfile
  <2>2. work.now \in evid /\ Class[work.now.of] = "lock" /\ Anchored(work.now.of, work.now.data)
    BY <1>1 DEF WalkInv, BuiltShape
  <2>3. work.now.of \in WalkEntries /\ item[work.now.of].data = work.now.data
    BY <1>3, <2>2 DEF WalkInv, WalkShape, Stamped
  <2>4. item[work.now.of].data \in ItemData \ {None, "broken"}
    BY <1>3, <2>2, <2>3 DEF WalkInv, ItemsShape, WalkEntries, ItemStates
  <2>5. BuiltShape'
    BY <1>1, <2>1, <2>2, <2>3, <2>4, WalkedStays DEF WalkInv, BuiltShape, Anchored, ItemData
  <2>6. BuildOwesItems'
    BY <1>1, <2>1, WalkedStays DEF WalkInv, BuildOwesItems, ItemHanded
  <2>7. CompleteRootWasSearched'
    BY <2>1 DEF CompleteRootWasSearched
  <2> QED
    BY <1>1, <2>1, <2>5, <2>6, <2>7, WalkedStays DEF WalkInv
<1> QED
  BY <1>2, <1>3

(* ConfirmLockfile keeps the invariant.                                    *)
LEMMA ConfirmLockfileStep == ASSUME WalkInv, ConfirmLockfile PROVE WalkInv'
<1>1. /\ UNCHANGED <<projectSide, walked, projects, handed, issued, wstatus>> /\ wpc = "confirm" /\ wpc' = "issue"
      /\ work' = [work EXCEPT !.now = None]
  BY DEF ConfirmLockfile
<1>2. /\ IsFiniteSet(records) /\ \A r \in records : r.says \in DOMAIN Provenances /\ Anchored(r.lock, r.says)
      /\ parsed \in DOMAIN Provenances /\ parsed = work.now.data /\ Anchored(work.now.of, work.now.data)
  BY <1>1 DEF WalkInv, BuiltShape
<1>3. CASE WalkStamp(work.now.of) = work.now.print
  <2>1. records' = records \cup {[lock |-> work.now.of, says |-> parsed]} /\ UNCHANGED werrors
    BY <1>3 DEF ConfirmLockfile
  <2>2. IsFiniteSet(records')
    BY <1>2, <2>1, FS_AddElement
  <2>3. \A r \in records' : r.says \in DOMAIN Provenances /\ Anchored(r.lock, r.says)
    BY <1>2, <2>1
  <2> QED
    BY <1>1, <2>1, <2>2, <2>3, WorkedStays
<1>4. CASE WalkStamp(work.now.of) # work.now.print
  <2>1. (werrors = werrors' \/ werrors' # {}) /\ UNCHANGED records
    BY <1>4 DEF ConfirmLockfile, FailIfRoom, Fail
  <2> QED
    BY <1>1, <1>2, <2>1, WorkedStays
<1> QED
  BY <1>3, <1>4

(* CoverRoot keeps the invariant.                                          *)
LEMMA CoverRootStep == ASSUME WalkInv, CoverRoot PROVE WalkInv'
<1>1. /\ UNCHANGED <<projectSide, walked, built, werrors>> /\ wpc = "issue" /\ wpc' = "covered" /\ work.left = {}
      /\ wstatus' = IF werrors = {} THEN "complete" ELSE "partial"
  BY DEF CoverRoot
<1>2. BuiltShape'
  BY <1>1, BuiltStays, WalkedStays
<1>3. BuildOwesItems'
  BY <1>1 DEF BuildOwesItems
<1>4. CompleteRootWasSearched'
  <2> SUFFICES ASSUME werrors = {}, NEW e \in WalkEntries, Untouched(e)', ~Skipped(e)
               PROVE  /\ Class[e] = "config" => e \in handed'
                      /\ Class[e] \in {"lock", "launch", "hook"} => \E t \in issued' : t.of = e
    BY <1>1 DEF CompleteRootWasSearched, Skipped
  <2>1. Recognized(e) => ItemHanded(e)
    BY <1>1, WalkedStays DEF OwesItem, Recognized, Skipped, WalkInv, BuildOwesItems
  <2> QED
    BY <1>1, <2>1 DEF Recognized, ItemHanded, built
<1> QED
  BY <1>1, <1>2, <1>3, <1>4, WalkedStays DEF WalkInv

(* AbortProjects keeps the invariant.                                      *)
LEMMA AbortProjectsStep == ASSUME WalkInv, AbortProjects PROVE WalkInv'
<1>1. /\ UNCHANGED <<projectSide, walked, work, parsed, werrors, wstatus>> /\ wpc' = "aborted"
      /\ handed' = {} /\ issued' = {} /\ records' = {}
  BY DEF AbortProjects
<1>2. BuiltShape'
  BY <1>1, WalkedStays, FS_EmptySet DEF WalkInv, BuiltShape
<1>3. BuildOwesItems' /\ CompleteRootWasSearched'
  BY <1>1 DEF BuildOwesItems, CompleteRootWasSearched
<1> QED
  BY <1>1, <1>2, <1>3, WalkedStays DEF WalkInv

(* Every step of the project walk keeps the invariant.                     *)
LEMMA WalkNext_Inv == WalkInv /\ [ProjectNext]_projectVars => WalkInv'
<1> SUFFICES ASSUME WalkInv, [ProjectNext]_projectVars PROVE WalkInv'
  OBVIOUS
<1>1. CASE ProjectNext
  BY <1>1, OpenRootDirectoryStep, ReadBoundedStep, LookItemStep, OpenItemStep, EndProjectsStep, BuildProjectsStep, IssueEvidenceStep, HashEvidenceStep,
     CheckLaunchStep, ParseLockfileStep, ConfirmLockfileStep, CoverRootStep, AbortProjectsStep, WriteProjectStep DEF ProjectNext
<1>2. CASE UNCHANGED projectVars
  <2> USE <1>2 DEF projectVars, projectSide, walked, built
  <2>1. WalkShape'
    BY EvidenceStays DEF WalkInv, WalkShape, Stamped, WalkStamp
  <2>2. BuiltShape'
    BY DEF WalkInv, BuiltShape, Anchored
  <2>3. ItemsShape' /\ \A e \in WalkEntries : OwesItem(e)' <=> OwesItem(e)
    BY ItemsStay
  <2>4. WalkOwesItems' /\ BuildOwesItems'
    BY <2>3 DEF WalkInv, WalkOwesItems, BuildOwesItems, KnownItem, ItemAhead, ItemHanded
  <2>5. CompleteRootWasSearched'
    BY DEF WalkInv, CompleteRootWasSearched, Untouched, Skipped
  <2> QED
    BY <2>1, <2>2, <2>3, <2>4, <2>5 DEF WalkInv
<1> QED
  BY <1>1, <1>2

-----------------------------------------------------------------------------
(* The aggregate of the records, taken one by one, is what all of them say *)
(* together.                                                               *)
Pin(seq, i) == Provenances[seq[i]]
NotKnown == [status |-> "unknown", integrity |-> None]
Changeable == [status |-> "mutable", integrity |-> None]
SomeMutable(seq, i) == \E j \in 1..i : Pin(seq, j).status = "mutable"
AllAlike(seq, i) == \A j \in 1..i : Pin(seq, j) = Pin(seq, 1)
Settled(seq, i) == IF SomeMutable(seq, i) THEN Changeable ELSE IF AllAlike(seq, i) THEN Pin(seq, 1) ELSE NotKnown
OneRecord(seq, before, i) == IF i = 1 THEN Provenances[seq[1]] ELSE Conservative(before, Provenances[seq[i]])
SettledUpTo(seq) == [i \in 1..Len(seq) |-> Settled(seq, i)]

(* A provenance is one of three: mutable, unknown, or immutable with its   *)
(* digest.                                                                 *)
LEMMA PinFacts ==
    ASSUME NEW x \in DOMAIN Provenances
    PROVE  /\ Provenances[x].status \in {"mutable", "immutable", "unknown"}
           /\ Provenances[x].status = "mutable" => Provenances[x] = Changeable
           /\ Provenances[x].status = "unknown" => Provenances[x] = NotKnown
           /\ Provenances[x].status = "immutable" => Provenances[x] = [status |-> "immutable", integrity |-> Provenances[x].integrity]
<1>1. PICK s \in {"mutable", "immutable", "unknown"}, i \in {None, Provenances[x].integrity} :
            Provenances[x] = [status |-> s, integrity |-> i] /\ (s # "immutable" => i = None)
  <2>1. \E s \in {"mutable", "immutable", "unknown"} : \E i \in {None, Provenances[x].integrity} :
            Provenances[x] = [status |-> s, integrity |-> i] /\ (s # "immutable" => i = None)
    BY ProjectWalkAssumption
  <2> QED
    BY <2>1
<1>2. Provenances[x].status = s /\ Provenances[x].integrity = i
  BY <1>1
<1> QED
  BY <1>1, <1>2 DEF Changeable, NotKnown

(* What is settled after a record follows from what was settled before it. *)
LEMMA RecordByRecord ==
    ASSUME NEW seq \in Seq(DOMAIN Provenances), NEW i \in 1..Len(seq)
    PROVE  Settled(seq, i) = OneRecord(seq, Settled(seq, i - 1), i)
<1>1. Len(seq) \in Nat /\ \A j \in 1..Len(seq) : seq[j] \in DOMAIN Provenances
  OBVIOUS
<1>2. CASE i = 1
  <2>1. 1..1 = {1}
    OBVIOUS
  <2>2. SomeMutable(seq, 1) => Pin(seq, 1) = Changeable
    BY <1>1, <1>2, <2>1, PinFacts DEF SomeMutable, Pin
  <2>3. AllAlike(seq, 1)
    BY <2>1 DEF AllAlike
  <2> QED
    BY <1>2, <2>2, <2>3 DEF Settled, OneRecord, Pin
<1>3. CASE i # 1
  <2>1. i - 1 \in 1..Len(seq) /\ 1..i = (1..(i - 1)) \cup {i} /\ 1 \in 1..(i - 1)
    BY <1>1, <1>3
  <2> DEFINE p == Settled(seq, i - 1)
             q == Pin(seq, i)
  <2>2. OneRecord(seq, p, i) = Conservative(p, q)
    BY <1>3 DEF OneRecord, Pin
  <2>3. SomeMutable(seq, i) <=> SomeMutable(seq, i - 1) \/ q.status = "mutable"
    BY <2>1 DEF SomeMutable
  <2>4. AllAlike(seq, i) <=> AllAlike(seq, i - 1) /\ q = Pin(seq, 1)
    BY <2>1 DEF AllAlike
  <2>5. /\ Changeable.status = "mutable" /\ NotKnown.status = "unknown"
    BY DEF Changeable, NotKnown
  <2>6. /\ q.status \in {"mutable", "immutable", "unknown"} /\ (q.status = "unknown" => q = NotKnown)
        /\ Pin(seq, 1).status \in {"mutable", "immutable", "unknown"} /\ (Pin(seq, 1).status = "unknown" => Pin(seq, 1) = NotKnown)
    <3>1. 1 \in 1..Len(seq) /\ seq[1] \in DOMAIN Provenances /\ seq[i] \in DOMAIN Provenances
      BY <1>1, <2>1
    <3> QED
      BY <3>1, PinFacts DEF Pin
  <2>7. ~SomeMutable(seq, i - 1) => Pin(seq, 1).status # "mutable"
    BY <2>1 DEF SomeMutable
  <2>8. p.status = "mutable" <=> SomeMutable(seq, i - 1)
    BY <2>5, <2>7 DEF Settled
  <2>9. CASE SomeMutable(seq, i)
    <3>1. Conservative(p, q) = Changeable
      BY <2>3, <2>8, <2>9 DEF Conservative, Changeable
    <3> QED
      BY <2>2, <2>9, <3>1 DEF Settled
  <2>10. CASE ~SomeMutable(seq, i) /\ p = q /\ p.status = "immutable"
    <3>1. Conservative(p, q) = p
      BY <2>10 DEF Conservative
    <3>2. AllAlike(seq, i - 1) /\ p = Pin(seq, 1)
      BY <2>3, <2>5, <2>10 DEF Settled
    <3> QED
      BY <2>2, <2>4, <2>10, <3>1, <3>2 DEF Settled
  <2>11. CASE ~SomeMutable(seq, i) /\ ~(p = q /\ p.status = "immutable")
    <3>1. Conservative(p, q) = NotKnown
      BY <2>3, <2>8, <2>11 DEF Conservative, NotKnown
    <3>2. AllAlike(seq, i) => Pin(seq, 1) = NotKnown
      <4> SUFFICES ASSUME AllAlike(seq, i) PROVE Pin(seq, 1) = NotKnown
        OBVIOUS
      <4>1. p = Pin(seq, 1) /\ p = q
        BY <2>3, <2>4, <2>11 DEF Settled
      <4> QED
        BY <2>3, <2>6, <2>11, <4>1
    <3> QED
      BY <2>2, <2>11, <3>1, <3>2 DEF Settled
  <2> QED
    BY <2>9, <2>10, <2>11
<1> QED
  BY <1>2, <1>3

(* The recursive merge has the value each record gives it.                 *)
LEMMA AggregateDefined ==
    ASSUME NEW seq \in Seq(DOMAIN Provenances)
    PROVE  AggregateUpTo(seq) = [i \in 1..Len(seq) |-> OneRecord(seq, AggregateUpTo(seq)[i - 1], i)]
<1> DEFINE Solves(f) == f = [i \in 1..Len(seq) |-> OneRecord(seq, f[i - 1], i)]
<1>1. AggregateUpTo(seq) = CHOOSE f : Solves(f)
  BY DEF AggregateUpTo, OneRecord
<1>2. Solves(SettledUpTo(seq))
  <2>1. SettledUpTo(seq) = [i \in 1..Len(seq) |-> Settled(seq, i)]
    BY DEF SettledUpTo
  <2>2. \A i \in 1..Len(seq) : Settled(seq, i) = OneRecord(seq, SettledUpTo(seq)[i - 1], i)
    <3> SUFFICES ASSUME NEW i \in 1..Len(seq) PROVE Settled(seq, i) = OneRecord(seq, SettledUpTo(seq)[i - 1], i)
      OBVIOUS
    <3>1. i # 1 => SettledUpTo(seq)[i - 1] = Settled(seq, i - 1)
      BY <2>1
    <3> QED
      BY <3>1, RecordByRecord DEF OneRecord
  <2> HIDE DEF Solves
  <2>3. [i \in 1..Len(seq) |-> Settled(seq, i)] = [i \in 1..Len(seq) |-> OneRecord(seq, SettledUpTo(seq)[i - 1], i)]
    BY <2>2
  <2> QED
    BY <2>1, <2>3 DEF Solves
<1>3. Solves(CHOOSE f : Solves(f))
  <2> HIDE DEF Solves
  <2> QED
    BY <1>2
<1> QED
  BY <1>1, <1>3

(* The merge of a sequence is what is settled after its last record.       *)
LEMMA AggregateSettles ==
    ASSUME NEW seq \in Seq(DOMAIN Provenances), seq # <<>>
    PROVE  Aggregate(seq) = Settled(seq, Len(seq))
<1> DEFINE A == AggregateUpTo(seq)
           wrong == {i \in 1..Len(seq) : A[i] # Settled(seq, i)}
<1>1. \A i \in 1..Len(seq) : A[i] = OneRecord(seq, A[i - 1], i)
  BY AggregateDefined
<1>2. Len(seq) \in Nat \ {0}
  OBVIOUS
<1>3. wrong = {}
  <2> SUFFICES ASSUME wrong # {} PROVE FALSE
    OBVIOUS
  <2>1. wrong \in SUBSET Nat
    BY <1>2
  <2>2. PICK i \in wrong : \A j \in wrong : i <= j
    BY <2>1, LeastOf
  <2> HIDE DEF A
  <2>3. i \in 1..Len(seq) /\ A[i] # Settled(seq, i)
    BY <2>2
  <2>4. CASE i = 1
    BY <1>1, <2>3, <2>4, RecordByRecord DEF OneRecord
  <2>5. CASE i # 1
    <3>1. i - 1 \in 1..Len(seq) /\ ~(i <= i - 1)
      BY <1>2, <2>3, <2>5
    <3>2. A[i - 1] = Settled(seq, i - 1)
      BY <2>2, <3>1
    <3> QED
      BY <1>1, <2>3, <3>2, RecordByRecord
  <2> QED
    BY <2>4, <2>5
<1>4. Len(seq) \in 1..Len(seq)
  BY <1>2
<1> QED
  BY <1>3, <1>4 DEF Aggregate

(* Two orders of the same records say the same.                            *)
LEMMA OrderDoesNotMatter ==
    ASSUME NEW x \in Seq(DOMAIN Provenances), NEW y \in Seq(DOMAIN Provenances), x # <<>>, y # <<>>,
           \A i \in 1..Len(x) : \E j \in 1..Len(y) : x[i] = y[j],
           \A j \in 1..Len(y) : \E i \in 1..Len(x) : x[i] = y[j]
    PROVE  Aggregate(x) = Aggregate(y)
<1>1. 1 \in 1..Len(x) /\ 1 \in 1..Len(y)
  OBVIOUS
<1>2. SomeMutable(x, Len(x)) <=> SomeMutable(y, Len(y))
  <2>1. ASSUME NEW i \in 1..Len(x), Pin(x, i).status = "mutable" PROVE SomeMutable(y, Len(y))
    <3>1. PICK j \in 1..Len(y) : x[i] = y[j]
      OBVIOUS
    <3> QED
      BY <2>1, <3>1 DEF SomeMutable, Pin
  <2>2. ASSUME NEW j \in 1..Len(y), Pin(y, j).status = "mutable" PROVE SomeMutable(x, Len(x))
    <3>1. PICK i \in 1..Len(x) : x[i] = y[j]
      OBVIOUS
    <3> QED
      BY <2>2, <3>1 DEF SomeMutable, Pin
  <2> QED
    BY <2>1, <2>2 DEF SomeMutable
<1>3. AllAlike(x, Len(x)) => \A j \in 1..Len(y) : Pin(y, j) = Pin(x, 1)
  BY DEF AllAlike, Pin
<1>4. AllAlike(y, Len(y)) => \A i \in 1..Len(x) : Pin(x, i) = Pin(y, 1)
  BY DEF AllAlike, Pin
<1>5. AllAlike(x, Len(x)) <=> AllAlike(y, Len(y))
  <2>1. ASSUME AllAlike(x, Len(x)), NEW j \in 1..Len(y) PROVE Pin(y, j) = Pin(y, 1)
    <3>1. Pin(y, j) = Pin(x, 1) /\ Pin(y, 1) = Pin(x, 1)
      BY <1>1, <1>3, <2>1
    <3> QED
      BY <3>1
  <2>2. ASSUME AllAlike(y, Len(y)), NEW i \in 1..Len(x) PROVE Pin(x, i) = Pin(x, 1)
    <3>1. Pin(x, i) = Pin(y, 1) /\ Pin(x, 1) = Pin(y, 1)
      BY <1>1, <1>4, <2>2
    <3> QED
      BY <3>1
  <2> QED
    BY <2>1, <2>2 DEF AllAlike
<1>6. AllAlike(x, Len(x)) => Pin(x, 1) = Pin(y, 1)
  BY <1>1, <1>3
<1>7. Settled(x, Len(x)) = Settled(y, Len(y))
  BY <1>2, <1>5, <1>6 DEF Settled
<1> QED
  BY <1>7, AggregateSettles

(* What the invariant says of projects in the words of the properties.     *)
LEMMA WalkInvMeans ==
    WalkInv => ProjectTypeOK /\ CompleteRootWasSearched /\ AnchoredAsWalked /\ RecordsOfTheAnchor /\ ProvenanceAgreed
<1> SUFFICES ASSUME WalkInv PROVE ProjectTypeOK /\ CompleteRootWasSearched /\ AnchoredAsWalked /\ RecordsOfTheAnchor /\ ProvenanceAgreed
  OBVIOUS
<1>1. ProjectTypeOK
  BY DEF WalkInv, WalkShape, BuiltShape, ProjectTypeOK, Spare
<1>2. AnchoredAsWalked
  BY DEF WalkInv, BuiltShape, AnchoredAsWalked
<1>3. RecordsOfTheAnchor
  BY DEF WalkInv, BuiltShape, RecordsOfTheAnchor, Anchored
<1>4. ProvenanceAgreed
  <2> DEFINE n == Cardinality(records)
             lists == {o \in [1..n -> records] : \A r \in records : \E i \in DOMAIN o : o[i] = r}
             orders == {[i \in DOMAIN o |-> o[i].says] : o \in lists}
  <2>1. n \in Nat /\ \A r \in records : r.says \in DOMAIN Provenances
    BY FS_CardinalityType DEF WalkInv, BuiltShape
  <2> HIDE DEF n
  <2>2. ASSUME NEW x \in orders
        PROVE  /\ x \in Seq(DOMAIN Provenances) /\ Len(x) = n
               /\ \A i \in 1..n : \E r \in records : x[i] = r.says
               /\ \A r \in records : \E i \in 1..n : x[i] = r.says
    <3>1. PICK o \in lists : x = [i \in DOMAIN o |-> o[i].says]
      OBVIOUS
    <3>2. DOMAIN o = 1..n /\ \A i \in 1..n : o[i] \in records
      BY <3>1
    <3>3. x = [i \in 1..n |-> o[i].says] /\ \A i \in 1..n : x[i] \in DOMAIN Provenances
      BY <2>1, <3>1, <3>2
    <3>4. x \in Seq(DOMAIN Provenances) /\ Len(x) = n
      BY <2>1, <3>3
    <3>5. \A i \in 1..n : \E r \in records : x[i] = r.says
      BY <3>2, <3>3
    <3>6. \A r \in records : \E i \in 1..n : o[i] = r
      BY <3>2
    <3>7. \A r \in records : \E i \in 1..n : x[i] = r.says
      BY <3>3, <3>6
    <3> QED
      BY <3>4, <3>5, <3>7
  <2> HIDE DEF orders
  <2>3. ASSUME NEW x \in orders, NEW y \in orders
        PROVE  /\ Aggregate(x) = Aggregate(y)
               /\ x # <<>> /\ Aggregate(x).status = "immutable" =>
                    \A i \in DOMAIN x : Provenances[x[i]] = [status |-> "immutable", integrity |-> Aggregate(x).integrity]
    <3>1. x \in Seq(DOMAIN Provenances) /\ y \in Seq(DOMAIN Provenances) /\ Len(x) = n /\ Len(y) = n /\ DOMAIN x = 1..n
      BY <2>2
    <3>2. (x = <<>> <=> n = 0) /\ (y = <<>> <=> n = 0)
      BY <3>1
    <3>3. Aggregate(x) = Aggregate(y)
      <4>1. CASE n = 0
        BY <3>2, <4>1
      <4>2. CASE n # 0
        <5>1. ASSUME NEW i \in 1..n
              PROVE  \E j \in 1..n : x[i] = y[j]
          <6>1. PICK r \in records : x[i] = r.says
            BY <2>2, Zenon
          <6>2. PICK j \in 1..n : y[j] = r.says
            BY <2>2, Zenon
          <6> QED
            BY <6>1, <6>2
        <5>2. ASSUME NEW j \in 1..n
              PROVE  \E i \in 1..n : x[i] = y[j]
          <6>1. PICK r \in records : y[j] = r.says
            BY <2>2, Zenon
          <6>2. PICK i \in 1..n : x[i] = r.says
            BY <2>2, Zenon
          <6> QED
            BY <6>1, <6>2
        <5> QED
          BY <3>1, <3>2, <4>2, <5>1, <5>2, OrderDoesNotMatter
      <4> QED
        BY <4>1, <4>2
    <3>4. ASSUME x # <<>>, Aggregate(x).status = "immutable", NEW i \in DOMAIN x
          PROVE  Provenances[x[i]] = [status |-> "immutable", integrity |-> Aggregate(x).integrity]
      <4>1. Aggregate(x) = Settled(x, n)
        BY <3>1, <3>4, AggregateSettles
      <4>2. Changeable.status = "mutable" /\ NotKnown.status = "unknown"
        BY DEF Changeable, NotKnown
      <4>3. AllAlike(x, n) /\ Aggregate(x) = Pin(x, 1)
        BY <3>4, <4>1, <4>2 DEF Settled
      <4>4. Provenances[x[i]] = Aggregate(x) /\ x[i] \in DOMAIN Provenances
        BY <3>1, <4>3 DEF AllAlike, Pin
      <4> QED
        BY <3>4, <4>4, PinFacts
    <3> QED
      BY <3>3, <3>4
  <2> QED
    BY <2>3 DEF ProvenanceAgreed, orders, n
<1> QED
  BY <1>1, <1>2, <1>3, <1>4 DEF WalkInv

=============================================================================
