----------------------------- MODULE AgentPlugins -----------------------------
(***************************************************************************)
(* One target of the agent collector (internal/collector/agents): a        *)
(* directory of plugins or of skills of an AI host.  A bounded walk reads  *)
(* the manifests of plugins.  The documents of skills below a plugin are   *)
(* only noted, and read once it is known which plugins are accepted.       *)
(* The user changes the tree at any step.                                  *)
(***************************************************************************)
EXTENDS Shared, Integers, FiniteSets, Sequences

CONSTANTS
    Spots, Root,    \* entries of the tree, and its root
    Lies,           \* entry -> the directory it is in
    Marker,         \* entry -> "dir", "plugin", "skill", "other"
    Base,           \* marker -> the directory of its plugin or skill
    BundleOf,       \* skill -> the plugin directory whose skills/ it is in, or None
    Deep,           \* directories below the depth limit
    MaxRead,        \* maxEntries
    MaxManifests,
    Texts,          \* content -> [shape, names]
    GardensAtStart, \* what may be there at first
    MaxAgentMoves   \* bound: changes by the user

(* An entry and the directories above it: what every set has that contains *)
(* the entry and with an entry the directory it is in.                     *)
Closed(A) == \A x \in A \ {Root} : Lies[x] \in A
Chain == [e \in Spots |-> {x \in Spots : \A A \in SUBSET Spots : e \in A /\ Closed(A) => x \in A}]

ASSUME AgentAssumption ==
    /\ IsFiniteSet(Spots) /\ Root \in Spots /\ Lies \in [Spots \ {Root} -> Spots] /\ Deep \subseteq Spots
    /\ \A e \in Spots : Root \in Chain[e]
    /\ Base \in [Spots -> Spots]
    /\ MaxRead \in Nat /\ MaxManifests \in Nat /\ MaxAgentMoves \in Nat /\ None # "complete"
    /\ GardensAtStart \subseteq [Spots -> [kind : {"none", "dir", "file", "large", "link", "pipe"}, id : Nat, time : Nat, data : DOMAIN Texts]]

VARIABLES
    garden,         \* entry -> [kind, id, time, data]
    moved,          \* entries changed so far, in order
    sort,           \* the kind of target: "plugins" or "skills"
    apc,
    openDir,        \* the directory to read
    toLook,         \* entries listed
    spotted,        \* the entry at work, as Lstat saw it
    sheetRead,      \* its manifest as it was opened
    entriesRead, manifestsRead,
    staged,         \* skills noted in the walk, as Lstat saw them
    agentCandidates, \* manifests read, with their anchors
    accepted,       \* plugin directories whose plugin was reported
    reported,       \* plugins and skills reported
    agentIssues, agentStatus

userSide == <<garden, moved>>
agentWalk == <<openDir, toLook, spotted, sheetRead, entriesRead, manifestsRead, staged>>
agentResult == <<agentCandidates, accepted, reported>>
agentVars == <<userSide, sort, apc, agentWalk, agentResult, agentIssues, agentStatus>>

Inside(d) == {e \in Spots \ {Root} : Lies[e] = d /\ garden[e].kind # "none"}
Marked(e) == <<garden[e].id, garden[e].time>>
Regular(e) == garden[e].kind \in {"file", "large"}
Note(code) == agentIssues' = agentIssues \cup {code}
Refused(unsafe) == IF unsafe THEN "identity_changed" ELSE "path_unavailable"

(* recognizedAgentMarker: a skill below a plugin directory counts if it is *)
(* in a directory named skills.                                            *)
IsMarker(e) == Marker[e] = (IF sort = "skills" THEN "skill" ELSE "plugin") \/ (sort = "plugins" /\ Marker[e] = "skill" /\ BundleOf[e] # None)

-----------------------------------------------------------------------------
(* parsePluginManifest: one object, no key twice, a name.                  *)
PluginName(text) ==
    IF text.shape # "object" \/ Len(text.names) # 1 \/ text.names[1] = "" THEN "manifest_invalid"
    ELSE IF text.names[1] = "odd" THEN "identity_rejected"
    ELSE text.names[1]

(* parseSkillManifest: the name in the front matter, once at most, or that *)
(* of the directory.                                                       *)
SkillName(text, fallback) ==
    IF text.shape # "fenced" THEN IF text.shape = "unclosed" THEN "manifest_invalid" ELSE fallback
    ELSE IF Len(text.names) > 1 THEN "manifest_invalid"
    ELSE IF text.names \in {<<>>, <<"">>} THEN fallback
    ELSE IF text.names[1] = "odd" THEN "identity_rejected"
    ELSE text.names[1]

NameOf(c) == IF Marker[c.of] = "plugin" THEN PluginName(Texts[c.data]) ELSE SkillName(Texts[c.data], Base[c.of])
Bad == {"manifest_invalid", "identity_rejected"}

-----------------------------------------------------------------------------
(* collectTarget up to the walk *)
OpenAgentRoot ==
    /\ apc = "root"
    /\ LET stop(s, codes) == agentStatus' = s /\ agentIssues' = codes /\ apc' = "covered" /\ UNCHANGED openDir
       IN  CASE garden[Root].kind = "none" -> stop("not_present", {})
             [] garden[Root].kind = "dir" ->
                    \/ stop("unavailable", {"root_unavailable"})
                    \/ \E code \in {"symlink_rejected", "identity_changed"} : stop("partial", {code})   \* exchanged
                    \/ openDir' = Root /\ apc' = "read" /\ UNCHANGED <<agentIssues, agentStatus>>
             [] OTHER -> stop("partial", {"symlink_rejected"})
    /\ UNCHANGED <<userSide, sort, toLook, spotted, sheetRead, entriesRead, manifestsRead, staged, agentResult>>

(* A limit ends the walk, not the target. *)
StopHere(code) == Note(code) /\ toLook' = {} /\ apc' = "accept"

(* Mutant: a directory that does not fit is passed over in silence. *)
BugSkipsCrowd ==
    /\ apc = "read"
    /\ IF entriesRead + Cardinality(Inside(openDir)) > MaxRead THEN UNCHANGED <<toLook, entriesRead>>
       ELSE toLook' = toLook \cup Inside(openDir) /\ entriesRead' = entriesRead + Cardinality(Inside(openDir))
    /\ apc' = "look"
    /\ UNCHANGED <<userSide, sort, openDir, spotted, sheetRead, manifestsRead, staged, agentResult, agentIssues, agentStatus>>

(* readBoundedAgentDirectory *)
ReadAgentDirectory ==
    /\ apc = "read"
    /\ LET n == entriesRead + Cardinality(Inside(openDir)) IN
        \/ Note("path_unavailable") /\ apc' = "look" /\ UNCHANGED <<toLook, entriesRead>>
        \/ n > MaxRead /\ StopHere("entry_limit") /\ UNCHANGED entriesRead
        \/ /\ n <= MaxRead /\ toLook' = toLook \cup Inside(openDir) /\ entriesRead' = n
           /\ apc' = "look" /\ UNCHANGED agentIssues
    /\ UNCHANGED <<userSide, sort, openDir, spotted, sheetRead, manifestsRead, staged, agentResult, agentStatus>>

(* walkDirectory, one entry: Lstat and what it decides. *)
LookMarker ==
    /\ apc = "look"
    /\ \E e \in toLook :
        LET k == garden[e].kind
            drop(codes) == toLook' = toLook \ {e} /\ agentIssues' = agentIssues \cup codes /\ UNCHANGED <<apc, spotted, manifestsRead, staged>>
            seen == [of |-> e, print |-> Marked(e)]
            stage == sort = "plugins" /\ Marker[e] = "skill"
        IN  CASE k = "none" -> drop({"path_unavailable"})
              [] k = "link" -> drop({"symlink_rejected"})
              [] k = "dir" /\ e \in Deep -> drop({"depth_limit"})
              [] k \in {"file", "large", "pipe"} /\ ~IsMarker(e) -> drop({})
              [] k = "pipe" /\ IsMarker(e) -> drop({"path_unavailable"})
              [] Regular(e) /\ IsMarker(e) /\ stage ->
                    staged' = staged \cup {seen} /\ toLook' = toLook \ {e} /\ UNCHANGED <<apc, spotted, manifestsRead, agentIssues>>
              [] Regular(e) /\ IsMarker(e) /\ ~stage /\ manifestsRead >= MaxManifests ->
                    StopHere("manifest_limit") /\ UNCHANGED <<spotted, manifestsRead, staged>>
              [] k = "large" /\ IsMarker(e) /\ ~stage /\ manifestsRead < MaxManifests ->
                    /\ toLook' = toLook \ {e} /\ Note("manifest_size_limit") /\ manifestsRead' = manifestsRead + 1
                    /\ UNCHANGED <<apc, spotted, staged>>
              [] OTHER -> /\ spotted' = seen /\ toLook' = toLook \ {e}
                          /\ manifestsRead' = IF k = "dir" THEN manifestsRead ELSE manifestsRead + 1
                          /\ apc' = IF k = "dir" THEN "descend" ELSE "open"
                          /\ UNCHANGED <<staged, agentIssues>>
    /\ UNCHANGED <<userSide, sort, openDir, sheetRead, entriesRead, agentResult, agentStatus>>

(* OpenVerifiedRoot of a child; it must be what Lstat saw. *)
Descend ==
    /\ apc = "descend"
    /\ LET e == spotted.of IN
        \/ Note(Refused(FALSE)) /\ apc' = "look" /\ UNCHANGED openDir
        \/ (garden[e].kind # "dir" \/ garden[e].id # spotted.print[1]) /\ Note(Refused(TRUE)) /\ apc' = "look" /\ UNCHANGED openDir
        \/ garden[e].kind = "dir" /\ garden[e].id = spotted.print[1] /\ openDir' = e /\ apc' = "read" /\ UNCHANGED agentIssues
    /\ UNCHANGED <<userSide, sort, toLook, spotted, sheetRead, entriesRead, manifestsRead, staged, agentResult, agentStatus>>

(* readManifest up to the end of the content. *)
Back == IF apc = "open" THEN "look" ELSE "bundled"
OpenMarker ==
    /\ apc \in {"open", "openStaged"}
    /\ LET e == spotted.of
           same == Regular(e) /\ garden[e].id = spotted.print[1]
       IN  \/ Note(Refused(FALSE)) /\ apc' = Back /\ UNCHANGED sheetRead
           \/ ~same /\ Note(Refused(TRUE)) /\ apc' = Back /\ UNCHANGED sheetRead
           \/ same /\ garden[e].kind = "large" /\ Note("manifest_size_limit") /\ apc' = Back /\ UNCHANGED sheetRead
           \/ /\ same /\ garden[e].kind = "file" /\ sheetRead' = garden[e]
              /\ apc' = (IF apc = "open" THEN "check" ELSE "checkStaged") /\ UNCHANGED agentIssues
    /\ UNCHANGED <<userSide, sort, openDir, toLook, spotted, entriesRead, manifestsRead, staged, agentResult, agentStatus>>

OpenSheet == LET now == garden[spotted.of] IN IF now.id = sheetRead.id /\ Regular(spotted.of) THEN now ELSE sheetRead
ReturnAgents == IF apc = "check" THEN "look" ELSE "bundled"
CandidateRead(m) ==
    [of |-> spotted.of, listed |-> spotted.print[1], data |-> sheetRead.data, told |-> m.data, anchor |-> <<m.id, m.time>>]

(* Mutant: no second look at the file that was read. *)
BugTrustsRead ==
    /\ apc \in {"check", "checkStaged"}
    /\ agentCandidates' = agentCandidates \cup {CandidateRead(OpenSheet)} /\ apc' = ReturnAgents
    /\ UNCHANGED <<userSide, sort, agentWalk, accepted, reported, agentIssues, agentStatus>>

(* The rest of readManifest and captureAgentEvidenceAnchor, which opens    *)
(* the directory of the plugin or skill again.                             *)
CheckMarker ==
    /\ apc \in {"check", "checkStaged"}
    /\ LET steady == OpenSheet = sheetRead
       IN  \/ OpenSheet.kind = "large" /\ Note("manifest_size_limit") /\ UNCHANGED agentCandidates
           \/ ~steady /\ Note("identity_changed") /\ UNCHANGED agentCandidates
           \/ steady /\ garden[Base[spotted.of]].kind # "dir" /\ Note("identity_changed") /\ UNCHANGED agentCandidates
           \/ /\ steady /\ garden[Base[spotted.of]].kind = "dir"
              /\ agentCandidates' = agentCandidates \cup {CandidateRead(OpenSheet)} /\ UNCHANGED agentIssues
    /\ apc' = ReturnAgents
    /\ UNCHANGED <<userSide, sort, agentWalk, accepted, reported, agentStatus>>

EndAgentWalk ==
    /\ apc = "look" /\ toLook = {}
    /\ apc' = "accept"
    /\ UNCHANGED <<userSide, sort, agentWalk, agentResult, agentIssues, agentStatus>>

-----------------------------------------------------------------------------
OfPlugin == {c \in agentCandidates : Marker[c.of] = "plugin"}
Fine(cs) == {c \in cs : NameOf(c) \notin Bad}

(* Mutant: every plugin that was found vouches for its skills. *)
BugAcceptsAll ==
    /\ apc = "accept"
    /\ reported' = Fine(OfPlugin)
    /\ accepted' = {Base[c.of] : c \in OfPlugin}
    /\ agentIssues' = agentIssues \cup {NameOf(c) : c \in OfPlugin \ Fine(OfPlugin)}
    /\ apc' = "bundled"
    /\ UNCHANGED <<userSide, sort, agentWalk, agentCandidates, agentStatus>>

(* buildTargetEvidence: the plugins.  An observation may be refused when   *)
(* it is finalized.                                                        *)
AcceptPlugins ==
    /\ apc = "accept"
    /\ \E refused \in SUBSET Fine(OfPlugin) :
        LET good == Fine(OfPlugin) \ refused IN
        /\ Cardinality(refused) <= 1
        /\ reported' = good
        /\ accepted' = {Base[c.of] : c \in good}
        /\ agentIssues' = agentIssues \cup {NameOf(c) : c \in OfPlugin \ Fine(OfPlugin)} \cup {"identity_rejected" : c \in refused}
    /\ apc' = "bundled"
    /\ UNCHANGED <<userSide, sort, agentWalk, agentCandidates, agentStatus>>

Bundled == {s \in staged : BundleOf[s.of] \in accepted}

(* readAcceptedBundledSkills, one skill: readStagedManifest looks again    *)
(* for the file of the walk.                                               *)
LookStaged ==
    /\ apc = "bundled"
    /\ \E s \in Bundled :
        LET e == s.of
            stays(codes) == agentIssues' = agentIssues \cup codes /\ UNCHANGED <<apc, spotted>>
        IN  IF manifestsRead >= MaxManifests
            THEN staged' = {} /\ stays({"manifest_limit"}) /\ UNCHANGED manifestsRead
            ELSE /\ staged' = staged \ {s} /\ manifestsRead' = manifestsRead + 1
                 /\ CASE garden[e].kind = "none" -> stays({Refused(FALSE)})
                      [] garden[e].kind \in {"link", "dir", "pipe"} \/ (Regular(e) /\ garden[e].id # s.print[1]) -> stays({Refused(TRUE)})
                      [] OTHER -> spotted' = s /\ apc' = "openStaged" /\ UNCHANGED agentIssues
    /\ UNCHANGED <<userSide, sort, openDir, toLook, sheetRead, entriesRead, agentResult, agentStatus>>

(* buildTargetEvidence: the skills, of which an observation may be         *)
(* refused, and the status of the target.                                  *)
ReportSkills ==
    /\ apc = "bundled" /\ Bundled = {}
    /\ LET skills == {c \in agentCandidates : Marker[c.of] = "skill"}
       IN  \E refused \in SUBSET Fine(skills) :
            /\ reported' = reported \cup (Fine(skills) \ refused)
            /\ agentIssues' = agentIssues \cup {NameOf(c) : c \in skills \ Fine(skills)} \cup {"identity_rejected" : c \in refused}
            /\ agentStatus' = IF agentIssues' = {} THEN "complete" ELSE "partial"
    /\ apc' = "covered"
    /\ UNCHANGED <<userSide, sort, agentWalk, agentCandidates, accepted>>

(* Cancelled: the result is thrown away. *)
AbortAgents ==
    /\ apc \notin {"covered", "aborted"}
    /\ apc' = "aborted"
    /\ openDir' = Root /\ toLook' = {} /\ spotted' = None /\ sheetRead' = None /\ entriesRead' = 0 /\ manifestsRead' = 0
    /\ staged' = {} /\ agentCandidates' = {} /\ accepted' = {} /\ reported' = {} /\ agentIssues' = {} /\ agentStatus' = None
    /\ UNCHANGED <<userSide, sort>>

-----------------------------------------------------------------------------
(* The user writes, exchanges or removes an entry. *)
MoveEntry(e) ==
    /\ Len(moved) < MaxAgentMoves
    /\ LET now == Len(moved) + 1 IN
        \E d \in DOMAIN Texts, k \in {"none", "dir", "file", "large", "link", "pipe"}, id \in {garden[e].id, now} :
            /\ IF Marker[e] = "dir" THEN k \in {"none", "dir", "link"} /\ d = garden[e].data ELSE k # "dir"
            /\ garden[e].kind # k /\ {garden[e].kind, k} # {"file", "large"} => id = now
            /\ garden' = [garden EXCEPT ![e] = [kind |-> k, id |-> id, time |-> now, data |-> d]]
    /\ moved' = Append(moved, e)
    /\ UNCHANGED <<sort, apc, agentWalk, agentResult, agentIssues, agentStatus>>

InitAgents ==
    /\ garden \in GardensAtStart /\ moved = <<>> /\ sort \in {"plugins", "skills"}
    /\ apc = "root" /\ openDir = Root /\ toLook = {} /\ spotted = None /\ sheetRead = None
    /\ entriesRead = 0 /\ manifestsRead = 0 /\ staged = {}
    /\ agentCandidates = {} /\ accepted = {} /\ reported = {} /\ agentIssues = {} /\ agentStatus = None

NextAgents ==
    \/ OpenAgentRoot \/ ReadAgentDirectory \/ LookMarker \/ Descend \/ OpenMarker \/ CheckMarker \/ EndAgentWalk
    \/ AcceptPlugins \/ LookStaged \/ ReportSkills \/ AbortAgents
    \/ \E e \in Spots : MoveEntry(e)

-----------------------------------------------------------------------------
(* Shape; the walk stays within its limits (walkDirectory,                 *)
(* readAcceptedBundledSkills).                                             *)
AgentTypeOK ==
    /\ entriesRead \in 0 .. MaxRead /\ manifestsRead \in 0 .. MaxManifests
    /\ agentStatus \in {None, "complete", "partial", "unavailable", "not_present"}
    /\ toLook \subseteq Spots /\ accepted \subseteq Spots /\ reported \subseteq agentCandidates

Calm(e) == \A i \in DOMAIN moved : moved[i] \notin Chain[e]

(* In a complete target every marker that nobody touched, nor a directory  *)
(* above it, is reported: the plugins, the skills of a skills directory,   *)
(* and the skills of every reported plugin (walkDirectory,                 *)
(* buildTargetEvidence).                                                   *)
CompleteReportsAll ==
    agentStatus = "complete" =>
        \A e \in Spots \ {Root} :
            /\ Regular(e) /\ IsMarker(e) /\ Calm(e)
            /\ \A x \in Chain[e] \ {e} : garden[x].kind = "dir"
            /\ sort = "plugins" /\ Marker[e] = "skill" => BundleOf[e] \in accepted
            => \E r \in reported : r.of = e

(* A bundled skill is reported only beside the plugin that brings it, and  *)
(* it is the file that the walk had listed (isBundledSkill,                *)
(* readStagedManifest).                                                    *)
SkillsOfReportedPlugins ==
    \A r \in reported :
        /\ r.anchor[1] = r.listed
        /\ sort = "plugins" /\ Marker[r.of] = "skill" => \E p \in reported : Marker[p.of] = "plugin" /\ Base[p.of] = BundleOf[r.of]

(* What is reported was parsed from what the anchored file held            *)
(* (readManifest).                                                         *)
AgentParsedAsAnchored == \A r \in reported : r.data = r.told

=============================================================================
