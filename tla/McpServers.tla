----------------------------- MODULE McpServers -----------------------------
(***************************************************************************)
(* The MCP collector (internal/collector/mcp): one configuration file per  *)
(* declaration of its catalog in the home directory, and one per project   *)
(* that the projects collector handed over.  Files are read after they     *)
(* were discovered and may be edited, in place or by a rename, meanwhile.  *)
(***************************************************************************)
EXTENDS Shared, Integers, FiniteSets, Sequences

CONSTANTS
    Declarations,   \* id -> [scope, supported, path, format, container]
    Documents,      \* format -> what a configuration may be: None or its contents
    Servers,        \* name -> fields of a server declaration
    UnsafeServers,  \* names that an identity refuses
    Handoffs,       \* the lists of project targets that may be handed over
    MaxConfigEdits  \* bound: edits while the collector runs

VARIABLES
    config, edited, \* per place: its document or None, and its last edit
    configEdits,
    rooted,         \* whether files can be opened below a root: "none", "files", or also the "home"
    handoff,        \* the issued project targets, valid or not
    mpc, phase,
    declared,       \* declarations left in this phase
    instances,      \* project files left of the declaration at work
    began, contents, status, \* of the file at work
    mcpTargets      \* result.Targets with the servers of each

configSide == <<config, edited, configEdits, rooted>>
mcpVars == <<configSide, handoff, mpc, phase, declared, instances, began, contents, status, mcpTargets>>

Ids == DOMAIN Declarations
Expandable(id) == Declarations[id].scope = "project" /\ Declarations[id].path
Places ==
    {at \in Ids \X {"home", "project1", "project2"} :
        Declarations[at[1]].supported /\ (at[2] # "home") = Expandable(at[1])}
DocumentsAt(at) == Documents[Declarations[at[1]].format]
PhaseOf(id) == IF Expandable(id) THEN 2 ELSE 1

(* The catalog reads JSON and TOML; discovery hands over files of the      *)
(* catalog's project entries, of which every one is supported.  What a     *)
(* TOML file has besides its servers is no server.                         *)
ASSUME McpAssumption ==
    /\ MaxConfigEdits \in Nat /\ UnsafeServers \subseteq DOMAIN Servers
    /\ Declarations \in [Ids -> [scope : {"user", "project"}, supported : BOOLEAN, path : BOOLEAN,
                                 format : STRING, container : STRING \ {"other"}]]
    /\ \A id \in Ids : Expandable(id) => Declarations[id].supported
    /\ \A id \in Ids : Declarations[id].supported => Declarations[id].format \in {"json", "toml"}
    /\ \A f \in {"json", "toml"} : \A doc \in Documents[f] \ {None} :
        /\ \A c \in DOMAIN doc.containers : doc.containers[c] \subseteq DOMAIN Servers
        /\ f = "toml" => DOMAIN doc.containers \subseteq {"mcp_servers", "other"}
    /\ Handoffs \subseteq Seq([id : {id \in Ids : Expandable(id)}, ref : {"project1", "project2"}, valid : BOOLEAN])

-----------------------------------------------------------------------------
(* Parsing.  A server is a function from the fields it has to what they    *)
(* hold: "ok", "empty", "bad" for a wrong type or size, "unsafe" for what  *)
(* privacy refuses.                                                        *)
Known(format) ==
    IF format = "json"
    THEN {"command", "args", "url", "type", "transport", "cwd", "enabled", "disabled", "env", "headers", "httpHeaders"}
    ELSE {"command", "args", "url", "cwd", "enabled", "env", "env_vars", "http_headers", "bearer_token_env_var"}
UnknownField(s, format) == DOMAIN s \ Known(format) # {}
NonEmpty(s, f) == f \in DOMAIN s /\ s[f] # "empty"
Both(s, f, g) == {f, g} \subseteq DOMAIN s

(* A command or an address, not both and not neither. *)
OneTransport(s) == NonEmpty(s, "command") # NonEmpty(s, "url")
JSONTyped(s) == \A f \in DOMAIN s \cap Known("json") : s[f] # "bad"
TOMLTyped(s) == \A f \in DOMAIN s \cap Known("toml") : s[f] # "bad"
NormalizeJSONServer(s) ==
    /\ JSONTyped(s) /\ OneTransport(s)
    /\ ~Both(s, "type", "transport") /\ ~Both(s, "enabled", "disabled") /\ ~Both(s, "headers", "httpHeaders")
NormalizeTOMLServer(s) == TOMLTyped(s) /\ OneTransport(s)
Normalizes(format, s) == IF format = "json" THEN NormalizeJSONServer(s) ELSE NormalizeTOMLServer(s)

Failed == [failed |-> TRUE, servers |-> {}, issues |-> {}]
ServersOf(names, format) ==
    LET valid == {n \in names : Normalizes(format, Servers[n])}
    IN  [failed |-> FALSE, servers |-> valid,
         issues |-> (names \ valid) \cup {n \in valid : UnknownField(Servers[n], format)}]

(* validateJSONObjectKeys: one object, no key twice, nothing after it. *)
OneObject(doc) == doc.shape = "object"

(* Mutant of ParseJSONContainer: the other host's container is ignored. *)
BugOtherContainer(doc, container) ==
    IF ~OneObject(doc) THEN Failed
    ELSE IF container \in DOMAIN doc.containers THEN ServersOf(doc.containers[container], "json")
    ELSE ServersOf({}, "json")

(* A document with the container of the other hosts is not this host's. *)
ParseJSONContainer(doc, container) ==
    IF ~OneObject(doc) \/ DOMAIN doc.containers \ {container} # {} THEN Failed
    ELSE IF container \in DOMAIN doc.containers THEN ServersOf(doc.containers[container], "json")
    ELSE ServersOf({}, "json")

ParseTOML(doc) ==
    IF doc.shape \in {"torn", "broken"} THEN Failed
    ELSE IF "mcp_servers" \in DOMAIN doc.containers THEN ServersOf(doc.containers["mcp_servers"], "toml")
    ELSE ServersOf({}, "toml")

ParseConfig(doc, d) ==
    IF d.format = "json" THEN ParseJSONContainer(doc, d.container) ELSE ParseTOML(doc)

(* buildServerEvidence refuses a name or metadata that privacy refuses. *)
BuildServer(n) ==
    n \notin UnsafeServers /\ \A f \in DOMAIN Servers[n] : Servers[n][f] # "unsafe"

-----------------------------------------------------------------------------
Target(id, ref, s, found, errors) == [id |-> id, ref |-> ref, status |-> s, servers |-> found, errors |-> errors]
AddTarget(t) == mcpTargets' = Append(mcpTargets, t)

(* Mutant: what validation refused is as if discovery had found nothing. *)
BugInvalidForgotten(id) ==
    Target(id, "home", "not_present", {}, {})

(* A project declaration without an instance. *)
NoInstance(id) ==
    IF \E t \in {handoff[i] : i \in DOMAIN handoff} : t.id = id
    THEN Target(id, "home", "partial", {}, {"invalid_local_target"})
    ELSE Target(id, "home", "not_present", {}, {})

(* validatedProjectTargets: each issued path once.  A target that was not  *)
(* issued as it is now, or of another catalog entry, is refused.           *)
ValidInstances(id) == {handoff[i].ref : i \in {i \in DOMAIN handoff : handoff[i].id = id /\ handoff[i].valid}}

Unsupported(id) == Target(id, "home", "unsupported", {}, {"unsupported_target"})
NoAccess(id, ref) == Target(id, ref, "unavailable", {}, {"rooted_access_unavailable"})

(* One declaration; first those of the user, then the projects. *)
TakeDeclaration ==
    /\ mpc = "next"
    /\ \E id \in {id \in declared : PhaseOf(id) = phase} :
        LET d == Declarations[id]
        IN  /\ declared' = declared \ {id}
            /\ CASE d.scope = "project" /\ ~d.path -> AddTarget(Unsupported(id)) /\ UNCHANGED <<mpc, instances>>
                 [] d.scope = "project" /\ d.path ->
                        IF ValidInstances(id) = {}
                        THEN AddTarget(NoInstance(id)) /\ UNCHANGED <<mpc, instances>>
                        ELSE instances' = {<<id, r>> : r \in ValidInstances(id)} /\ mpc' = "instance" /\ UNCHANGED mcpTargets
                 [] d.scope = "user" /\ (~d.path \/ ~d.supported) -> AddTarget(Unsupported(id)) /\ UNCHANGED <<mpc, instances>>
                 [] d.scope = "user" /\ d.path /\ d.supported ->
                        IF rooted # "home"
                        THEN AddTarget(NoAccess(id, "home")) /\ UNCHANGED <<mpc, instances>>
                        ELSE instances' = {<<id, "home">>} /\ mpc' = "instance" /\ UNCHANGED mcpTargets
                 [] OTHER -> AddTarget(Unsupported(id)) /\ UNCHANGED <<mpc, instances>>
    /\ UNCHANGED <<configSide, handoff, phase, began, contents, status>>

(* The files of a declaration come sorted by reference. *)
FirstInstance(at) == at \in instances /\ \A other \in instances : ~(at[2] = "project2" /\ other[2] = "project1")
Done(at) ==
    /\ instances' = instances \ {at}
    /\ mpc' = IF instances' = {} THEN "next" ELSE "instance"

(* collectProjectTarget on a file system without rooted access. *)
SkipInstance ==
    /\ mpc = "instance" /\ rooted = "none"
    /\ \E at \in instances : FirstInstance(at) /\ AddTarget(NoAccess(at[1], at[2])) /\ Done(at)
    /\ UNCHANGED <<configSide, handoff, phase, declared, began, contents, status>>

OpenConfig ==
    /\ mpc = "instance" /\ rooted # "none"
    /\ \E at \in instances :
        /\ FirstInstance(at)
        /\ began' = [place |-> at, time |-> edited[at]]
        /\ contents' = config[at]
    /\ mpc' = "read"
    /\ UNCHANGED <<configSide, handoff, phase, declared, instances, status, mcpTargets>>

(* Mutant: a project file that is gone is just not present. *)
BugProjectVanished(id, s) == s

(* readProjectConfig: a file that discovery saw and the reader cannot is   *)
(* partial.                                                                *)
ProjectStatus(id, s) ==
    IF Declarations[id].scope = "project" /\ s \in {"not_present", "unavailable"} THEN "partial" ELSE s

(* readConfigFile: there is no second look at the file, so a write in      *)
(* place yields any mixture of the two documents.                          *)
ReadConfig ==
    /\ mpc = "read"
    /\ LET id == began.place[1]
           torn == edited[began.place] # began.time
       IN  \/ /\ contents = None
              /\ status' = ProjectStatus(id, "not_present") /\ UNCHANGED contents
           \/ /\ contents # None /\ contents.shape = "large"
              /\ status' = "partial" /\ UNCHANGED contents
           \/ /\ contents # None /\ contents.shape # "large"
              /\ contents' \in {contents} \cup (IF torn THEN DocumentsAt(began.place) \ {None} ELSE {})
              /\ status' = "complete"
           \/ status' = ProjectStatus(id, "unavailable") /\ UNCHANGED contents
           \/ status' = "partial" /\ UNCHANGED contents         \* a link, or exchanged while it was opened
    /\ mpc' = "collect"
    /\ UNCHANGED <<configSide, handoff, phase, declared, instances, began, mcpTargets>>

(* Mutant: a refused server is left out in silence. *)
BugRefusedSilently(parsed) == [servers |-> {n \in parsed.servers : BuildServer(n)}, errors |-> parsed.issues]

(* The servers that become assets, and the errors of the others. *)
Evidence(parsed) ==
    [servers |-> {n \in parsed.servers : BuildServer(n)},
     errors |-> parsed.issues \cup {n \in parsed.servers : ~BuildServer(n)}]

CollectConfig ==
    /\ mpc = "collect"
    /\ LET id == began.place[1]
           ref == began.place[2]
           parsed == ParseConfig(contents, Declarations[id])
           evidence == Evidence(parsed)
       IN  AddTarget(
             IF status # "complete"
             THEN Target(id, ref, status, {}, IF status = "not_present" THEN {} ELSE {"config_unavailable"})
             ELSE IF parsed.failed THEN Target(id, ref, "partial", {}, {"config_invalid"})
             ELSE Target(id, ref, IF evidence.errors = {} THEN "complete" ELSE "partial", evidence.servers, evidence.errors))
    /\ Done(began.place)
    /\ UNCHANGED <<configSide, handoff, phase, declared, began, contents, status>>

NextPhase ==
    /\ mpc = "next" /\ \A id \in declared : PhaseOf(id) # phase
    /\ IF phase = 1 THEN phase' = 2 /\ UNCHANGED <<mpc, handoff>>
       ELSE mpc' = "returned" /\ handoff' = <<>> /\ UNCHANGED phase
    /\ UNCHANGED <<configSide, declared, instances, began, contents, status, mcpTargets>>

(* The context ends: the targets so far go back with the error, and the    *)
(* raw paths of the handoff are cleared.                                   *)
AbortMcp ==
    /\ mpc \notin {"returned", "aborted"}
    /\ mpc' = "aborted" /\ handoff' = <<>>
    /\ UNCHANGED <<configSide, phase, declared, instances, began, contents, status, mcpTargets>>

(* The user edits or removes a configuration. *)
EditConfig ==
    /\ configEdits < MaxConfigEdits
    /\ configEdits' = configEdits + 1
    /\ \E at \in Places : \E doc \in DocumentsAt(at) :
        /\ config[at] # doc
        /\ config' = [config EXCEPT ![at] = doc]
        /\ edited' = [edited EXCEPT ![at] = configEdits + 1]
    /\ UNCHANGED <<rooted, handoff, mpc, phase, declared, instances, began, contents, status, mcpTargets>>

McpInit ==
    /\ config \in [Places -> UNION {DocumentsAt(at) : at \in Places}]
    /\ \A at \in Places : config[at] \in DocumentsAt(at)
    /\ edited = [at \in Places |-> 0] /\ configEdits = 0
    /\ rooted \in {"none", "files", "home"}
    /\ handoff \in Handoffs
    /\ \A i \in DOMAIN handoff : handoff[i].valid => config[<<handoff[i].id, handoff[i].ref>>] # None
    /\ mpc = "next" /\ phase = 1 /\ declared = Ids /\ instances = {}
    /\ began = None /\ contents = None /\ status = "complete"
    /\ mcpTargets = <<>>

McpNext == TakeDeclaration \/ SkipInstance \/ OpenConfig \/ ReadConfig \/ CollectConfig \/ NextPhase \/ AbortMcp \/ EditConfig
McpSpec == McpInit /\ [][McpNext]_mcpVars

-----------------------------------------------------------------------------
(* Every variable of the collector stays within its type
   (internal/collector/mcp/collector.go:52-124). *)
McpTypeOK ==
    /\ \A at \in Places : config[at] \in DocumentsAt(at)
    /\ edited \in [Places -> 0..MaxConfigEdits] /\ rooted \in {"none", "files", "home"}
    /\ declared \subseteq Ids /\ instances \subseteq Places
    /\ \A i \in DOMAIN mcpTargets :
        /\ mcpTargets[i].status \in {"complete", "partial", "not_present", "unavailable", "unsupported"}
        /\ mcpTargets[i].servers \subseteq DOMAIN Servers

LastTarget == mcpTargets[Len(mcpTargets)]

(* A target is complete only for a document of this host in which every    *)
(* server was understood and reported, whatever was in the file before; an *)
(* edit while it is read is the one exception                              *)
(* (internal/collector/mcp/collector.go:170-222).                          *)
McpCompleteTrue ==
    \A n \in {Len(mcpTargets) + 1} :
        n \in DOMAIN mcpTargets' /\ mcpTargets'[n].status = "complete" /\ edited[began.place] = began.time =>
            /\ config[began.place] # None
            /\ LET doc == config[began.place]
                   d == Declarations[mcpTargets'[n].id]
               IN  /\ DOMAIN doc.containers \subseteq {IF d.format = "json" THEN d.container ELSE "mcp_servers", "other"}
                   /\ UNION {doc.containers[c] : c \in DOMAIN doc.containers \ {"other"}} = mcpTargets'[n].servers

(* What discovery handed over is never reported as not present: a project  *)
(* file that vanished or cannot be read any more leaves its target         *)
(* partial, and so do refused files where no other file of the declaration *)
(* was accepted.  Only a file system that opens nothing below a root makes *)
(* it unavailable (collector.go:83-107, 147-156, 338-352).                 *)
DiscoveredNeverAbsent ==
    \A i \in DOMAIN mcpTargets' \ DOMAIN mcpTargets :
        (\E j \in DOMAIN handoff : handoff[j].id = mcpTargets'[i].id) =>
            \/ mcpTargets'[i].status \in {"complete", "partial"}
            \/ mcpTargets'[i].status = "unavailable" /\ rooted = "none"

Answered(id, ref) == \E n \in DOMAIN mcpTargets : mcpTargets[n].id = id /\ mcpTargets[n].ref = ref
RefusalTold(id) == \E n \in DOMAIN mcpTargets : mcpTargets[n].id = id /\ mcpTargets[n].errors = {"invalid_local_target"}

(* When the collection returns, each accepted file that was handed over    *)
(* has its target.  A refused one is told only where the declaration has   *)
(* no accepted file: beside one it is dropped, and the target of the other *)
(* may be complete (collector.go:83-104, 228-249).                         *)
HandoffAnswered ==
    mpc # "returned" /\ mpc' = "returned" =>
        \A i \in DOMAIN handoff :
            IF handoff[i].valid THEN Answered(handoff[i].id, handoff[i].ref)
            ELSE RefusalTold(handoff[i].id) \/ ValidInstances(handoff[i].id) # {}

(* The collection that returns has answered for every declaration of the   *)
(* catalog, and for no place of one twice                                  *)
(* (internal/collector/mcp/collector.go:73-123).                           *)
EveryDeclarationAnswered ==
    mpc = "returned" =>
        /\ {mcpTargets[i].id : i \in DOMAIN mcpTargets} = Ids
        /\ \A i, j \in DOMAIN mcpTargets : i # j => <<mcpTargets[i].id, mcpTargets[i].ref>> # <<mcpTargets[j].id, mcpTargets[j].ref>>

=============================================================================
