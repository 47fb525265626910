------------------------------ MODULE MCCollect ------------------------------
(* Instances for TLC of what a scan consists of, the collectors, side by *)
(* side.  A behaviour works one of them, `part`; the variables of the      *)
(* others are None.  TLC checks the union of their state spaces.           *)
EXTENDS EvidenceTree, Packages, McpServers, ProjectDiscovery, ProjectWalk,
        IdeExtensions, AgentPlugins, Ladder, VersionRange, HomeSurfaces, RuntimeProbes, TLC

CONSTANT Parts

VARIABLE part

-----------------------------------------------------------------------------
(* EvidenceTree *)
MCData == {<<"a">>, <<"b", "b">>}

(* Inodes are interchangeable: at first each stands under the name of its  *)
(* number, so the last name is free.                                       *)
TreeFiles == \A l \in Leaves : entry[l].kind = "file" => entry[l].ino = l

(* Packages *)
MCScope == [e \in Entries |-> IF e = "b" THEN "s" ELSE None]
MCProbes == {<<"npm">>, <<"go">>, <<"pip">>, <<"uv">>, <<"brew">>, <<"docker">>, <<"pipx">>, <<"cargo">>}
MCAnswers == {<<>>, <<"good">>, <<"good", "short">>, <<"indented", "broken">>}

(* Only npm and go look at the directory. *)
PackageTrees == Head(probes) \notin {"npm", "go"} => \A e \in Entries : tree[e] = "none"

(* McpServers *)
Decl(sc, su, pa, f, c) == [scope |-> sc, supported |-> su, path |-> pa, format |-> f, container |-> c]
MCDeclarations ==
    "cursor" :> Decl("user", TRUE, TRUE, "json", "mcpServers")
        @@ "codex" :> Decl("project", TRUE, TRUE, "toml", "") @@ "dev" :> Decl("project", FALSE, FALSE, "", "")
MCServers ==
    "good" :> ("command" :> "ok") @@ "both" :> ("command" :> "ok" @@ "url" :> "ok")
        @@ "odd" :> ("url" :> "ok" @@ "new" :> "ok") @@ "leak" :> ("command" :> "unsafe")
McpDoc(shape, cs) == [shape |-> shape, containers |-> cs]
MCDocuments ==
    "json" :> {None, McpDoc("object", "mcpServers" :> {"good", "odd"}), McpDoc("object", "mcpServers" :> {"good"} @@ "servers" :> {})}
        @@ "toml" :> {None, McpDoc("large", <<>>), McpDoc("object", "mcp_servers" :> {"good", "both"}),
                      McpDoc("object", "mcp_servers" :> {"good"}), McpDoc("object", "mcp_servers" :> {"good", "leak"}), McpDoc("broken", <<>>)}
Issued(id, r, v) == [id |-> id, ref |-> r, valid |-> v]
MCHandoffs ==
    {<<>>, <<Issued("codex", "project1", TRUE), Issued("codex", "project2", FALSE)>>,
     <<Issued("codex", "project1", TRUE), Issued("codex", "project2", TRUE), Issued("codex", "project1", TRUE)>>,
     <<Issued("codex", "project1", FALSE)>>}

(* Where the home directory cannot be opened there is nothing in it. *)
HomeFiles == rooted # "home" => \A p \in Places : p[2] = "home" => config[p] = None

(* ProjectDiscovery: a project P with a folder Pa, a repository w of which *)
(* W is another name, its worktree l, and the notes of two programs.       *)
Folder(k) == [kind |-> k, id |-> 0]
MCParent == [f \in Folders |-> IF f = "Pa" THEN "P" ELSE None]
MCFileOf == [f \in Folders |-> IF f = "W" THEN "w" ELSE f]
MCSources ==
    <<[name |-> "code", kind |-> "vscode", notes |-> <<"n1", "n2">>], [name |-> "jb", kind |-> "jetbrains", notes |-> <<"n3">>]>>
Note1(k, d) == [kind |-> k, doc |-> d, id |-> 0]
NoNote == Note1("none", <<>>)
Start(P, w, l, n1, n2, n3, back, m) ==
    [moves |-> m,
     place |-> [x \in {"P", "Pa", "w", "l"} |->
                  Folder(CASE x = "P" -> P [] x = "w" -> w [] x = "l" -> l [] x = "Pa" -> IF P = "none" THEN "none" ELSE "dir")],
     desk |-> [s \in {"code", "jb"} |-> Folder("dir")],
     note |-> [n \in {"n1", "n2", "n3"} |-> CASE n = "n1" -> n1 [] n = "n2" -> n2 [] n = "n3" -> n3],
     gitdir |-> [a \in {"a"} |-> "l"],
     gitfile |-> [f \in Folders |-> CASE f \in {"w", "W"} -> "main" [] f = "l" -> back [] OTHER -> None]]
MCStarts ==
    {Start("dir", "dir", "dir", Note1("dir", <<"Pa">>), NoNote, Note1("dir", <<"w", "l">>), "a", 1),
     Start("none", "dir", "dir", Note1("dir", <<"l">>), Note1("dir", <<"w">>), Note1("dir", <<"l">>), "a", 1),
     Start("dir", "locked", "dir", Note1("dir", <<"remote">>), NoNote, Note1("dir", <<"broken">>), "a", 1),
     Start("dir", "dir", "link", Note1("dir", <<"w">>), NoNote, Note1("dir", <<"W", "out">>), "a", 1),
     Start("none", "dir", "dir", Note1("dir", <<"w">>), NoNote, NoNote, None, 0),
     Start("none", "none", "dir", NoNote, NoNote, Note1("dir", <<"l">>), "link", 1)}
MCOrder == <<"P", "Pa", "W", "l", "w">>
MCAdmins == [a \in {"a"} |-> "w"]

(* ProjectWalk *)
MCIn ==
    "lock1" :> "root" @@ "app" :> "root" @@ "lock2" :> "app" @@ "mcp" :> "root"
        @@ "git" :> "root" @@ "hook" :> "git" @@ "launch" :> "app"
MCClass ==
    "root" :> "dir" @@ "lock1" :> "lock" @@ "app" :> "dir" @@ "lock2" :> "lock" @@ "mcp" :> "config"
        @@ "git" :> "git" @@ "hook" :> "hook" @@ "launch" :> "launch"
MCProvenances ==
    "x" :> [status |-> "immutable", integrity |-> "i"] @@ "y" :> [status |-> "immutable", integrity |-> "j"]
        @@ "z" :> [status |-> "mutable", integrity |-> None]
Item(k, d) == [kind |-> k, id |-> 0, time |-> 0, data |-> d]
ItemsOf(l1, l2, more, large) ==
    [e \in Items |->
        CASE e \in {"root", "app"} -> Item("dir", None) [] e = "git" -> Item(IF "git" \in more THEN "dir" ELSE "none", None)
          [] e = "lock1" -> Item("file", l1) [] e = "lock2" -> (IF l2 = None THEN Item("none", "x") ELSE Item("file", l2))
          [] e \in large -> Item("large", None) [] e \in more -> Item("file", "x") [] OTHER -> Item("none", None)]
MCTrees ==
    {ItemsOf("z", "broken", {}, {"mcp"}), ItemsOf("x", None, {"git", "hook"}, {}),
     ItemsOf("x", "y", {"mcp"}, {}), ItemsOf("y", "z", {"launch"}, {})}

(* IdeExtensions *)
MCUp ==
    "e1" :> "V" @@ "e2" :> "V" @@ "m1" :> "e1" @@ "m2" :> "e2" @@ "p1" :> "J" @@ "p2" :> "J" @@ "pl1" :> "p1" @@ "pl2" :> "p2"
        @@ "g1" :> "pl1" @@ "g2" :> "pl2" @@ "t1" :> "g1" @@ "t2" :> "g2" @@ "n1" :> "t1" @@ "n2" :> "t2"
MCNodes == DOMAIN MCUp \cup {"V", "J"}
MCRole ==
    [n \in MCNodes |->
        CASE n \in {"V", "J"} -> "root" [] n \in {"e1", "e2"} -> "extension" [] n \in {"m1", "m2", "n1", "n2"} -> "manifest"
          [] n \in {"p1", "p2"} -> "product" [] n \in {"pl1", "pl2"} -> "plugins" [] n \in {"g1", "g2"} -> "plugin" [] OTHER -> "meta"]
Field(t, v) == [tag |-> t, value |-> v, nested |-> FALSE]
MCDocs ==
    "v" :> [root |-> "object", fields |-> <<Field("publisher", <<"p">>), Field("name", <<"n">>), Field("version", <<"1">>),
                                            Field("main", <<".", "x">>), Field("browser", <<"y", "..", "..", "z">>)>>]
        @@ "w" :> [root |-> "object", fields |-> <<Field("publisher", <<"p">>), Field("name", <<"n">>), Field("name", <<"o">>), Field("version", <<"1">>)>>]
        @@ "j" :> [root |-> "idea-plugin", fields |-> <<Field("id", <<"i">>), Field("name", <<"n">>), Field("version", <<"1">>)>>]
        @@ "k" :> [root |-> "idea-plugin", fields |-> <<Field("id", <<"i">>), Field("id", <<"o">>), Field("name", <<"n">>), Field("version", <<"1">>)>>]
MCJS == "x" :> "x.js"
Node(k, d) == [kind |-> k, id |-> 0, time |-> 0, data |-> d]
DiskOf(gone, d1, d2, f1, f2) ==
    [n \in MCNodes |->
        CASE n \in gone -> Node("none", "v") [] n = "m1" -> Node("file", d1) [] n = "m2" -> Node("file", d2)
          [] n = "n1" -> Node("file", f1) [] n = "n2" -> Node("file", f2) [] OTHER -> Node("dir", "v")]
MCDisks ==
    {DiskOf({"J"}, "v", "v", "j", "j"), DiskOf({"J"}, "w", "v", "j", "j"),
     DiskOf({"V", "e1", "e2"}, "v", "v", "j", "k"), DiskOf({"V", "e1", "e2", "p2"}, "v", "v", "k", "j")}

(* AgentPlugins *)
MCLies == "p1" :> "R" @@ "m1" :> "p1" @@ "s1" :> "p1" @@ "p2" :> "R" @@ "m2" :> "p2" @@ "s2" :> "p2"
MCSpots == DOMAIN MCLies \cup {"R"}
MCMarker == [e \in MCSpots |-> CASE e \in {"R", "p1", "p2"} -> "dir" [] e \in {"m1", "m2"} -> "plugin" [] OTHER -> "skill"]
MCBase == [e \in MCSpots |-> CASE e \in {"m1", "s1"} -> "p1" [] e \in {"m2", "s2"} -> "p2" [] OTHER -> "R"]
MCBundleOf == [e \in MCSpots |-> CASE e = "s1" -> "p1" [] e = "s2" -> "p2" [] OTHER -> None]
MCTexts ==
    "a" :> [shape |-> "object", names |-> <<"n">>] @@ "b" :> [shape |-> "object", names |-> <<"n", "o">>]
        @@ "c" :> [shape |-> "fenced", names |-> <<"odd">>]
GardenOf(gone, d1, d2) ==
    [e \in MCSpots |->
        CASE e \in gone -> Node("none", "a") [] e \in {"R", "p1", "p2"} -> Node("dir", "a")
          [] e = "m1" -> Node("file", d1) [] e = "m2" -> Node("file", d2) [] OTHER -> Node("file", "a")]
MCGardens == {GardenOf({"p2", "m2", "s2"}, "a", "a"), GardenOf({"s2"}, "a", "b")}

(* Ladder: two versions under one identity, a third asset with two records *)
(* and none of them, and a record of nobody.                               *)
MCIdentity == "a1" :> "a" @@ "a2" :> "a" @@ "b" :> "b"
MCVersion == "a1" :> "1" @@ "a2" :> "2" @@ "b" :> None
MCOwner == "e1" :> "a1" @@ "e2" :> "a2" @@ "o" :> "b" @@ "e3" :> "b" @@ "x" :> None
Recorded(p, s) == [print |-> p, status |-> s]
Hashed == Recorded(0, "complete")
PartOf == Recorded(1, "partial")
MCSnapshots ==
    {[assets |-> [a \in DOMAIN MCIdentity |-> CASE a = "a1" -> a1 [] a = "a2" -> a2 [] a = "b" -> b],
      records |-> [r \in DOMAIN MCOwner |->
                     CASE r = "e1" -> e1 [] r = "e2" -> e2 [] r = "o" -> o [] r = "e3" -> e3 [] r = "x" -> x]]
        : a1 \in {None, 0}, a2 \in {None, 0}, b \in {None, 0, 1}, e1 \in {None, Hashed, PartOf}, e2 \in {Hashed, PartOf, None},
          o \in {None, Hashed}, e3 \in {None, Hashed, PartOf, Recorded(1, "unsupported")}, x \in {None, Hashed}}
Sound(s) ==
    /\ \A r \in DOMAIN MCOwner \ {"x"} : s.records[r] # None => s.assets[MCOwner[r]] # None
    /\ s.assets["a2"] # None => s.records["e2"] # None
    /\ s.records["x"] # None => s.assets["a1"] = None /\ s.assets["a2"] = None
MCSoundSnapshots == {s \in MCSnapshots : Sound(s)}

(* VersionRange: every kind of version, and ranges drawn from them. *)
Identifier(b, v) == [number |-> b, v |-> v]
Ver(a, b, c, p, pre) == [n |-> <<a, b, c, 0>>, precision |-> p, pre |-> pre]
MCVersions ==
    {Ver(0, 0, 0, 1, <<>>), Ver(0, 0, 1, 3, <<>>), Ver(0, 1, 0, 2, <<>>), Ver(1, 0, 0, 3, <<Identifier(TRUE, 0)>>),
     Ver(1, 0, 0, 3, <<Identifier(FALSE, 0)>>), Ver(1, 0, 0, 3, <<Identifier(FALSE, 0), Identifier(TRUE, 1)>>), Ver(1, 0, 0, 1, <<>>),
     Ver(1, 1, 1, 3, <<>>), Ver(2, 0, 0, 3, <<Identifier(TRUE, 1)>>), Ver(3, 0, 0, 3, <<>>)}
Py(e, r, p, po, d, l) == [epoch |-> e, release |-> r, pre |-> p, post |-> po, dev |-> d, local |-> l]
Pre(k, n) == [kind |-> k, number |-> n]
MCPythons ==
    {Py(0, <<1>>, None, None, None, <<>>), Py(0, <<1, 0>>, None, None, 0, <<>>), Py(0, <<1>>, Pre(0, 1), None, 0, <<>>),
     Py(0, <<1>>, Pre(2, 0), None, None, <<>>), Py(0, <<1>>, None, 0, 1, <<>>), Py(0, <<1>>, None, 0, None, <<>>),
     Py(0, <<1>>, Pre(0, 1), 0, None, <<>>), Py(0, <<1>>, None, None, None, <<Identifier(TRUE, 1)>>),
     Py(0, <<1>>, None, None, None, <<Identifier(FALSE, 1)>>), Py(1, <<0>>, None, None, None, <<>>)}
Comparator(o, v) == [op |-> o, v |-> v]
Comparators == {Comparator(o, v) : o \in {"=", ">=", "<=", ">", "<", "^", "~", "x"}, v \in MCVersions} \cup {Comparator("bad", None)}
FewComparators == {c \in Comparators : c.v \in {None, Ver(1, 0, 0, 1, <<>>), Ver(0, 1, 0, 2, <<>>)}}
MCRanges ==
    {<< <<c>> >> : c \in Comparators} \cup {<< <<c, d>> >> : c \in FewComparators, d \in FewComparators}
        \cup {<< <<c>>, <<d>> >> : c \in FewComparators, d \in FewComparators} \cup {<< <<>> >>}
MCSelectors == {<<c, d>> : c \in FewComparators, d \in FewComparators} \cup {<<c>> : c \in FewComparators}

(* HomeSurfaces *)
MCPages ==
    "p" :> << <<"credential", "a">>, <<"reset", "b">> >> @@ "q" :> << <<"other", "a">>, <<"credential", "c">> >>
        @@ "r" :> << <<"credential", "broken">>, <<>> >>
Paper(k, d) == [kind |-> k, id |-> 0, data |-> d]
MCDesks ==
    {[f \in Papers |-> Paper(IF f = "xdg" THEN k ELSE "file", d)] : k \in {"none", "file", "link"}, d \in {"p", "q"}}

-----------------------------------------------------------------------------

(* The variables of a part that does not run. *)
TreeOff ==
    /\ entry = None /\ inode = None /\ edits = None /\ truth = None /\ cacheRows = None /\ tpc = None
    /\ todo = None /\ leaf = None /\ first = None /\ fd = None /\ read = None /\ listed = None /\ total = None
    /\ errors = None /\ flags = None /\ digests = None /\ writes = None /\ verdict = None


PackagesOff ==
    /\ tree = None /\ stamp = None /\ exe = None /\ installs = None /\ ppc = None /\ probes = None
    /\ inspected = None /\ ran = None /\ since = None /\ answer = None /\ walk = None /\ open = None
    /\ room = None /\ found = None /\ loss = None /\ issues = None /\ tstatus = None /\ covered = None

McpOff ==
    /\ config = None /\ edited = None /\ configEdits = None /\ rooted = None /\ handoff = None /\ mpc = None /\ phase = None
    /\ declared = None /\ instances = None /\ began = None /\ contents = None /\ status = None
    /\ mcpTargets = None

DiscoveryOff ==
    /\ place = None /\ desk = None /\ note = None /\ gitdir = None /\ gitfile = None /\ moves = None
    /\ dpc = None /\ turn = None /\ notes = None /\ at = None /\ gathered = None /\ candidates = None
    /\ sourceIssues = None /\ present = None /\ seeds = None /\ nodes = None /\ link = None /\ agreed = None
    /\ rewrites = None /\ waiting = None /\ verified = None /\ roots = None

WalkOff ==
    /\ item = None /\ wtime = None /\ wpc = None /\ rootSeen = None /\ reading = None /\ entriesLeft = None
    /\ glimpse = None /\ hooksOf = None /\ spent = None /\ configs = None /\ evid = None /\ projects = None
    /\ work = None /\ parsed = None /\ handed = None /\ issued = None /\ records = None /\ errorRoom = None /\ werrors = None
    /\ wstatus = None

IdeOff ==
    /\ disk = None /\ touched = None /\ ipc = None /\ product = None /\ productsLeft = None
    /\ extensionsLeft = None /\ extension = None /\ sheet = None /\ budget = None /\ coverage = None
    /\ expansion = None /\ ideTargets = None /\ observed = None /\ ideIssues = None

AgentsOff ==
    /\ garden = None /\ moved = None /\ sort = None /\ apc = None /\ openDir = None /\ toLook = None
    /\ spotted = None /\ sheetRead = None /\ entriesRead = None /\ manifestsRead = None /\ staged = None
    /\ agentCandidates = None /\ accepted = None /\ reported = None /\ agentIssues = None
    /\ agentStatus = None

LadderOff ==
    /\ was = None /\ is = None /\ rows = None

VersionsOff ==
    /\ ask = None /\ answers = None

SurfacesOff ==
    /\ paper = None /\ scribbles = None /\ hpc = None /\ atWork = None /\ opened = None /\ lines = None
    /\ surfaceTargets = None /\ surfaces = None

RuntimeOff ==
    /\ running = None /\ listening = None /\ forks = None /\ rpc = None /\ seen = None /\ heard = None
    /\ links = None /\ statusOf = None

CollectInit ==
    /\ part \in Parts
    /\ IF part = "tree" THEN (TreeInit /\ TreeFiles) ELSE TreeOff
    /\ IF part = "packages" THEN (PackagesInit /\ PackageTrees) ELSE PackagesOff
    /\ IF part = "mcp" THEN (McpInit /\ HomeFiles) ELSE McpOff
    /\ IF part = "discovery" THEN DiscoveryInit ELSE DiscoveryOff
    /\ IF part = "walk" THEN ProjectInit ELSE WalkOff
    /\ IF part = "ide" THEN InitIde ELSE IdeOff
    /\ IF part = "agents" THEN InitAgents ELSE AgentsOff
    /\ IF part = "ladder" THEN InitLadder ELSE LadderOff
    /\ IF part = "versions" THEN InitVersions ELSE VersionsOff
    /\ IF part = "surfaces" THEN InitSurfaces ELSE SurfacesOff
    /\ IF part = "runtime" THEN InitRuntime ELSE RuntimeOff

TreePart ==
    /\ part = "tree" /\ TreeNext
    /\ UNCHANGED <<part, packagesVars, mcpVars, discoveryVars, projectVars, ideVars, agentVars,
                   ladderVars, versionVars, surfaceVars, runtimeVars>>
PackagesPart ==
    /\ part = "packages" /\ PackagesNext
    /\ UNCHANGED <<part, treeVars, mcpVars, discoveryVars, projectVars, ideVars, agentVars,
                   ladderVars, versionVars, surfaceVars, runtimeVars>>
McpPart ==
    /\ part = "mcp" /\ McpNext
    /\ UNCHANGED <<part, treeVars, packagesVars, discoveryVars, projectVars, ideVars, agentVars,
                   ladderVars, versionVars, surfaceVars, runtimeVars>>
DiscoveryPart ==
    /\ part = "discovery" /\ DiscoveryNext
    /\ UNCHANGED <<part, treeVars, packagesVars, mcpVars, projectVars, ideVars, agentVars,
                   ladderVars, versionVars, surfaceVars, runtimeVars>>
WalkPart ==
    /\ part = "walk" /\ ProjectNext
    /\ UNCHANGED <<part, treeVars, packagesVars, mcpVars, discoveryVars, ideVars, agentVars,
                   ladderVars, versionVars, surfaceVars, runtimeVars>>
IdePart ==
    /\ part = "ide" /\ NextIde
    /\ UNCHANGED <<part, treeVars, packagesVars, mcpVars, discoveryVars, projectVars, agentVars,
                   ladderVars, versionVars, surfaceVars, runtimeVars>>
AgentsPart ==
    /\ part = "agents" /\ NextAgents
    /\ UNCHANGED <<part, treeVars, packagesVars, mcpVars, discoveryVars, projectVars, ideVars,
                   ladderVars, versionVars, surfaceVars, runtimeVars>>
LadderPart ==
    /\ part = "ladder" /\ NextLadder
    /\ UNCHANGED <<part, treeVars, packagesVars, mcpVars, discoveryVars, projectVars, ideVars,
                   agentVars, versionVars, surfaceVars, runtimeVars>>
VersionsPart ==
    /\ part = "versions" /\ NextVersions
    /\ UNCHANGED <<part, treeVars, packagesVars, mcpVars, discoveryVars, projectVars, ideVars,
                   agentVars, ladderVars, surfaceVars, runtimeVars>>
SurfacesPart ==
    /\ part = "surfaces" /\ NextSurfaces
    /\ UNCHANGED <<part, treeVars, packagesVars, mcpVars, discoveryVars, projectVars, ideVars,
                   agentVars, ladderVars, versionVars, runtimeVars>>
RuntimePart ==
    /\ part = "runtime" /\ NextRuntime
    /\ UNCHANGED <<part, treeVars, packagesVars, mcpVars, discoveryVars, projectVars, ideVars,
                   agentVars, ladderVars, versionVars, surfaceVars>>

CollectNext ==
    \/ TreePart \/ PackagesPart \/ McpPart \/ DiscoveryPart \/ WalkPart \/ IdePart
    \/ AgentsPart \/ LadderPart \/ VersionsPart \/ SurfacesPart \/ RuntimePart

collectVars == <<part, treeVars, packagesVars, mcpVars, discoveryVars, projectVars, ideVars,
                 agentVars, ladderVars, versionVars, surfaceVars, runtimeVars>>

CollectSpec == CollectInit /\ [][CollectNext]_collectVars

-----------------------------------------------------------------------------
(* Properties, each where its part runs.                                   *)

(* The variables of every part stay within their types.                    *)
CollectTypeOK ==
    /\ part = "tree" => TreeTypeOK
    /\ part = "packages" => PackagesTypeOK
    /\ part = "mcp" => McpTypeOK
    /\ part = "discovery" => DiscoveryTypeOK
    /\ part = "walk" => ProjectTypeOK
    /\ part = "ide" => IdeTypeOK
    /\ part = "agents" => AgentTypeOK
    /\ part = "surfaces" => SurfaceTypeOK

(* A target that is called complete left nothing out: what was in the      *)
(* directory when it was listed and did not change is in the report or in  *)
(* an error, whatever the budgets, limits, vanished and unreadable entries *)
(* (tree.go, packages/collector.go, discovery.go, walk.go,                 *)
(* ide/collector.go, agents/collector.go).                                 *)
CompleteMeansAll ==
    /\ part = "tree" => CompleteOrExplained
    /\ part = "packages" => CompleteMissesNothing
    /\ part = "discovery" => NothingLeftOut
    /\ part = "walk" => CompleteRootWasSearched
    /\ part = "ide" => CompleteListsAll
    /\ part = "agents" => CompleteReportsAll

(* What is reported was read from the very file that is anchored: a file   *)
(* that is exchanged or rewritten between the look, the opening, the       *)
(* reading and the second look does not lend its bytes, its version or its *)
(* name to another one (content_cache.go, packages/collector.go, walk.go,  *)
(* ide/collector.go, agents/collector.go, surfaces/gitconfig.go).          *)
ReportedAsRead ==
    /\ part = "tree" => CacheHonest /\ DigestHonest
    /\ part = "packages" => RanAsInspected
    /\ part = "walk" => AnchoredAsWalked /\ RecordsOfTheAnchor
    /\ part = "ide" => AnchorHoldsManifest
    /\ part = "agents" => AgentParsedAsAnchored
    /\ part = "surfaces" => HelpersInForce

(* A pass that did not end complete leaves no digest in the cache, so that *)
(* no later scan is answered from a reading that was given up              *)
(* (content_cache.go, tree.go).                                            *)
CacheHoldsCompleted == [][part = "tree" => OnlyCompleteCached]_treeVars

(* One thing has one name, and a name two sources disagree about is not    *)
(* settled by their order: roots do not contain each other, a worktree and *)
(* its repository name each other, a provenance is agreed by all lockfiles *)
(* of its package, an identity is stated once in its manifest, a bundled   *)
(* skill belongs to a plugin that is reported, a listener to a process     *)
(* that is (discovery.go, walk.go, ide/collector.go, agents/collector.go,  *)
(* runtime/collector.go).                                                  *)
IdentitiesAgree ==
    /\ part = "discovery" => RootsApart /\ WorktreeAgreed
    /\ part = "walk" => ProvenanceAgreed
    /\ part = "ide" => IdentityIsStated
    /\ part = "agents" => SkillsOfReportedPlugins
    /\ part = "runtime" => LinksHaveBothEnds

(* Every declaration is answered, and every project file that was handed   *)
(* over and accepted once; a target that is complete has all servers of    *)
(* the document that was read, none is called absent of which a file was   *)
(* handed over, and a package target that is not complete has a reason     *)
(* (mcp/collector.go, packages/collector.go).                              *)
TargetsExplained ==
    /\ [](part = "mcp" => EveryDeclarationAnswered)
    /\ [](part = "packages" => PackagesExplained)
    /\ [][part = "mcp" => McpCompleteTrue /\ DiscoveredNeverAbsent /\ HandoffAnswered]_mcpVars

(* The difference of two snapshots is told: an asset that came, went, is   *)
(* described differently or has a record that is new or different is not   *)
(* without its row, none has two or one it did not earn, and what could    *)
(* not be hashed is not passed off as an upgrade.  A record that is gone   *)
(* from an asset that stays is not told (ladder.go:164-330).               *)
DriftTold == part = "ladder" => NothingHidden /\ GapsSpeak

(* A version is inside or outside of a range however it is asked: both     *)
(* comparisons are total orders, and an alternative is an interval         *)
(* (range.go, osv.go).                                                     *)
RangesSound == part = "versions" => VersionsAreOrdered /\ RangesAreIntervals

=============================================================================
