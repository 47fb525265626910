---------------------------- MODULE IdeExtensions ----------------------------
(***************************************************************************)
(* The IDE collector (internal/collector/ide): the extensions of a VS Code *)
(* like editor in one directory, and the plugins of every JetBrains        *)
(* product, whose directories share one budget of entries.  The manifest   *)
(* of each extension is read, checked for a change while it was read,      *)
(* parsed and issued as evidence.  Editors update extensions meanwhile.    *)
(***************************************************************************)
EXTENDS Shared, Integers, FiniteSets, Sequences

CONSTANTS
    Nodes,          \* directories and manifests
    Up,             \* node -> the directory it is in
    Role,           \* node -> "root", "extension", "product", "plugins", "plugin", "meta", "manifest"
    VRoot, JRoot,   \* .vscode/extensions and the JetBrains directory
    BadNames,       \* names that safeIDEComponent refuses
    VLimit,         \* maxVSCodeEntries
    JBudget,        \* maxJetBrainsEntries
    Docs,           \* content of a manifest -> [root, fields]
    JS,             \* a last component without extension -> its .js file
    DisksAtStart,   \* what may be there at first
    MaxTouches      \* bound: changes by the editors

(* The layout: what there is in a directory of each kind. *)
Below(d) == {n \in DOMAIN Up : Up[n] = d}
RoleIn(d) ==
    CASE d = VRoot -> "extension" [] d = JRoot -> "product" [] Role[d] = "product" -> "plugins"
      [] Role[d] = "plugins" -> "plugin" [] Role[d] = "plugin" -> "meta" [] OTHER -> "manifest"

(* Components of a path that lead nowhere, or out of a directory. *)
Astray == {"", ".", ".."}

ASSUME IdeAssumption ==
    /\ IsFiniteSet(Nodes) /\ None \notin Nodes \cup {"entry_limit", "path_unavailable", "partial", "unavailable"}
    /\ {VRoot, JRoot} \subseteq Nodes /\ VRoot # JRoot /\ Up \in [Nodes \ {VRoot, JRoot} -> Nodes]
    /\ Role[VRoot] = "root" /\ Role[JRoot] = "root" /\ \A n \in DOMAIN Up : Role[n] = RoleIn(Up[n])
    /\ \A d \in Nodes : Role[d] \in {"extension", "product", "plugin", "meta"} => Below(d) # {}
    /\ BadNames \subseteq Nodes /\ VLimit \in Nat /\ JBudget \in Nat /\ MaxTouches \in Nat
    /\ \A d \in DOMAIN Docs : Docs[d].fields \in Seq([tag : STRING, value : Seq(STRING), nested : BOOLEAN])
    /\ \A c \in DOMAIN JS : JS[c] \notin Astray
    /\ DisksAtStart \subseteq [Nodes -> [kind : {"none", "dir", "file", "large", "link"}, id : Nat, time : Nat, data : DOMAIN Docs]]

VARIABLES
    disk,           \* node -> [kind, id, time, data]
    touched,        \* nodes changed so far, in order
    ipc,
    product,        \* the product at work; None for the VS Code target
    productsLeft, extensionsLeft,
    extension,      \* the extension at work, as Lstat saw it
    sheet,          \* its manifest as it was opened
    budget,         \* entries left to the JetBrains target
    coverage,       \* status of the open target
    expansion,      \* status of the target for the product root itself, or None
    ideTargets,     \* <<target, status>>
    observed,       \* extensions reported, with their anchors
    ideIssues       \* codes raised, of which the report holds the first maxIDEErrors

editorSide == <<disk, touched>>
listing == <<product, productsLeft, extensionsLeft, budget>>
ideResult == <<expansion, ideTargets, observed>>
ideVars == <<editorSide, ipc, listing, extension, sheet, coverage, ideResult, ideIssues>>

Snapshot(n) == <<disk[n].id, disk[n].time>>
There(d) == {n \in Below(d) : disk[n].kind # "none"}
Only(d) == CHOOSE n \in Below(d) : TRUE
Manifest(e) == IF Role[e] = "plugin" THEN Only(Only(e)) ELSE Only(e)
Holds(n, kind) == disk[n].kind = kind
IsFolder(n) == Holds(n, "dir")

(* platform.OpenVerifiedRoot.  An exchange while it is opened is unsafe.   *)
OpenRootOf(n) ==
    CASE Holds(n, "none") -> {"missing"}
      [] IsFolder(n) -> {"ok", "unsafe", "failed"}
      [] OTHER -> {"unsafe"}
IdentityCode(answer) == IF answer = "unsafe" THEN "identity_changed" ELSE "path_unavailable"

(* addIssue *)
IdeAfter(status, issue) == IF status \in {"complete", "not_present"} \/ issue = "partial" THEN issue ELSE status
IssueManifest(issue, code) == coverage' = IdeAfter(coverage, issue) /\ ideIssues' = ideIssues \cup {code}
ExpansionIssue(issue, code) ==
    /\ expansion' = IdeAfter(IF expansion = None THEN "complete" ELSE expansion, issue)
    /\ ideIssues' = ideIssues \cup {code}
Quiet == UNCHANGED <<coverage, ideIssues>>

(* classifyIDERootError *)
RootStatus(answer) ==
    CASE answer = "missing" -> <<"not_present", {}>>
      [] answer = "unsafe" -> <<"partial", {"symlink_rejected"}>>
      [] answer = "failed" -> <<"unavailable", {"path_unavailable"}>>

(* readDirectory: all entries, or those read before the limit or an error. *)
Read(names, status, code) == [names |-> names, status |-> status, code |-> code]
(* Mutant: a directory over the limit is cut without a word. *)
BugCutsListing(d, limit) ==
    {Read(s, "complete", None) : s \in {x \in SUBSET There(d) : x = There(d) \/ Cardinality(x) = limit}}

Listing(d, limit) ==
    LET all == There(d)
        firsts == {s \in SUBSET all : Cardinality(s) <= limit}
    IN  (IF Cardinality(all) <= limit THEN {Read(all, "complete", None)}
         ELSE {Read(s, "partial", "entry_limit") : s \in {x \in firsts : Cardinality(x) = limit}})
        \cup {Read(s, IF s = {} THEN "unavailable" ELSE "partial", "path_unavailable") : s \in firsts}

-----------------------------------------------------------------------------
(* Manifests. *)
Named(doc, tag) == {i \in DOMAIN doc.fields : doc.fields[i].tag = tag}
Value(doc, tag) == IF Named(doc, tag) = {} THEN <<>> ELSE doc.fields[CHOOSE i \in Named(doc, tag) : \A j \in Named(doc, tag) : j <= i].value

(* normalizeIdentity: one word, no separators, no secret. *)
PlainIdentity(v) == Len(v) = 1 /\ v[1] \notin Astray \cup {"secret"}

(* Mutant: as the standard decoder, which lets the last one win. *)
BugLastKey(doc) == Len(doc.fields) >= 0

(* validateUniqueJSONKeys: no object states a key twice. *)
UniqueKeys(doc) == \A i, j \in DOMAIN doc.fields : doc.fields[i].tag = doc.fields[j].tag => i = j

ParseVSCode(doc) ==
    IF doc.root # "object" \/ ~UniqueKeys(doc) THEN "manifest_invalid"
    ELSE IF \E t \in {"name", "publisher", "version"} : ~PlainIdentity(Value(doc, t)) THEN "identity_rejected"
    ELSE "ok"

(* validateJetBrainsIdentityElements: below the root, the elements of the  *)
(* identity are there once and hold text only.                             *)
IdentityElements == {"id", "name", "version"}
UniqueElements(doc) ==
    /\ doc.root = "idea-plugin"
    /\ \A t \in IdentityElements : Cardinality(Named(doc, t)) <= 1
    /\ \A t \in IdentityElements : \A i \in Named(doc, t) : ~doc.fields[i].nested

ParseJetBrains(doc) ==
    IF ~UniqueElements(doc) THEN "manifest_invalid"
    ELSE IF \E t \in IdentityElements : ~PlainIdentity(Value(doc, t)) THEN "identity_rejected"
    ELSE "ok"

(* canonicalIDEEntrypointPath: a path is its components, an absolute one   *)
(* begins with an empty one.  One leading "." is dropped.                  *)
Entrypoint(v) ==
    LET local == IF v # <<>> /\ Head(v) = "." THEN Tail(v) ELSE v
    IN  IF local = <<>> \/ \E i \in DOMAIN local : local[i] \in Astray THEN <<"invalid">>
        ELSE LET last == local[Len(local)]
             IN  [local EXCEPT ![Len(local)] = IF last \in DOMAIN JS THEN JS[last] ELSE last]

(* issueIDEManifestTargets: the manifest, the entry points it names and    *)
(* the whole directory.                                                    *)
IssuedFor(doc) ==
    {<<"manifest">>, <<"payload-tree">>}
    \cup {<<"entrypoint", Entrypoint(Value(doc, t))>> : t \in {x \in {"main", "browser"} : Value(doc, x) # <<>>}}

-----------------------------------------------------------------------------
(* collectVSCodeTarget *)
OpenVSCodeRoot ==
    /\ ipc = "vroot"
    /\ \E answer \in OpenRootOf(VRoot) :
        IF answer = "ok" THEN ipc' = "vread" /\ UNCHANGED <<coverage, ideTargets, ideIssues>>
        ELSE /\ ideTargets' = ideTargets \cup {<<VRoot, RootStatus(answer)[1]>>}
             /\ ideIssues' = ideIssues \cup RootStatus(answer)[2]
             /\ ipc' = "jroot" /\ UNCHANGED coverage
    /\ UNCHANGED <<editorSide, listing, extension, sheet, expansion, observed>>

ReadVSCodeRoot ==
    /\ ipc = "vread"
    /\ \E l \in Listing(VRoot, VLimit) :
        /\ extensionsLeft' = l.names
        /\ IF l.code = None THEN Quiet ELSE IssueManifest(l.status, l.code)
    /\ ipc' = "entry"
    /\ UNCHANGED <<editorSide, product, productsLeft, budget, extension, sheet, ideResult>>

(* The loop over the entries of a root, one entry: Lstat. *)
LookExtension ==
    /\ ipc = "entry"
    /\ \E e \in extensionsLeft :
        /\ extensionsLeft' = extensionsLeft \ {e}
        /\ CASE e \in BadNames -> IssueManifest("partial", "identity_rejected") /\ UNCHANGED <<ipc, extension>>
             [] e \notin BadNames /\ Holds(e, "none") -> IssueManifest("partial", "path_unavailable") /\ UNCHANGED <<ipc, extension>>
             [] e \notin BadNames /\ Holds(e, "link") -> IssueManifest("partial", "symlink_rejected") /\ UNCHANGED <<ipc, extension>>
             [] e \notin BadNames /\ Holds(e, "file") -> Quiet /\ UNCHANGED <<ipc, extension>>
             [] OTHER -> extension' = [of |-> e, id |-> disk[e].id] /\ ipc' = "open" /\ Quiet
    /\ UNCHANGED <<editorSide, product, productsLeft, budget, sheet, ideResult>>

(* OpenVerifiedRoot of the entry; it must be the directory Lstat saw.  A   *)
(* plugin's META-INF is opened too.                                        *)
OpenExtension ==
    /\ ipc = "open"
    /\ LET e == extension.of IN
        \/ \E answer \in OpenRootOf(e) \ {"ok"} : IssueManifest("partial", IdentityCode(answer)) /\ ipc' = "entry"
        \/ IsFolder(e) /\ disk[e].id # extension.id /\ IssueManifest("partial", "identity_changed") /\ ipc' = "entry"
        \/ /\ IsFolder(e) /\ disk[e].id = extension.id /\ Role[e] = "plugin"
           /\ \E answer \in OpenRootOf(Only(e)) \ {"ok"} : IssueManifest("partial", IdentityCode(answer))
           /\ ipc' = "entry"
        \/ /\ IsFolder(e) /\ disk[e].id = extension.id /\ (Role[e] = "plugin" => IsFolder(Only(e)))
           /\ ipc' = "manifest" /\ Quiet
    /\ UNCHANGED <<editorSide, listing, extension, sheet, ideResult>>

Refuse(code) == IssueManifest("partial", code) /\ ipc' = "entry"

(* readManifest up to the end of the content. *)
OpenManifest ==
    /\ ipc = "manifest"
    /\ LET m == Manifest(extension.of) IN
        \/ Refuse("manifest_unavailable") /\ UNCHANGED sheet     \* a link, a missing file, an error
        \/ Holds(m, "large") /\ Refuse("manifest_oversized") /\ UNCHANGED sheet
        \/ Refuse("manifest_changed") /\ UNCHANGED sheet         \* written while it is opened
        \/ Holds(m, "file") /\ sheet' = disk[m] /\ ipc' = "check" /\ Quiet
    /\ UNCHANGED <<editorSide, listing, extension, ideResult>>

(* The open file as it is now: an exchanged one stays as it was. *)
SheetNow == LET m == disk[Manifest(extension.of)] IN IF m.id = sheet.id /\ m.kind \in {"file", "large"} THEN m ELSE sheet
Verdict(doc) == IF product = None THEN ParseVSCode(doc) ELSE ParseJetBrains(doc)
ReportExtension(m, doc) ==
    [of |-> extension.of, doc |-> doc, anchor |-> <<m.id, m.time>>, told |-> m.data, issued |-> IssuedFor(Docs[doc])]

(* Mutant: the file is not looked at again once it was read. *)
BugReadsOnce ==
    /\ ipc = "check"
    /\ IF Verdict(Docs[sheet.data]) # "ok" THEN IssueManifest("partial", Verdict(Docs[sheet.data])) /\ UNCHANGED observed
       ELSE observed' = observed \cup {ReportExtension(SheetNow, sheet.data)} /\ Quiet
    /\ ipc' = "entry"
    /\ UNCHANGED <<editorSide, listing, extension, sheet, expansion, ideTargets>>

(* The rest of readManifest, the parser, captureIDEManifestAnchor and      *)
(* appendEvidence, which may refuse what the parser let pass.              *)
CheckManifest ==
    /\ ipc = "check"
    /\ LET v == Verdict(Docs[sheet.data])
           steady == SheetNow = sheet
       IN  \/ SheetNow.kind = "large" /\ IssueManifest("partial", "manifest_oversized") /\ UNCHANGED observed
           \/ ~steady /\ SheetNow.kind # "large" /\ IssueManifest("partial", "manifest_changed") /\ UNCHANGED observed
           \/ steady /\ v # "ok" /\ IssueManifest("partial", v) /\ UNCHANGED observed
           \/ \E code \in {"identity_changed", "identity_rejected"} :
                steady /\ v = "ok" /\ IssueManifest("partial", code) /\ UNCHANGED observed
           \/ steady /\ v = "ok" /\ observed' = observed \cup {ReportExtension(SheetNow, sheet.data)} /\ Quiet
    /\ ipc' = "entry"
    /\ UNCHANGED <<editorSide, listing, extension, sheet, expansion, ideTargets>>

EndVSCode ==
    /\ ipc = "entry" /\ product = None /\ extensionsLeft = {}
    /\ ideTargets' = ideTargets \cup {<<VRoot, coverage>>}
    /\ ipc' = "jroot"
    /\ UNCHANGED <<editorSide, listing, extension, sheet, coverage, expansion, observed, ideIssues>>

-----------------------------------------------------------------------------
(* collectJetBrains *)
OpenJetBrainsRoot ==
    /\ ipc = "jroot"
    /\ \E answer \in OpenRootOf(JRoot) :
        IF answer = "ok" THEN ipc' = "jread" /\ UNCHANGED <<ideTargets, ideIssues>>
        ELSE /\ ideTargets' = ideTargets \cup {<<JRoot, RootStatus(answer)[1]>>}
             /\ ideIssues' = ideIssues \cup RootStatus(answer)[2]
             /\ ipc' = "covered"
    /\ UNCHANGED <<editorSide, listing, extension, sheet, coverage, expansion, observed>>

ReadJetBrainsRoot ==
    /\ ipc = "jread"
    /\ \E l \in Listing(JRoot, budget) :
        /\ productsLeft' = l.names /\ budget' = budget - Cardinality(l.names)
        /\ IF l.code = None THEN UNCHANGED <<expansion, ideIssues>> ELSE ExpansionIssue(l.status, l.code)
    /\ ipc' = "product"
    /\ UNCHANGED <<editorSide, product, extensionsLeft, extension, sheet, coverage, ideTargets, observed>>

(* Mutant: when the budget is spent the other products are forgotten. *)
BugForgetsProducts ==
    /\ ipc = "product" /\ productsLeft # {} /\ budget = 0
    /\ productsLeft' = {}
    /\ UNCHANGED <<editorSide, ipc, product, extensionsLeft, budget, extension, sheet, coverage, ideResult, ideIssues>>

(* No entry left: every product not looked at yet gets a partial target.   *)
BudgetSpent ==
    /\ ipc = "product" /\ productsLeft # {} /\ budget = 0
    /\ ideTargets' = ideTargets \cup {<<p, "partial">> : p \in {q \in productsLeft \ BadNames : IsFolder(q)}}
    /\ IF productsLeft \subseteq BadNames THEN ExpansionIssue("partial", "identity_rejected") ELSE ExpansionIssue("partial", "entry_limit")
    /\ productsLeft' = {}
    /\ UNCHANGED <<editorSide, ipc, product, extensionsLeft, budget, extension, sheet, coverage, observed>>

(* The loop over the products, one product, up to its identity; it is      *)
(* looked at twice.                                                        *)
LookProduct ==
    /\ ipc = "product" /\ budget > 0
    /\ \E p \in productsLeft :
        LET done(s, code) == /\ ideTargets' = ideTargets \cup {<<p, s>>} /\ ideIssues' = ideIssues \cup {code}
                             /\ UNCHANGED <<ipc, product, extension, coverage, expansion>>
        IN  /\ productsLeft' = productsLeft \ {p}
            /\ CASE p \in BadNames -> ExpansionIssue("partial", "identity_rejected") /\ UNCHANGED <<ipc, product, extension, coverage, ideTargets>>
                 [] p \notin BadNames /\ Holds(p, "none") -> done("unavailable", "path_unavailable")
                 [] p \notin BadNames /\ Holds(p, "link") -> done("partial", "symlink_rejected")
                 [] p \notin BadNames /\ Holds(p, "file") -> UNCHANGED <<ipc, product, extension, coverage, expansion, ideTargets, ideIssues>>
                 [] OTHER -> /\ product' = p /\ extension' = [of |-> p, id |-> disk[p].id]
                             /\ coverage' = "complete" /\ ipc' = "plugins" /\ UNCHANGED <<expansion, ideTargets, ideIssues>>
    /\ UNCHANGED <<editorSide, extensionsLeft, budget, sheet, observed>>

(* collectJetBrainsProduct up to the list of plugins. *)
OpenProduct ==
    /\ ipc = "plugins"
    /\ LET plugins == Only(product)
           same == IsFolder(product) /\ disk[product].id = extension.id
       IN  \/ \E answer \in OpenRootOf(product) \ {"ok"} :
                IssueManifest(IF answer = "unsafe" THEN "partial" ELSE "unavailable", IdentityCode(answer)) /\ UNCHANGED <<extensionsLeft, budget>>
           \/ IsFolder(product) /\ ~same /\ IssueManifest("partial", "identity_changed") /\ UNCHANGED <<extensionsLeft, budget>>
           \/ \E answer \in OpenRootOf(plugins) \ {"ok"} :
                /\ same /\ coverage' = RootStatus(answer)[1] /\ ideIssues' = ideIssues \cup RootStatus(answer)[2]
                /\ UNCHANGED <<extensionsLeft, budget>>
           \/ /\ same /\ IsFolder(plugins)
              /\ \E l \in Listing(plugins, budget) :
                    /\ extensionsLeft' = l.names /\ budget' = budget - Cardinality(l.names)
                    /\ IF l.code = None THEN Quiet ELSE IssueManifest(l.status, l.code)
    /\ ipc' = "entry"
    /\ UNCHANGED <<editorSide, product, productsLeft, extension, sheet, ideResult>>

EndProduct ==
    /\ ipc = "entry" /\ product # None /\ extensionsLeft = {}
    /\ ideTargets' = ideTargets \cup {<<product, coverage>>}
    /\ product' = None /\ ipc' = "product"
    /\ UNCHANGED <<editorSide, productsLeft, extensionsLeft, budget, extension, sheet, coverage, expansion, observed, ideIssues>>

(* The root has a target of its own if it has an issue, or if no product   *)
(* has one.                                                                *)
EndJetBrains ==
    /\ ipc = "product" /\ productsLeft = {}
    /\ LET products == {t \in ideTargets : t[1] # VRoot}
       IN  ideTargets' = ideTargets \cup (IF expansion # None THEN {<<JRoot, expansion>>}
                                          ELSE IF products = {} THEN {<<JRoot, "complete">>} ELSE {})
    /\ ipc' = "covered"
    /\ UNCHANGED <<editorSide, listing, extension, sheet, coverage, expansion, observed, ideIssues>>

(* Cancelled between two entries: the result is thrown away.               *)
AbortIde ==
    /\ ipc \notin {"covered", "aborted"}
    /\ ipc' = "aborted"
    /\ product' = None /\ productsLeft' = {} /\ extensionsLeft' = {} /\ budget' = JBudget
    /\ extension' = None /\ sheet' = None /\ coverage' = "complete" /\ expansion' = None
    /\ ideTargets' = {} /\ observed' = {} /\ ideIssues' = {}
    /\ UNCHANGED editorSide

-----------------------------------------------------------------------------
(* An editor installs, updates or removes: a node is written, exchanged or *)
(* taken away.                                                             *)
Touch(n) ==
    /\ Len(touched) < MaxTouches
    /\ LET now == Len(touched) + 1 IN
        \E d \in DOMAIN Docs, k \in {"none", "dir", "file", "large", "link"}, id \in {disk[n].id, now} :
            /\ Role[n] = "manifest" => k # "dir"
            /\ Role[n] # "manifest" => k \in {"none", "dir", "link"} /\ d = disk[n].data
            /\ disk[n].kind # k /\ {disk[n].kind, k} # {"file", "large"} => id = now
            /\ disk' = [disk EXCEPT ![n] = [kind |-> k, id |-> id, time |-> now, data |-> d]]
    /\ touched' = Append(touched, n)
    /\ UNCHANGED <<ipc, listing, extension, sheet, coverage, ideResult, ideIssues>>

InitIde ==
    /\ disk \in DisksAtStart /\ touched = <<>>
    /\ ipc = "vroot" /\ product = None /\ productsLeft = {} /\ extensionsLeft = {}
    /\ extension = None /\ sheet = None /\ budget = JBudget
    /\ coverage = "complete" /\ expansion = None
    /\ ideTargets = {} /\ observed = {} /\ ideIssues = {}

NextIde ==
    \/ OpenVSCodeRoot \/ ReadVSCodeRoot \/ EndVSCode
    \/ OpenJetBrainsRoot \/ ReadJetBrainsRoot \/ BudgetSpent \/ LookProduct \/ OpenProduct \/ EndProduct \/ EndJetBrains
    \/ LookExtension \/ OpenExtension \/ OpenManifest \/ CheckManifest \/ AbortIde
    \/ \E n \in Nodes : Touch(n)

-----------------------------------------------------------------------------
Statuses == {"complete", "partial", "unavailable", "not_present"}

(* Shape; the budget is never overdrawn (entryBudget.charge), a target has *)
(* one status.                                                             *)
IdeTypeOK ==
    /\ budget \in 0 .. JBudget
    /\ coverage \in Statuses /\ expansion \in Statuses \cup {None}
    /\ ideTargets \subseteq Nodes \X Statuses
    /\ \A t, u \in ideTargets : t[1] = u[1] => t = u
    /\ product \in {None} \cup Nodes /\ extensionsLeft \subseteq Nodes /\ productsLeft \subseteq Nodes

IdeUntouched(e) == \A i \in DOMAIN touched : touched[i] \notin {e, VRoot, JRoot} \cup {Up[x] : x \in {e} \cap DOMAIN Up}
Covered(d, status) == <<d, status>> \in ideTargets

(* An extension or a plugin that was in its directory all the time is      *)
(* reported, or the target it belongs to is not complete; a product        *)
(* directory has a target, or the target of the root is not complete       *)
(* (collectVSCodeTarget, collectJetBrains, the limits of readDirectory).   *)
CompleteListsAll ==
    ipc = "covered" =>
        /\ \A e \in There(VRoot) : Covered(VRoot, "complete") /\ IsFolder(e) /\ IdeUntouched(e) => \E r \in observed : r.of = e
        /\ \A p \in There(JRoot) : /\ IsFolder(p) /\ IdeUntouched(p)
                                   /\ \A s \in {"partial", "unavailable", "not_present"} : ~Covered(JRoot, s)
                                   => \E s \in Statuses : Covered(p, s)
        /\ \A p \in There(JRoot) : Covered(p, "complete") /\ IdeUntouched(p) /\ IdeUntouched(Only(p)) =>
                \A e \in There(Only(p)) : IsFolder(e) /\ IdeUntouched(e) => \E r \in observed : r.of = e

(* What is reported of an extension is what its manifest held when the     *)
(* fingerprint of its anchor was taken (readManifest).                     *)
AnchorHoldsManifest == \A r \in observed : r.doc = r.told

(* An identity is never a choice between two that the manifest states, and *)
(* no entry point that is issued leaves the directory of its extension     *)
(* (validateUniqueJSONKeys, validateJetBrainsIdentityElements,             *)
(* canonicalIDEEntrypointPath).                                            *)
IdentityIsStated ==
    \A r \in observed :
        /\ \A t \in {"name", "version"} : Cardinality(Named(Docs[r.doc], t)) = 1
        /\ \A i \in r.issued : i[1] = "entrypoint" => \A k \in DOMAIN i[2] : i[2][k] \notin Astray

=============================================================================
