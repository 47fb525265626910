--------------------------- MODULE ProjectDiscovery ---------------------------
(***************************************************************************)
(* The automatic discovery of project roots (internal/collector/projects/  *)
(* discovery*.go).  The recent folders that editors remember and the       *)
(* worktrees that git administers become candidates; every candidate is    *)
(* opened component by component, compared with what was seen of it, freed *)
(* of nested and equal ones and looked at once more.  The user creates,    *)
(* exchanges and removes folders, metadata and worktrees at any step.      *)
(***************************************************************************)
EXTENDS Shared, Integers, FiniteSets, Sequences, SequencesExt

CONSTANTS
    Folders,        \* paths below the home directory, ordered by FolderOrder
    FolderOrder,    \* sequence: the order of their references
    Parent,         \* folder -> the folder it is in, or None
    FileOf,         \* folder -> the file it names: two spellings name one
    Conventional,   \* $HOME/Projects
    Excluded,       \* excludedDiscoveryCandidate
    Sources,        \* sequence of [name, notes, kind]: the metadata catalog
    NoteLimit,      \* maxVSCodeDiscoveryChildren, maxJetBrainsProducts
    MaxRoots,       \* maxConfiguredRoots
    Admins,         \* entry of .git/worktrees -> the repository it is in
    HomeStarts,     \* what may be below the home directory at first, and how
                    \* many of the changes are over
    MaxMoves        \* bound: changes by the user

(* A folder and the folders it is in: what every set has that contains the *)
(* folder and with a folder the one it is in (strictPathAncestor).         *)
Upwards(A) == \A f \in A : Parent[f] = None \/ Parent[f] \in A
Line == [f \in Folders |-> {g \in Folders : \A A \in SUBSET Folders : f \in A /\ Upwards(A) => g \in A}]
Above(f) == Line[f] \ {f}

Git == "git"
Catalog == Range(Sources)
SourceNames == {s.name : s \in Catalog} \cup {Git}
Notes == UNION {Range(s.notes) : s \in Catalog}
Wordings == UNION {UNION {Range(h.note[n].doc) : n \in DOMAIN h.note} : h \in HomeStarts}
Files == Range(FileOf)
Refusals ==
    {"symlink_rejected", "identity_changed", "metadata_unavailable", "metadata_malformed", "remote_unsupported", "outside_home"}

(* The folders are a tree, references tell them apart, and git is no       *)
(* editor; there are three editors and JetBrains (vscodeDiscoverySources,  *)
(* discoverJetBrainsSource), before git in priority; a workspace has one   *)
(* folder.                                                                 *)
ASSUME DiscoveryAssumption ==
    /\ IsFiniteSet(Folders) /\ Parent \in [Folders -> Folders \cup {None}]
    /\ None \notin Folders \cup DOMAIN Admins \cup Refusals \cup (Files \X (0..MaxMoves))
    /\ \A f, g \in Folders : g \in Above(f) => f \notin Above(g)
    /\ FolderOrder \in Seq(Folders) /\ Range(FolderOrder) = Folders /\ FileOf \in [Folders -> Files]
    /\ Conventional \in Folders /\ Excluded \subseteq Folders \ {Conventional}
    /\ MaxRoots \in Nat \ {0} /\ NoteLimit \in Nat /\ MaxMoves \in Nat
    /\ Sources \in Seq(Catalog) /\ Len(Sources) <= 4
    /\ \A s \in Catalog : s.name # Git /\ s.kind \in {"vscode", "jetbrains"} /\ s.notes \in Seq(Notes)
    /\ \A i, j \in DOMAIN Sources : Sources[i].name = Sources[j].name => i = j
    /\ DOMAIN Admins \cap (Folders \cup {"main", "broken", "link"}) = {}
    /\ HomeStarts \subseteq
          [moves : 0..MaxMoves,
           place : [Files -> [kind : {"none", "dir", "link", "file", "locked"}, id : 0..MaxMoves]],
           desk : [{s.name : s \in Catalog} -> [kind : {"none", "dir", "link", "locked"}, id : 0..MaxMoves]],
           note : [Notes -> [kind : {"none", "dir", "link", "file"}, doc : Seq(Wordings), id : 0..MaxMoves]],
           gitdir : [DOMAIN Admins -> Folders \cup {None}],
           gitfile : [Folders -> DOMAIN Admins \cup {"main", "broken", "link", None}]]
    /\ \A h \in HomeStarts : \A s \in Catalog :
          s.kind = "vscode" => \A n \in Range(s.notes) : Len(h.note[n].doc) <= 1

VARIABLES
    place,          \* file -> [kind, id]
    desk,           \* source -> [kind, id] of the directory with its notes
    note,           \* note -> [kind, doc, id]: the directory and its metadata
    gitdir,         \* admin -> the worktree it names
    gitfile,        \* folder -> what its .git is: "main", the admin that it names, a "link" or None
    moves,
    dpc,
    turn,           \* the source at work, or beyond the last one
    notes,          \* the places in its list of the notes left to look at
    at,             \* what was seen of the source and the note at work
    gathered,       \* candidates of the source at work
    candidates, sourceIssues, present,
    seeds, nodes, link, \* of the walk for worktrees
    agreed,         \* history: worktrees whose two links ever named each other
    rewrites,       \* history: admin or folder -> how often its link was written
    waiting,        \* the places of the candidates or roots left to look at
    verified, roots \* of the finalization

home == <<place, desk, note, gitdir, gitfile, moves>>
finalization == <<waiting, verified, roots>>
gitWalk == <<seeds, nodes, link>>
history == <<agreed, rewrites>>
discoveryVars == <<home, dpc, turn, notes, at, gathered, candidates, sourceIssues, present, gitWalk, history, finalization>>

Source == Sources[turn]
Rank(f) == CHOOSE i \in DOMAIN FolderOrder : FolderOrder[i] = f
Identity(f) == <<FileOf[f], place[FileOf[f]].id>>
Candidate(p, s, prio, i) == [path |-> p, source |-> s, priority |-> prio, id |-> i]
SourceIssue(s, codes) == sourceIssues' = [sourceIssues EXCEPT ![s] = @ \cup codes]

(* openAnchoredDiscoveryCandidate: component by component from the home    *)
(* directory; no link is followed.                                         *)
OpenCode(f) ==
    LET bad == {g \in Line[f] : place[FileOf[g]].kind # "dir"}
        first == CHOOSE g \in bad : Above(g) \cap bad = {}
        kind == place[FileOf[first]].kind
    IN  IF bad = {} THEN None
        ELSE IF kind = "link" THEN "symlink_rejected" ELSE IF kind = "locked" THEN "identity_changed" ELSE "metadata_unavailable"

(* validateDiscoveryCandidate *)
Code(p) == IF p \notin Folders \/ p \in Excluded THEN "outside_home" ELSE OpenCode(p)

-----------------------------------------------------------------------------
(* The metadata of the editors. *)

(* openDiscoverySource of the next source. *)
OpenSource ==
    /\ dpc = "source" /\ turn <= Len(Sources)
    /\ LET s == Source.name
       IN  CASE desk[s].kind = "none" -> turn' = turn + 1 /\ UNCHANGED <<dpc, at, gathered, sourceIssues, present>>
             [] desk[s].kind \in {"link", "locked"} ->
                    /\ turn' = turn + 1
                    /\ SourceIssue(s, {IF desk[s].kind = "link" THEN "symlink_rejected" ELSE "metadata_unavailable"})
                    /\ UNCHANGED <<dpc, at, gathered, present>>
             [] desk[s].kind = "dir" ->
                    /\ at' = [source |-> desk[s].id, note |-> None, seen |-> None]
                    /\ present' = present \cup {s}
                    /\ dpc' = "list" /\ gathered' = <<>>
                    /\ UNCHANGED <<turn, sourceIssues>>
    /\ UNCHANGED <<home, notes, candidates, gitWalk, history, finalization>>

ListedNotes == {k \in DOMAIN Source.notes : note[Source.notes[k]].kind # "none"}
FirstListed == {k \in ListedNotes : Cardinality({j \in ListedNotes : j <= k}) <= NoteLimit}

(* Mutant: what does not fit is left out without a word. *)
BugSilentLimit ==
    /\ dpc = "list"
    /\ notes' = FirstListed /\ dpc' = "note"
    /\ UNCHANGED <<home, turn, at, gathered, candidates, sourceIssues, present, gitWalk, history, finalization>>

(* readDiscoveryDirectory: the first notes in the order of their names.  A *)
(* read error keeps what was listed before it, in no order; a directory    *)
(* with too many entries of any kind (maxDiscoveryRawEntries), nothing.    *)
ListSource ==
    /\ dpc = "list"
    /\ \/ notes' = FirstListed /\ SourceIssue(Source.name, IF FirstListed = ListedNotes THEN {} ELSE {"root_limit"})
       \/ notes' \in SUBSET ListedNotes /\ SourceIssue(Source.name, {"metadata_unavailable"})
       \/ notes' = {} /\ SourceIssue(Source.name, {"root_limit"})
    /\ dpc' = "note"
    /\ UNCHANGED <<home, turn, at, gathered, candidates, present, gitWalk, history, finalization>>

(* The next note: its directory is looked up and opened and its metadata   *)
(* read; what is read is of one moment, to be confirmed.                   *)
ReadNote ==
    /\ dpc = "note"
    /\ \E k \in notes :
       LET n == Source.notes[k]
           skip(codes) == notes' = notes \ {k} /\ SourceIssue(Source.name, codes) /\ UNCHANGED <<dpc, at>>
       IN  /\ \A j \in notes : k <= j
           /\ CASE note[n].kind = "none" -> skip({"metadata_unavailable"})
                [] note[n].kind = "link" -> skip({"symlink_rejected"})
                [] note[n].kind = "file" -> skip({})
                [] note[n].kind = "dir" /\ note[n].doc = <<"absent">> -> skip({})
                [] note[n].kind = "dir" /\ note[n].doc = <<"large">> -> skip({"metadata_oversize"})
                [] note[n].kind = "dir" /\ note[n].doc = <<"denied">> -> skip({"metadata_unavailable"})
                [] OTHER -> at' = [at EXCEPT !.note = k, !.seen = note[n]] /\ dpc' = "confirm" /\ UNCHANGED <<notes, sourceIssues>>
    /\ UNCHANGED <<home, turn, gathered, candidates, present, gitWalk, history, finalization>>

(* parseVSCodeWorkspace: one folder, or the folder of a workspace file; an *)
(* address with another scheme than file is remote.                        *)
ReadVSCode(doc) ==
    IF doc = <<"remote">> THEN [paths |-> <<>>, code |-> "remote_unsupported"]
    ELSE IF doc \in {<<"broken">>, <<>>} THEN [paths |-> <<>>, code |-> "metadata_malformed"]
    ELSE [paths |-> <<doc[1]>>, code |-> None]

(* parseJetBrainsRecent: all recent paths, or none of a malformed file. *)
ReadJetBrains(doc) ==
    IF doc \in {<<"broken">>, <<"remote">>} THEN [paths |-> <<>>, code |-> "metadata_malformed"]
    ELSE [paths |-> doc, code |-> None]

(* The note and the source must still be what they were when it was read:  *)
(* identityMatches and discoveryRootIdentityMatches.                       *)
ConfirmNote ==
    /\ dpc = "confirm"
    /\ LET s == Source
           steady == note[s.notes[at.note]] = at.seen /\ desk[s.name] = [kind |-> "dir", id |-> at.source]
           parsed == IF s.kind = "vscode" THEN ReadVSCode(at.seen.doc) ELSE ReadJetBrains(at.seen.doc)
       IN  IF ~steady THEN SourceIssue(s.name, {"identity_changed"}) /\ UNCHANGED gathered
           ELSE /\ gathered' = gathered \o [i \in DOMAIN parsed.paths |-> Candidate(parsed.paths[i], s.name, turn, None)]
                /\ SourceIssue(s.name, IF parsed.code = None THEN {} ELSE {parsed.code})
    /\ notes' = notes \ {at.note} /\ dpc' = "note"
    /\ UNCHANGED <<home, turn, at, candidates, present, gitWalk, history, finalization>>

(* The end of a source: all its candidates, or none if it was exchanged. *)
CloseSource ==
    /\ dpc = "note" /\ notes = {}
    /\ LET s == Source.name
       IN  IF desk[s] = [kind |-> "dir", id |-> at.source]
           THEN candidates' = candidates \o gathered /\ UNCHANGED sourceIssues
           ELSE SourceIssue(s, {"identity_changed"}) /\ UNCHANGED candidates
    /\ turn' = turn + 1 /\ dpc' = "source" /\ gathered' = <<>>
    /\ UNCHANGED <<home, notes, at, present, gitWalk, history, finalization>>

-----------------------------------------------------------------------------
(* The seeds of the walk for worktrees. *)
BeginSeeds ==
    /\ dpc = "source" /\ turn > Len(Sources)
    /\ dpc' = "seeds" /\ waiting' = DOMAIN candidates
    /\ UNCHANGED <<home, turn, notes, at, gathered, candidates, sourceIssues, present, gitWalk, history, verified, roots>>

(* verifyDiscoverySeeds: a candidate that does not verify is no seed.      *)
VerifySeed ==
    /\ dpc = "seeds"
    /\ \E i \in waiting :
        LET c == candidates[i]
        IN  /\ \A j \in waiting : i <= j
            /\ seeds' = IF Code(c.path) = None THEN Append(seeds, [c EXCEPT !.id = Identity(c.path)]) ELSE seeds
            /\ waiting' = waiting \ {i}
    /\ UNCHANGED <<home, dpc, turn, notes, at, gathered, candidates, sourceIssues, present, nodes, link, history, verified, roots>>

(* bindVerifiedDiscoveryIdentities: the last identity that verified under  *)
(* the path, if any; a candidate without one stays a candidate.            *)
Bound(c) ==
    LET same == {i \in DOMAIN seeds : seeds[i].path = c.path}
    IN  IF same = {} THEN c ELSE [c EXCEPT !.id = seeds[Max(same)].id]

(* The conventional root comes first if it is a directory. *)
LookConventional ==
    /\ dpc = "seeds" /\ waiting = {}
    /\ LET c == Candidate(Conventional, Git, 0, Identity(Conventional))
           first == IF place[FileOf[Conventional]].kind \in {"dir", "locked"} THEN <<c>> ELSE <<>>
       IN  /\ seeds' = first \o seeds
           /\ candidates' = first \o [i \in DOMAIN candidates |-> Bound(candidates[i])]
    /\ dpc' = "git"
    /\ UNCHANGED <<home, turn, notes, at, gathered, sourceIssues, present, nodes, link, history, finalization>>

(* OpenVerifiedRoot of a seed that is still what was verified. *)
OpenSeed ==
    /\ dpc = "git" /\ nodes = {} /\ link = None /\ seeds # <<>>
    /\ LET c == Head(seeds)
           code == OpenCode(c.path)
       IN  /\ seeds' = Tail(seeds)
           /\ IF code # None
              THEN SourceIssue(Git, {IF code = "symlink_rejected" THEN code ELSE "metadata_unavailable"}) /\ UNCHANGED nodes
              ELSE IF Identity(c.path) # c.id THEN SourceIssue(Git, {"identity_changed"}) /\ UNCHANGED nodes
              ELSE nodes' = {c.path} /\ UNCHANGED sourceIssues
    /\ UNCHANGED <<home, dpc, turn, notes, at, gathered, candidates, present, link, history, finalization>>

(* walkGitMetadata: a repository or a worktree is not walked into; of      *)
(* another folder, the folders in it are, unless it cannot be read or a    *)
(* limit is reached.                                                       *)
WalkNode ==
    /\ dpc = "git" /\ link = None
    /\ \E f \in nodes :
        LET inside == {g \in Folders : Parent[g] = f /\ g \notin Excluded /\ place[FileOf[g]].kind = "dir"}
        IN  CASE gitfile[f] = "main" ->
                    /\ link' = [from |-> f, left |-> {a \in DOMAIN Admins : Admins[a] = f /\ gitdir[a] # None}, way |-> "back", admin |-> None, target |-> None, looks |-> 0]
                    /\ nodes' = nodes \ {f} /\ UNCHANGED sourceIssues
              [] gitfile[f] \in DOMAIN Admins ->
                    /\ link' = [from |-> f, left |-> {f}, way |-> "forth", admin |-> None, target |-> None, looks |-> 0]
                    /\ nodes' = nodes \ {f} /\ UNCHANGED sourceIssues
              [] gitfile[f] \in {"broken", "link"} ->
                    /\ nodes' = nodes \ {f} /\ UNCHANGED link
                    /\ SourceIssue(Git, {IF gitfile[f] = "link" THEN "symlink_rejected" ELSE "metadata_malformed"})
              [] OTHER ->
                    /\ UNCHANGED link
                    /\ \/ nodes' = (nodes \ {f}) \cup inside /\ UNCHANGED sourceIssues
                       \/ \E part \in SUBSET inside : nodes' = (nodes \ {f}) \cup part /\ SourceIssue(Git, {"metadata_unavailable"})
                       \/ nodes' = {} /\ SourceIssue(Git, {"root_limit"})
    /\ UNCHANGED <<home, dpc, turn, notes, at, gathered, candidates, present, seeds, history, finalization>>

(* Git names a worktree and the worktree names the entry. *)
Linked(a, f) == gitdir[a] = f /\ gitfile[f] = a

Giving(code) == link' = [link EXCEPT !.looks = 0] /\ SourceIssue(Git, {code}) /\ UNCHANGED <<candidates, present>>

(* The first of four looks at the links: at git's entry, or at the file of *)
(* the worktree that the walk came to.                                     *)
FirstLook ==
    /\ dpc = "git" /\ link # None /\ link.looks = 0 /\ link.left # {}
    /\ \E x \in link.left :
        LET a == IF link.way = "back" THEN x ELSE gitfile[link.from]
            f == IF link.way = "back" THEN gitdir[x] ELSE link.from
            code == IF a \notin DOMAIN Admins THEN "metadata_malformed"
                    ELSE IF f = None THEN "metadata_unavailable"
                    ELSE IF link.way = "back" /\ OpenCode(f) # None
                         THEN (IF OpenCode(f) = "symlink_rejected" THEN "symlink_rejected" ELSE "metadata_unavailable")
                    ELSE None
        IN  IF code = None THEN link' = [link EXCEPT !.admin = a, !.target = f, !.looks = 1, !.left = @ \ {x}] /\ UNCHANGED sourceIssues
            ELSE link' = [link EXCEPT !.left = @ \ {x}] /\ SourceIssue(Git, {code})
    /\ UNCHANGED <<home, dpc, turn, notes, at, gathered, candidates, present, seeds, nodes, history, finalization>>

(* The second look is at the other link, the third and the fourth at both  *)
(* once more; the entry comes first if the first look was at the entry.    *)
NextLookHolds ==
    IF (link.way = "back") = (link.looks = 2) THEN gitdir[link.admin] = link.target ELSE gitfile[link.target] = link.admin

EmitWorktree ==
    /\ candidates' = IF \E i \in DOMAIN candidates : candidates[i].path = link.target /\ candidates[i].priority = 5
                     THEN candidates ELSE Append(candidates, Candidate(link.target, Git, 5, None))
    /\ present' = present \cup {Git} /\ link' = [link EXCEPT !.looks = 0] /\ UNCHANGED sourceIssues

(* Mutant: links are not read twice. *)
BugGitReadOnce ==
    /\ dpc = "git" /\ link # None /\ link.looks # 0
    /\ IF NextLookHolds THEN EmitWorktree ELSE Giving("metadata_malformed")
    /\ UNCHANGED <<home, dpc, turn, notes, at, gathered, seeds, nodes, history, finalization>>

LookAgain ==
    /\ dpc = "git" /\ link # None /\ link.looks # 0
    /\ IF ~NextLookHolds THEN Giving(IF link.looks = 1 THEN "metadata_malformed" ELSE "identity_changed")
       ELSE IF link.looks = 3 THEN EmitWorktree
       ELSE link' = [link EXCEPT !.looks = @ + 1] /\ UNCHANGED <<candidates, present, sourceIssues>>
    /\ UNCHANGED <<home, dpc, turn, notes, at, gathered, seeds, nodes, history, finalization>>

EndLinks ==
    /\ dpc = "git" /\ link # None /\ link.looks = 0 /\ link.left = {}
    /\ link' = None
    /\ UNCHANGED <<home, dpc, turn, notes, at, gathered, candidates, sourceIssues, present, seeds, nodes, history, finalization>>

-----------------------------------------------------------------------------
(* finalizeDiscoveredRoots *)

(* The order of the candidates: the conventional root, then by priority,   *)
(* which tells the sources, and reference.                                 *)
Before(c, d) ==
    IF c.path = Conventional \/ d.path = Conventional THEN c.path = Conventional /\ d.path # Conventional
    ELSE \/ c.priority < d.priority
         \/ c.priority = d.priority /\ c.path \in Folders /\ d.path \in Folders /\ Rank(c.path) < Rank(d.path)

(* Whose turn it is in that order. *)
Foremost(seq) == {i \in waiting : \A j \in waiting : ~Before(seq[j], seq[i])}

BeginFinal ==
    /\ dpc = "git" /\ link = None /\ nodes = {} /\ seeds = <<>>
    /\ waiting' = DOMAIN candidates /\ dpc' = "final"
    /\ UNCHANGED <<home, turn, notes, at, gathered, candidates, sourceIssues, present, gitWalk, history, verified, roots>>

(* Every candidate is opened again and must be what it was as a seed. *)
VerifyCandidate ==
    /\ dpc = "final"
    /\ \E i \in Foremost(candidates) :
        LET c == candidates[i]
            code == Code(c.path)
        IN  /\ waiting' = waiting \ {i}
            /\ IF code # None THEN SourceIssue(c.source, {code}) /\ UNCHANGED verified
               ELSE IF c.id # None /\ c.id # Identity(c.path) THEN SourceIssue(c.source, {"identity_changed"}) /\ UNCHANGED verified
               ELSE /\ verified' = IF \E j \in DOMAIN verified : verified[j].path = c.path THEN verified
                                   ELSE Append(verified, [c EXCEPT !.id = Identity(c.path)])
                    /\ UNCHANGED sourceIssues
    /\ UNCHANGED <<home, dpc, turn, notes, at, gathered, candidates, present, gitWalk, history, roots>>

(* Those that are not below another one. *)
Topmost(seq) == {i \in DOMAIN seq : \A j \in DOMAIN seq : seq[j].path \notin Above(seq[i].path)}

(* Mutant: folders are told apart by name. *)
BugByName(seq) == Topmost(seq)

(* Of those that are not below another one and are one file, the first.    *)
Minimal(seq) == {i \in Topmost(seq) : \A j \in Topmost(seq) : seq[j].id = seq[i].id => ~Before(seq[j], seq[i])}

(* As many as there is room for; what is left out is told. *)
Keep(few, limit) ==
    LET kept == {i \in few : Cardinality({j \in few : Before(verified[j], verified[i])}) < limit}
    IN  /\ waiting' = kept
        /\ sourceIssues' = [s \in SourceNames |->
              sourceIssues[s] \cup {c \in {"root_limit"} : \E i \in few \ kept : verified[i].source = s}]

(* Mutant: the conventional root takes no place of its own. *)
BugConventionalExtra ==
    /\ dpc = "final" /\ waiting = {}
    /\ Keep(Minimal(verified), MaxRoots) /\ dpc' = "recheck"
    /\ UNCHANGED <<home, turn, notes, at, gathered, candidates, present, gitWalk, history, verified, roots>>

SelectRoots ==
    /\ dpc = "final" /\ waiting = {}
    /\ LET few == Minimal(verified)
       IN  Keep(few, IF \E i \in few : verified[i].path = Conventional THEN MaxRoots ELSE MaxRoots - 1)
    /\ dpc' = "recheck"
    /\ UNCHANGED <<home, turn, notes, at, gathered, candidates, present, gitWalk, history, verified, roots>>

(* recheckDiscoveryCandidate, and the root is sealed. *)
RecheckRoot ==
    /\ dpc = "recheck"
    /\ \E i \in Foremost(verified) :
        LET c == verified[i]
        IN  /\ waiting' = waiting \ {i}
            /\ IF OpenCode(c.path) = None /\ Identity(c.path) = c.id
               THEN roots' = Append(roots, c) /\ UNCHANGED sourceIssues
               ELSE SourceIssue(c.source, {"identity_changed"}) /\ UNCHANGED roots
    /\ UNCHANGED <<home, dpc, turn, notes, at, gathered, candidates, present, gitWalk, history, verified>>

(* The end of DiscoverRoots: the conventional root is named first even if  *)
(* it was not found.                                                       *)
ReturnRoots ==
    /\ dpc = "recheck" /\ waiting = {}
    /\ dpc' = "returned"
    /\ roots' = IF roots # <<>> /\ roots[1].path = Conventional THEN roots
                ELSE <<Candidate(Conventional, None, 0, None)>> \o roots
    /\ UNCHANGED <<home, turn, notes, at, gathered, candidates, sourceIssues, present, gitWalk, history, waiting, verified>>

(* The context ends or the home directory itself is exchanged: no roots    *)
(* and no coverage.                                                        *)
AbortDiscovery ==
    /\ dpc \notin {"returned", "aborted"}
    /\ dpc' = "aborted"
    /\ candidates' = <<>> /\ gathered' = <<>> /\ roots' = <<>> /\ verified' = <<>> /\ seeds' = <<>> /\ waiting' = {}
    /\ UNCHANGED <<home, turn, notes, at, sourceIssues, present, nodes, link, history>>

-----------------------------------------------------------------------------
(* mergeDiscoveryCoverage and discoveryCatalogCoverage *)
TargetStatus(s) == IF sourceIssues[s] # {} THEN "partial" ELSE IF s \in present THEN "complete" ELSE "not_present"

(* validateAutomaticRoots, which the collector applies to the roots. *)
AutomaticRoots(rs) ==
    /\ Len(rs) \in 1..MaxRoots
    /\ \A i \in DOMAIN rs : rs[i].path \in Folders
    /\ \A i, j \in DOMAIN rs : i < j => Before(rs[i], rs[j]) /\ rs[i].path \notin Above(rs[j].path) /\ rs[j].path \notin Above(rs[i].path)

Moved == moves < MaxMoves /\ moves' = moves + 1
MoveFolder ==
    /\ \E x \in DOMAIN place : \E k \in {"none", "dir", "link"} :
        /\ k # "none" \/ place[x].kind # "none"
        /\ place' = [place EXCEPT ![x] = [kind |-> k, id |-> moves + 1]]
    /\ UNCHANGED <<desk, note, gitdir, gitfile, rewrites>>
MoveNote ==
    /\ \/ \E s \in DOMAIN desk : desk' = [desk EXCEPT ![s] = [kind |-> "dir", id |-> moves + 1]] /\ UNCHANGED note
       \/ \E n \in DOMAIN note : \E m \in DOMAIN note :
            /\ note[n].kind = "dir"
            /\ note' = [note EXCEPT ![n] = [kind |-> "dir", doc |-> note[m].doc, id |-> moves + 1]]
            /\ UNCHANGED desk
    /\ UNCHANGED <<place, gitdir, gitfile, rewrites>>
(* git worktree add, remove, move and repair write one link after the      *)
(* other.                                                                  *)
MoveWorktree ==
    /\ \/ \E a \in DOMAIN Admins : \E f \in Folders \cup {None} :
            /\ f # gitdir[a] /\ gitdir' = [gitdir EXCEPT ![a] = f] /\ UNCHANGED gitfile
            /\ rewrites' = [rewrites EXCEPT ![a] = @ + 1]
       \/ \E f \in Folders : \E v \in DOMAIN Admins \cup {None} :
            /\ gitfile[f] # "main" /\ v # gitfile[f] /\ gitfile' = [gitfile EXCEPT ![f] = v] /\ UNCHANGED gitdir
            /\ rewrites' = [rewrites EXCEPT ![f] = @ + 1]
    /\ UNCHANGED <<place, desk, note>>

(* The user, or another program. *)
MoveHome ==
    /\ Moved /\ (MoveFolder \/ MoveNote \/ MoveWorktree)
    /\ agreed' = agreed \cup {f \in Folders : \E a \in DOMAIN Admins : gitdir'[a] = f /\ gitfile'[f] = a}
    /\ UNCHANGED <<dpc, turn, notes, at, gathered, candidates, sourceIssues, present, gitWalk, finalization>>

DiscoveryInit ==
    /\ \E h \in HomeStarts :
        /\ place = h.place /\ desk = h.desk /\ note = h.note /\ gitdir = h.gitdir /\ gitfile = h.gitfile
        /\ moves = h.moves
    /\ dpc = "source" /\ turn = 1 /\ notes = {}
    /\ at = [source |-> None, note |-> None, seen |-> None]
    /\ gathered = <<>> /\ candidates = <<>> /\ sourceIssues = [s \in SourceNames |-> {}] /\ present = {}
    /\ seeds = <<>> /\ nodes = {} /\ link = None
    /\ agreed = {f \in Folders : \E a \in DOMAIN Admins : Linked(a, f)}
    /\ rewrites = [x \in DOMAIN Admins \cup Folders |-> 0]
    /\ waiting = {} /\ verified = <<>> /\ roots = <<>>

DiscoveryNext ==
    \/ OpenSource \/ ListSource \/ ReadNote \/ ConfirmNote \/ CloseSource \/ BeginSeeds \/ VerifySeed \/ LookConventional
    \/ OpenSeed \/ WalkNode \/ FirstLook \/ LookAgain \/ EndLinks \/ BeginFinal \/ VerifyCandidate \/ SelectRoots
    \/ RecheckRoot \/ ReturnRoots \/ AbortDiscovery \/ MoveHome

DiscoverySpec == DiscoveryInit /\ [][DiscoveryNext]_discoveryVars

-----------------------------------------------------------------------------
(* Every variable of the discovery stays within its type
   (internal/collector/projects/discovery.go:84-152). *)
DiscoveryTypeOK ==
    /\ \A x \in DOMAIN place : place[x].kind \in {"none", "dir", "link", "file", "locked"} /\ place[x].id \in 0..MaxMoves
    /\ present \subseteq SourceNames /\ DOMAIN sourceIssues = SourceNames
    /\ \A i \in DOMAIN candidates : candidates[i].source \in SourceNames /\ candidates[i].priority \in 0..5
    /\ nodes \subseteq Folders /\ agreed \subseteq Folders
    /\ Len(roots) <= MaxRoots

(* What the notes name that nobody touched. *)
SteadyPaths ==
    UNION {UNION {Range(note[n].doc) :
            n \in {n \in Range(s.notes) : note[n].kind = "dir" /\ note[n].id = 0 /\ note[n].doc # <<"absent">>}} :
        s \in {s \in Catalog : desk[s.name] = [kind |-> "dir", id |-> 0]}}

(* Nothing is lost in silence: if no discovery target is partial, then of  *)
(* every candidate and every folder of a note that nobody touched a sealed *)
(* root is the file, or the file of a folder it is in, whatever was        *)
(* exchanged meanwhile (internal/collector/projects/discovery.go:262-372). *)
NothingLeftOut ==
    dpc = "returned" /\ (\A s \in SourceNames : sourceIssues[s] = {}) =>
        \A p \in {candidates[i].path : i \in DOMAIN candidates} \cup SteadyPaths :
            /\ p \in Folders
            /\ \E j \in DOMAIN roots : roots[j].id # None /\ \E g \in Line[p] : FileOf[roots[j].path] = FileOf[g]

(* The roots that were sealed are few enough for the collector, no two of  *)
(* them are one file, and except for a conventional root that was only     *)
(* named none is inside another one                                        *)
(* (internal/collector/projects/discovery.go:310-372, collector.go:382-411). *)
RootsApart ==
    dpc = "returned" =>
        /\ Len(roots) <= MaxRoots
        /\ \A i, j \in DOMAIN roots :
            i # j /\ roots[i].id # None /\ roots[j].id # None => roots[i].id # roots[j].id /\ roots[i].path \notin Above(roots[j].path)

(* What the walk reports as a worktree was one: at some moment git's entry *)
(* and the worktree named each other, however links are rewritten between  *)
(* the four reads, unless both links were written to and fro: the reads    *)
(* compare what they hold, not when it was written                         *)
(* (internal/collector/projects/discovery_git.go:250-329).                 *)
WorktreeAgreed ==
    \A i \in DOMAIN candidates : candidates[i].source = Git /\ candidates[i].priority = 5 =>
        \/ candidates[i].path \in agreed
        \/ rewrites[candidates[i].path] >= 2 /\ \E a \in DOMAIN Admins : rewrites[a] >= 2

(* The collector accepts the roots of the discovery: it "removes duplicate
   and nested roots" (internal/collector/projects/discovery.go:246-247). *)
RootsAccepted == dpc = "returned" => AutomaticRoots(roots)

=============================================================================
