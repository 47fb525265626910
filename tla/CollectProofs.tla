---------------------------- MODULE CollectProofs ----------------------------
(***************************************************************************)
(* Theorems about the collectors side by side, as MCCollect composes them: *)
(* a step of one part is a step of its module and of no other, so what is  *)
(* proved of the parts holds of the composition.                           *)
(***************************************************************************)
EXTENDS MCCollect, InventoryProofs

-----------------------------------------------------------------------------
(* Folders and their order *)

(* A folder is in its own line, and with a folder the line has the folder  *)
(* it is in and the whole line of that one.                                *)
LEMMA LineFacts ==
    ASSUME NEW f \in Folders
    PROVE  /\ f \in Line[f] /\ Line[f] \subseteq Folders
           /\ \A g \in Line[f] : Line[g] \subseteq Line[f] /\ (g # f => f \notin Line[g])
<1>1. Line[f] = {g \in Folders : \A A \in SUBSET Folders : f \in A /\ Upwards(A) => g \in A}
  BY DEF Line
<1>2. f \in Line[f] /\ Line[f] \subseteq Folders
  BY <1>1
<1>3. ASSUME NEW g \in Line[f] PROVE Line[g] \subseteq Line[f] /\ (g # f => f \notin Line[g])
  <2>1. g \in Folders
    BY <1>2
  <2>2. Line[g] = {h \in Folders : \A A \in SUBSET Folders : g \in A /\ Upwards(A) => h \in A}
    BY <2>1 DEF Line
  <2>3. Line[g] \subseteq Line[f]
    BY <1>1, <1>3, <2>2
  <2>4. g # f => f \notin Line[g]
    BY <1>3, <2>1, DiscoveryAssumption DEF Above
  <2> QED
    BY <2>3, <2>4
<1> QED
  BY <1>2, <1>3

(* References are places in their order, which tells folders apart.        *)
LEMMA RankFacts ==
    ASSUME NEW f \in Folders
    PROVE  Rank(f) \in Nat /\ Rank(f) \in DOMAIN FolderOrder /\ FolderOrder[Rank(f)] = f
<1>1. \E i \in DOMAIN FolderOrder : FolderOrder[i] = f
  BY DiscoveryAssumption DEF Range
<1>2. Rank(f) \in DOMAIN FolderOrder /\ FolderOrder[Rank(f)] = f
  BY <1>1 DEF Rank
<1>3. DOMAIN FolderOrder \subseteq Nat
  <2>1. FolderOrder \in Seq(Folders)
    BY DiscoveryAssumption
  <2> QED
    BY <2>1
<1> QED
  BY <1>2, <1>3

(* Of candidates that are folders any two under different paths are        *)
(* ordered, and none is before itself.                                     *)
LEMMA BeforeFacts ==
    ASSUME NEW c, NEW d, NEW e, c.path \in Folders, d.path \in Folders, e.path \in Folders,
           c.priority \in Int, d.priority \in Int, e.priority \in Int
    PROVE  /\ ~Before(c, c)
           /\ c.path # d.path => Before(c, d) \/ Before(d, c)
           /\ Before(c, d) => ~Before(d, c)
           /\ Before(c, d) /\ Before(d, e) => Before(c, e)
<1>1. /\ Rank(c.path) \in Nat /\ Rank(d.path) \in Nat /\ Rank(e.path) \in Nat
      /\ Rank(c.path) = Rank(d.path) => c.path = d.path
  BY RankFacts
<1> DEFINE rc == Rank(c.path) rd == Rank(d.path) re == Rank(e.path)
<1>2. rc \in Nat /\ rd \in Nat /\ re \in Nat /\ (rc = rd => c.path = d.path)
  BY <1>1
<1>3. /\ Before(c, d) <=> IF c.path = Conventional \/ d.path = Conventional THEN c.path = Conventional /\ d.path # Conventional
                          ELSE c.priority < d.priority \/ (c.priority = d.priority /\ rc < rd)
      /\ Before(d, c) <=> IF d.path = Conventional \/ c.path = Conventional THEN d.path = Conventional /\ c.path # Conventional
                          ELSE d.priority < c.priority \/ (d.priority = c.priority /\ rd < rc)
      /\ Before(d, e) <=> IF d.path = Conventional \/ e.path = Conventional THEN d.path = Conventional /\ e.path # Conventional
                          ELSE d.priority < e.priority \/ (d.priority = e.priority /\ rd < re)
      /\ Before(c, e) <=> IF c.path = Conventional \/ e.path = Conventional THEN c.path = Conventional /\ e.path # Conventional
                          ELSE c.priority < e.priority \/ (c.priority = e.priority /\ rc < re)
      /\ Before(c, c) <=> IF c.path = Conventional THEN FALSE ELSE c.priority < c.priority \/ rc < rc
  BY DEF Before
<1> HIDE DEF rc, rd, re
<1> QED
  BY <1>2, <1>3

(* Candidates that can be opened.                                          *)
Opened(seq, S) == \A i \in S : seq[i].path \in Folders /\ seq[i].priority \in Nat

(* Of opened candidates one is not after any other.                        *)
LEMMA FirstExists ==
    ASSUME NEW seq, NEW S, S # {}, Opened(seq, S)
    PROVE  \E i \in S : \A j \in S : ~Before(seq[j], seq[i])
<1>1. CASE \E i \in S : seq[i].path = Conventional
  BY <1>1 DEF Before
<1>2. CASE \A i \in S : seq[i].path # Conventional
  <2> DEFINE P == {seq[i].priority : i \in S}
  <2>1. P \in SUBSET Nat /\ P # {}
    BY DEF Opened
  <2>2. PICK p \in P : \A q \in P : p <= q
    BY <2>1, LeastOf
  <2> DEFINE T == {i \in S : seq[i].priority = p}
             R == {Rank(seq[i].path) : i \in T}
  <2>3. R \in SUBSET Nat /\ R # {}
    BY RankFacts DEF Opened
  <2>4. PICK r \in R : \A q \in R : r <= q
    BY <2>3, LeastOf
  <2>5. PICK i \in T : Rank(seq[i].path) = r
    OBVIOUS
  <2>6. ASSUME NEW j \in S PROVE ~Before(seq[j], seq[i])
    <3>1. seq[j].priority \in P /\ seq[j].priority \in Nat /\ p \in Nat /\ seq[i].priority = p
      BY <2>1 DEF Opened
    <3>2. p <= seq[j].priority
      BY <2>2, <3>1
    <3>3. j \in T => Rank(seq[j].path) \in R /\ r <= Rank(seq[j].path) /\ Rank(seq[j].path) \in Nat /\ r \in Nat
      BY <2>3, <2>4
    <3>4. ~(seq[j].priority < seq[i].priority)
      BY <3>1, <3>2
    <3>5. seq[j].priority = seq[i].priority => ~(Rank(seq[j].path) < Rank(seq[i].path))
      BY <2>5, <3>1, <3>3
    <3> QED
      BY <1>2, <3>4, <3>5 DEF Before
  <2> QED
    BY <2>6
<1> QED
  BY <1>1, <1>2

(* Every opened candidate is in or below one that is not below any other.  *)
LEMMA TopmostExists ==
    ASSUME NEW seq, NEW i \in DOMAIN seq, Opened(seq, DOMAIN seq)
    PROVE  \E j \in Topmost(seq) : seq[j].path \in Line[seq[i].path]
<1> DEFINE S == {j \in DOMAIN seq : seq[j].path \in Line[seq[i].path]}
           C == {Cardinality(Line[seq[j].path]) : j \in S}
<1>1. \A j \in DOMAIN seq : seq[j].path \in Folders
  BY DEF Opened
<1>2. \A f \in Folders : IsFiniteSet(Line[f]) /\ Cardinality(Line[f]) \in Nat
  <2> SUFFICES ASSUME NEW f \in Folders PROVE IsFiniteSet(Line[f]) /\ Cardinality(Line[f]) \in Nat
    OBVIOUS
  <2>1. IsFiniteSet(Folders) /\ Line[f] \in SUBSET Folders
    BY LineFacts, DiscoveryAssumption
  <2> QED
    BY <2>1, FS_Subset, FS_CardinalityType
<1>3. i \in S
  BY <1>1, LineFacts
<1>4. C \in SUBSET Nat /\ C # {}
  BY <1>1, <1>2, <1>3
<1>5. PICK m \in C : \A n \in C : m <= n
  BY <1>4, LeastOf
<1>6. PICK j \in S : Cardinality(Line[seq[j].path]) = m
  OBVIOUS
<1>7. ASSUME NEW k \in DOMAIN seq, seq[k].path \in Above(seq[j].path) PROVE FALSE
  <2> DEFINE f == seq[j].path
             g == seq[k].path
  <2>1. f \in Folders /\ g \in Folders /\ g \in Line[f] /\ g # f
    BY <1>1, <1>7 DEF Above
  <2>2. Line[g] \subseteq Line[f] /\ f \notin Line[g] /\ f \in Line[f]
    BY <2>1, LineFacts
  <2>3. Line[f] \subseteq Line[seq[i].path]
    BY <1>1, <1>6, LineFacts
  <2>4. k \in S
    BY <2>1, <2>3
  <2>5. m <= Cardinality(Line[g])
    BY <1>5, <2>4
  <2>6. Line[g] \in SUBSET Line[f] /\ Line[g] # Line[f] /\ IsFiniteSet(Line[f])
    BY <1>2, <2>1, <2>2
  <2>7. Cardinality(Line[g]) <= Cardinality(Line[f]) /\ Cardinality(Line[f]) # Cardinality(Line[g])
    BY <2>6, FS_Subset
  <2>8. Cardinality(Line[g]) \in Nat /\ Cardinality(Line[f]) \in Nat /\ Cardinality(Line[f]) = m
    BY <1>2, <1>6, <2>1
  <2> QED
    BY <2>5, <2>7, <2>8
<1> QED
  BY <1>6, <1>7 DEF Topmost

(* Every opened candidate is in or below one that is the same file as one  *)
(* that is chosen.                                                         *)
LEMMA MinimalExists ==
    ASSUME NEW seq, NEW i \in DOMAIN seq, Opened(seq, DOMAIN seq)
    PROVE  \E j \in DOMAIN seq : seq[j].path \in Line[seq[i].path] /\ \E k \in Minimal(seq) : seq[k].id = seq[j].id
<1>1. PICK j \in Topmost(seq) : seq[j].path \in Line[seq[i].path]
  BY TopmostExists
<1> DEFINE S == {k \in Topmost(seq) : seq[k].id = seq[j].id}
<1>2. S # {} /\ Opened(seq, S) /\ j \in DOMAIN seq
  BY <1>1 DEF Opened, Topmost
<1>3. PICK k \in S : \A l \in S : ~Before(seq[l], seq[k])
  BY <1>2, FirstExists
<1>4. k \in Minimal(seq)
  BY <1>3 DEF Minimal
<1> QED
  BY <1>1, <1>2, <1>3, <1>4

(* Chosen candidates are apart.                                            *)
Apart(c, d) == c.id # d.id /\ c.path \notin Above(d.path) /\ d.path \notin Above(c.path)
(* Of those that are minimal no two are one file, and none is in another.  *)
LEMMA MinimalApart ==
    ASSUME NEW seq, Opened(seq, DOMAIN seq), \A i, j \in DOMAIN seq : i # j => seq[i].path # seq[j].path
    PROVE  \A i, j \in Minimal(seq) : i # j => Apart(seq[i], seq[j])
<1> SUFFICES ASSUME NEW i \in Minimal(seq), NEW j \in Minimal(seq), i # j PROVE Apart(seq[i], seq[j])
  OBVIOUS
<1>1. i \in Topmost(seq) /\ j \in Topmost(seq) /\ i \in DOMAIN seq /\ j \in DOMAIN seq
  BY DEF Minimal, Topmost
<1>2. seq[i].path \notin Above(seq[j].path) /\ seq[j].path \notin Above(seq[i].path)
  BY <1>1 DEF Topmost
<1>3. seq[i].id = seq[j].id => ~Before(seq[i], seq[j]) /\ ~Before(seq[j], seq[i])
  BY <1>1 DEF Minimal
<1>4. Before(seq[i], seq[j]) \/ Before(seq[j], seq[i])
  BY <1>1, BeforeFacts DEF Opened
<1> QED
  BY <1>2, <1>3, <1>4 DEF Apart

(* The first so many of them are no more than so many.                     *)
LEMMA KeptFew ==
    ASSUME NEW seq, NEW few, IsFiniteSet(few), NEW limit \in Nat, Opened(seq, few),
           \A i, j \in few : i # j => seq[i].path # seq[j].path
    PROVE  LET chosen == {i \in few : Cardinality({j \in few : Before(seq[j], seq[i])}) < limit}
           IN  IsFiniteSet(chosen) /\ Cardinality(chosen) <= limit
<1> DEFINE prior(i) == {j \in few : Before(seq[j], seq[i])}
           chosen == {i \in few : Cardinality(prior(i)) < limit}
           f == [i \in chosen |-> Cardinality(prior(i))]
<1>1. \A i \in few : IsFiniteSet(prior(i)) /\ Cardinality(prior(i)) \in Nat
  BY FS_Subset, FS_CardinalityType
<1>2. \A i \in few, j \in few : Before(seq[i], seq[j]) => Cardinality(prior(i)) # Cardinality(prior(j))
  <2> SUFFICES ASSUME NEW i \in few, NEW j \in few, Before(seq[i], seq[j]) PROVE Cardinality(prior(i)) # Cardinality(prior(j))
    OBVIOUS
  <2>1. prior(i) \in SUBSET prior(j)
    <3> SUFFICES ASSUME NEW k \in few, Before(seq[k], seq[i]) PROVE Before(seq[k], seq[j])
      OBVIOUS
    <3>1. seq[i].path \in Folders /\ seq[j].path \in Folders /\ seq[k].path \in Folders
          /\ seq[i].priority \in Int /\ seq[j].priority \in Int /\ seq[k].priority \in Int
      BY DEF Opened
    <3> QED
      BY <3>1, BeforeFacts
  <2>2. i \in prior(j) /\ i \notin prior(i)
    BY BeforeFacts DEF Opened
  <2>3. prior(i) # prior(j) /\ IsFiniteSet(prior(j))
    BY <1>1, <2>2
  <2> HIDE DEF prior
  <2> QED
    BY <2>1, <2>3, FS_Subset
<1>3. \A i \in few, j \in few : i # j => Before(seq[i], seq[j]) \/ Before(seq[j], seq[i])
  BY BeforeFacts DEF Opened
<1>4. f \in [chosen -> 0..(limit - 1)]
  <2>1. \A i \in chosen : Cardinality(prior(i)) \in 0..(limit - 1)
    BY <1>1
  <2> HIDE DEF prior, chosen
  <2> QED
    BY <2>1
<1>5. \A i \in chosen, j \in chosen : f[i] = f[j] => i = j
  BY <1>2, <1>3
<1>6. f \in Injection(chosen, 0..(limit - 1))
  BY <1>4, <1>5, Zenon DEF Injection, IsInjective
<1>7. IsFiniteSet(0..(limit - 1)) /\ Cardinality(0..(limit - 1)) = limit
  <2>1. 0 \in Int /\ limit - 1 \in Int
    OBVIOUS
  <2> QED
    BY <2>1, FS_Interval
<1>8. IsFiniteSet(chosen) /\ Cardinality(chosen) <= Cardinality(0..(limit - 1))
  <2> HIDE DEF chosen, f
  <2> QED
    BY <1>6, <1>7, FS_Injection
<1> QED
  BY <1>7, <1>8

-----------------------------------------------------------------------------
(* What is seen of the home directory, and what a history of its links     *)
(* says.                                                                   *)
NoteStates == [kind : {"none", "dir", "link", "file"}, doc : Seq(Wordings), id : 0..MaxMoves]
(* The home directory and what is recorded of it.                          *)
HomeTyped ==
    /\ moves \in 0..MaxMoves
    /\ place \in [Files -> [kind : {"none", "dir", "link", "file", "locked"}, id : 0..MaxMoves]]
    /\ desk \in [{s.name : s \in Catalog} -> [kind : {"none", "dir", "link", "locked"}, id : 0..MaxMoves]]
    /\ note \in [Notes -> NoteStates]
    /\ \A s \in Catalog : s.kind = "vscode" => \A n \in Range(s.notes) : note[n].id = 0 => Len(note[n].doc) <= 1
    /\ gitdir \in [DOMAIN Admins -> Folders \cup {None}]
    /\ gitfile \in [Folders -> DOMAIN Admins \cup {"main", "broken", "link", None}]
    /\ rewrites \in [DOMAIN Admins \cup Folders -> Nat] /\ agreed \subseteq Folders
    /\ \A a \in DOMAIN Admins, f \in Folders : Linked(a, f) => f \in agreed

(* Candidates, and those that were opened and have the identity of their   *)
(* file.                                                                   *)
Identities == Files \X (0..MaxMoves)
(* Candidates as they are found, those that a list named, and those opened. *)
Unsealed ==
    {c \in [path : Wordings \cup Folders, source : SourceNames, priority : 0..5, id : Identities \cup {None}] :
        c.source = Git /\ c.priority = 5 => c.path \in Folders}
Remembered == {c \in Unsealed : c.source # Git}
Sealed == {c \in [path : Folders, source : SourceNames, priority : 0..5, id : Identities] : c.id[1] = FileOf[c.path]}
(* The folders that candidates name.                                       *)
Paths(seq) == {seq[i].path : i \in DOMAIN seq}

(* Where in its work the discovery is.                                     *)
Reading == {"list", "note", "confirm"}
Early == {"source", "seeds", "git"} \cup Reading
Later == {"seeds", "git", "final", "recheck", "returned"}
(* Which source and note are at work at each stage.                        *)
StageTyped ==
    /\ dpc \in {"source", "aborted"} \cup Reading \cup Later
    /\ turn \in 1..(Len(Sources) + 1)
    /\ (dpc \in Reading => turn <= Len(Sources)) /\ (dpc \in Later => turn = Len(Sources) + 1)
    /\ dpc \in {"note", "confirm"} => notes \subseteq DOMAIN Source.notes
    /\ at = [source |-> at.source, note |-> at.note, seen |-> at.seen]
    /\ dpc = "confirm" => at.note \in notes /\ at.seen \in NoteStates
    /\ dpc \in {"seeds", "final"} => waiting \subseteq DOMAIN candidates
    /\ dpc = "recheck" => waiting \subseteq DOMAIN verified
(* The work lists.                                                         *)
WorkTyped ==
    /\ present \subseteq SourceNames /\ sourceIssues = [s \in SourceNames |-> sourceIssues[s]]
    /\ gathered \in Seq(Remembered) /\ candidates \in Seq(Unsealed)
    /\ seeds \in Seq(Sealed) /\ verified \in Seq(Sealed) /\ nodes \subseteq Folders
    /\ dpc # "returned" => roots \in Seq(Sealed)

(* Nothing was told to be missing.                                         *)
Clean == \A s \in SourceNames : sourceIssues[s] = {}

(* A note that nobody touched, in a directory that nobody touched.         *)
SteadyNote(i, k) ==
    /\ desk[Sources[i].name] = [kind |-> "dir", id |-> 0]
    /\ LET n == Sources[i].notes[k] IN note[n].kind = "dir" /\ note[n].id = 0 /\ note[n].doc # <<"absent">>

(* What it names is ahead of the discovery, gathered, or a candidate.      *)
NoteAhead(i, k) ==
    \/ i > turn
    \/ i = turn /\ dpc \in {"source", "list"}
    \/ i = turn /\ dpc \in {"note", "confirm"} /\ k \in notes
Carried(p, i) == p \in Paths(candidates) \/ (i = turn /\ dpc \in {"note", "confirm"} /\ p \in Paths(gathered))
(* What an untouched note says is a candidate, unless the note is still to *)
(* be read.                                                                *)
NotesOwed ==
    Clean /\ dpc # "aborted" =>
        \A i \in DOMAIN Sources : \A k \in DOMAIN Sources[i].notes : SteadyNote(i, k) =>
            NoteAhead(i, k) \/ \A p \in Range(note[Sources[i].notes[k]].doc) : Carried(p, i)

(* The link that the first look was at, and the other one.                 *)
Fore == IF link.way = "back" THEN gitdir[link.admin] = link.target ELSE gitfile[link.target] = link.admin
Aft == IF link.way = "back" THEN gitfile[link.target] = link.admin ELSE gitdir[link.admin] = link.target
ForeWrites == IF link.way = "back" THEN rewrites[link.admin] ELSE rewrites[link.target]
AftWrites == IF link.way = "back" THEN rewrites[link.target] ELSE rewrites[link.admin]

(* Each look that found its link makes the next one tell more: either both *)
(* links held at once, or one was written before, or to and fro.           *)
LinkStates ==
    [from : Folders, left : SUBSET (DOMAIN Admins \cup Folders), way : {"back", "forth"},
     admin : DOMAIN Admins \cup {None}, target : Folders \cup {None}, looks : 0..3]
(* The link at work joins a repository of the home and a folder.           *)
LinkTyped ==
    /\ link \in LinkStates
    /\ link.way = "back" => link.left \subseteq DOMAIN Admins
    /\ link.way = "forth" => link.left \subseteq Folders
(* What the looks so far tell of the two sides of the link.                *)
LooksTell ==
    /\ link.looks >= 1 => link.admin \in DOMAIN Admins /\ link.target \in Folders /\ (Fore \/ ForeWrites >= 1)
    /\ link.looks >= 2 => /\ Aft \/ AftWrites >= 1
                          /\ link.target \in agreed \/ (ForeWrites >= 1 /\ (Fore => ForeWrites >= 2))
    /\ link.looks >= 3 => link.target \in agreed \/ (ForeWrites >= 2 /\ AftWrites >= 1 /\ (Aft => AftWrites >= 2))
(* The link at work is what the looks told.                                *)
LinkHonest == link # None => LinkTyped /\ LooksTell

(* A sealed root is the file of a folder, or of one that it is in.         *)
Covers(c, p) == c.id # None /\ p \in Folders /\ \E g \in Line[p] : FileOf[c.path] = FileOf[g]

(* The roots: every candidate is on its way into them, they are apart, and *)
(* there is room for the conventional one.                                 *)
NothingYet == dpc \in Early \cup {"aborted"} => verified = <<>> /\ roots = <<>>
(* A place is verified once.                                               *)
VerifiedApart == \A i, j \in DOMAIN verified : i # j => verified[i].path # verified[j].path
(* While candidates are verified: each is verified, left to be, or told.   *)
FinalDue ==
    dpc = "final" =>
        /\ roots = <<>>
        /\ Clean => \A i \in DOMAIN candidates : i \in waiting \/ candidates[i].path \in Paths(verified)
(* While roots are looked at again: each candidate has a root, or one left *)
(* to look at, or was told.                                                *)
RootsDue ==
    dpc = "recheck" =>
        /\ Clean => \A p \in Paths(candidates) :
              (\E i \in waiting : Covers(verified[i], p)) \/ (\E j \in DOMAIN roots : Covers(roots[j], p))
        /\ \A i, j \in waiting : i # j => Apart(verified[i], verified[j])
        /\ \A i \in waiting, j \in DOMAIN roots : Apart(verified[i], roots[j])
        /\ \A i, j \in DOMAIN roots : i # j => Apart(roots[i], roots[j])
(* Those accepted and those left to look at fit into the limit.            *)
RoomLeft ==
    dpc = "recheck" =>
        /\ IsFiniteSet(waiting) /\ Len(roots) + Cardinality(waiting) <= MaxRoots
        /\ \/ Len(roots) + Cardinality(waiting) < MaxRoots
           \/ roots = <<>> /\ \E i \in waiting : verified[i].path = Conventional
           \/ roots # <<>> /\ roots[1].path = Conventional
(* In the end: every candidate has a root, the roots lie apart and are     *)
(* within the limit.                                                       *)
RootsTold ==
    dpc = "returned" =>
        /\ Len(roots) <= MaxRoots
        /\ \A i, j \in DOMAIN roots : i # j /\ roots[i].id # None /\ roots[j].id # None => Apart(roots[i], roots[j])
        /\ Clean => \A p \in Paths(candidates) : \E j \in DOMAIN roots : Covers(roots[j], p)
(* The finalization.                                                       *)
RootsInv == NothingYet /\ VerifiedApart /\ FinalDue /\ RootsDue /\ RoomLeft /\ RootsTold

(* The inductive invariant of the discovery.                               *)
DiscoveryInv == HomeTyped /\ StageTyped /\ WorkTyped /\ NotesOwed /\ LinkHonest /\ WorktreeAgreed /\ RootsInv

-----------------------------------------------------------------------------
(* What a step leaves as it is *)

(* An issue that is added to a source: no step takes one back.             *)
LEMMA IssueAdded ==
    ASSUME sourceIssues = [s \in SourceNames |-> sourceIssues[s]], NEW s \in SourceNames, NEW codes, SourceIssue(s, codes)
    PROVE  sourceIssues' = [t \in SourceNames |-> sourceIssues'[t]] /\ (Clean' => Clean /\ codes = {})
<1>1. DOMAIN sourceIssues = SourceNames
  OBVIOUS
<1>2. sourceIssues' = [t \in SourceNames |-> IF t = s THEN sourceIssues[s] \cup codes ELSE sourceIssues[t]]
  BY <1>1 DEF SourceIssue
<1>3. \A t \in SourceNames : sourceIssues'[t] = IF t = s THEN sourceIssues[s] \cup codes ELSE sourceIssues[t]
  BY <1>2
<1>4. sourceIssues' = [t \in SourceNames |-> sourceIssues'[t]]
  BY <1>2, <1>3
<1>5. Clean' => Clean /\ codes = {}
  BY <1>3 DEF Clean
<1> QED
  BY <1>4, <1>5

(* Whether something was told depends on the issues only.                  *)
LEMMA CleanSame == UNCHANGED sourceIssues => (Clean' <=> Clean)
BY DEF Clean

(* What is known of the home directory survives a step that leaves it      *)
(* alone.                                                                  *)
LEMMA HomeSame == HomeTyped /\ UNCHANGED <<home, history>> => HomeTyped'
BY DEF HomeTyped, home, history, Linked

(* What is known of the link at work survives a step that leaves it and    *)
(* the home directory alone.                                               *)
LEMMA LinkSame == LinkHonest /\ UNCHANGED <<home, history, link>> => LinkHonest'
BY DEF LinkHonest, LinkTyped, LooksTell, home, history, Fore, Aft, ForeWrites, AftWrites

(* What is known of worktrees survives a step that adds no candidate.      *)
LEMMA WorktreeSame == WorktreeAgreed /\ UNCHANGED <<history, candidates>> => WorktreeAgreed'
BY DEF WorktreeAgreed, history

(* A note that nobody touches says what it said.                           *)
LEMMA SteadySame ==
    ASSUME UNCHANGED home, NEW i, NEW k
    PROVE  SteadyNote(i, k)' <=> SteadyNote(i, k)
BY DEF SteadyNote, home

(* Before the finalization there are no roots to speak of.                 *)
LEMMA EarlyStep == NothingYet /\ dpc \in Early /\ dpc' \in Early /\ UNCHANGED <<verified, roots>> => RootsInv'
BY DEF RootsInv, NothingYet, VerifiedApart, FinalDue, RootsDue, RoomLeft, RootsTold, Early, Reading

(* Once the sources are done what they named is a candidate.               *)
LEMMA OwedLater ==
    ASSUME StageTyped, NotesOwed, UNCHANGED <<home, turn>>, Clean' => Clean, dpc \in Later, dpc' \in Later,
           Paths(candidates) \subseteq Paths(candidates')
    PROVE  NotesOwed'
<1> SUFFICES ASSUME Clean', NEW i \in DOMAIN Sources, NEW k \in DOMAIN Sources[i].notes, SteadyNote(i, k)',
                    NEW p \in Range(note[Sources[i].notes[k]].doc)
             PROVE  p \in Paths(candidates')
  BY DEF NotesOwed, Carried, home, Paths
<1>1. SteadyNote(i, k) /\ Clean /\ dpc # "aborted"
  BY SteadySame DEF Later
<1>2. i \in 1..Len(Sources) /\ turn = Len(Sources) + 1
  BY DiscoveryAssumption DEF StageTyped
<1>3. ~NoteAhead(i, k) /\ i # turn
  BY <1>2 DEF NoteAhead
<1>4. p \in Paths(candidates)
  BY <1>1, <1>3 DEF NotesOwed, Carried
<1> QED
  BY <1>4

(* A candidate more, or more of them.                                      *)
LEMMA OneMore ==
    ASSUME NEW S, NEW l \in Seq(S), NEW x \in S
    PROVE  /\ Append(l, x) \in Seq(S) /\ Len(Append(l, x)) = Len(l) + 1 /\ Append(l, x) # <<>>
           /\ DOMAIN Append(l, x) = DOMAIN l \cup {Len(l) + 1} /\ Append(l, x)[Len(l) + 1] = x
           /\ Len(l) \in Nat /\ Len(l) + 1 \notin DOMAIN l /\ DOMAIN l = 1..Len(l)
           /\ \A i \in DOMAIN l : Append(l, x)[i] = l[i] /\ l[i] \in S
           /\ Paths(Append(l, x)) = Paths(l) \cup {x.path}
<1>1. /\ Append(l, x) \in Seq(S) /\ Len(Append(l, x)) = Len(l) + 1
      /\ DOMAIN Append(l, x) = 1..(Len(l) + 1) /\ DOMAIN l = 1..Len(l)
      /\ Append(l, x)[Len(l) + 1] = x /\ Len(l) \in Nat
      /\ \A i \in DOMAIN l : Append(l, x)[i] = l[i] /\ l[i] \in S
  OBVIOUS
<1>2. DOMAIN Append(l, x) = DOMAIN l \cup {Len(l) + 1} /\ Len(l) + 1 \notin DOMAIN l
  BY <1>1
<1>3. Append(l, x) # <<>>
  <2>1. Len(<<>>) = 0
    OBVIOUS
  <2> QED
    BY <1>1, <2>1
<1>4. Paths(Append(l, x)) = Paths(l) \cup {x.path}
  BY <1>1, <1>2 DEF Paths
<1> QED
  BY <1>1, <1>2, <1>3, <1>4

(* Candidates that are appended are among those there are.                 *)
LEMMA SomeMore ==
    ASSUME NEW S, NEW l \in Seq(S), NEW m \in Seq(S)
    PROVE  /\ l \o m \in Seq(S) /\ Paths(l \o m) = Paths(l) \cup Paths(m)
           /\ \A i \in DOMAIN (l \o m) : (\E j \in DOMAIN l : (l \o m)[i] = l[j]) \/ (\E j \in DOMAIN m : (l \o m)[i] = m[j])
<1>1. /\ l \o m \in Seq(S) /\ Len(l) \in Nat /\ Len(m) \in Nat
      /\ DOMAIN l = 1..Len(l) /\ DOMAIN m = 1..Len(m) /\ DOMAIN (l \o m) = 1..(Len(l) + Len(m))
      /\ \A i \in 1..(Len(l) + Len(m)) : (l \o m)[i] = IF i <= Len(l) THEN l[i] ELSE m[i - Len(l)]
  OBVIOUS
<1>2. \A i \in DOMAIN (l \o m) : (\E j \in DOMAIN l : (l \o m)[i] = l[j]) \/ (\E j \in DOMAIN m : (l \o m)[i] = m[j])
  <2> SUFFICES ASSUME NEW i \in DOMAIN (l \o m)
               PROVE (\E j \in DOMAIN l : (l \o m)[i] = l[j]) \/ (\E j \in DOMAIN m : (l \o m)[i] = m[j])
    OBVIOUS
  <2>1. CASE i <= Len(l)
    BY <1>1, <2>1
  <2>2. CASE i > Len(l)
    <3>1. i - Len(l) \in DOMAIN m /\ (l \o m)[i] = m[i - Len(l)]
      BY <1>1, <2>2
    <3> QED
      BY <3>1
  <2> QED
    BY <1>1, <2>1, <2>2
<1>3. \A j \in DOMAIN l : \E i \in DOMAIN (l \o m) : (l \o m)[i] = l[j]
  BY <1>1
<1>4. \A j \in DOMAIN m : \E i \in DOMAIN (l \o m) : (l \o m)[i] = m[j]
  <2> SUFFICES ASSUME NEW j \in DOMAIN m PROVE \E i \in DOMAIN (l \o m) : (l \o m)[i] = m[j]
    OBVIOUS
  <2>1. j + Len(l) \in DOMAIN (l \o m) /\ ~(j + Len(l) <= Len(l)) /\ (j + Len(l)) - Len(l) = j
    BY <1>1
  <2>2. (l \o m)[j + Len(l)] = m[j]
    BY <1>1, <2>1
  <2> QED
    BY <2>1, <2>2
<1>5. Paths(l \o m) = Paths(l) \cup Paths(m)
  <2>1. ASSUME NEW p \in Paths(l \o m) PROVE p \in Paths(l) \cup Paths(m)
    BY <1>2, <2>1 DEF Paths
  <2>2. ASSUME NEW p \in Paths(l) PROVE p \in Paths(l \o m)
    BY <1>3, <2>2 DEF Paths
  <2>3. ASSUME NEW p \in Paths(m) PROVE p \in Paths(l \o m)
    BY <1>4, <2>3 DEF Paths
  <2> QED
    BY <2>1, <2>2, <2>3
<1> QED
  BY <1>1, <1>2, <1>5

(* What is seen of a folder is its identity.                               *)
LEMMA IdentityOK ==
    ASSUME HomeTyped, NEW f \in Folders
    PROVE  Identity(f) \in Identities /\ Identity(f)[1] = FileOf[f]
<1>1. FileOf[f] \in Files /\ place[FileOf[f]].id \in 0..MaxMoves
  BY DiscoveryAssumption DEF HomeTyped
<1> QED
  BY <1>1 DEF Identity, Identities

(* A candidate that can be opened is a folder.                             *)
LEMMA CodeMeans ==
    ASSUME NEW p, Code(p) = None
    PROVE  p \in Folders /\ OpenCode(p) = None
<1>1. "outside_home" # None
  BY DiscoveryAssumption DEF Refusals
<1> QED
  BY <1>1 DEF Code

(* The source at work, and its name.                                       *)
LEMMA AtWork ==
    ASSUME StageTyped, turn <= Len(Sources)
    PROVE  /\ turn \in DOMAIN Sources /\ Source \in Catalog /\ Source = Sources[turn] /\ Source.name \in SourceNames
           /\ Source.name \in {s.name : s \in Catalog} /\ Source.name # Git /\ Source.notes \in Seq(Notes)
           /\ Source.kind \in {"vscode", "jetbrains"}
<1>1. turn \in DOMAIN Sources /\ Sources \in Seq(Catalog)
  BY DiscoveryAssumption DEF StageTyped
<1>2. Sources[turn] \in Catalog
  BY <1>1
<1> QED
  BY <1>1, <1>2, DiscoveryAssumption DEF Source, SourceNames

-----------------------------------------------------------------------------
(* The metadata of the editors *)

(* A source that is not there or cannot be opened has no note that nobody  *)
(* touched.                                                                *)
LEMMA OpenSourceStep == ASSUME DiscoveryInv, OpenSource PROVE DiscoveryInv'
<1>0. desk[Source.name].kind \in {"none", "dir", "link", "locked"}
  <2>1. Source.name \in {s.name : s \in Catalog}
    BY AtWork DEF OpenSource, DiscoveryInv
  <2> QED
    BY <2>1 DEF DiscoveryInv, HomeTyped
<1>1. /\ dpc = "source" /\ turn <= Len(Sources) /\ turn \in Nat /\ Len(Sources) \in Nat
      /\ UNCHANGED <<home, notes, candidates, gitWalk, history, finalization>>
      /\ \/ dpc' = "source" /\ turn' = turn + 1 /\ desk[Source.name].kind # "dir" /\ UNCHANGED <<at, gathered>>
         \/ dpc' = "list" /\ turn' = turn /\ gathered' = <<>> /\ at' = [source |-> desk[Source.name].id, note |-> None, seen |-> None]
  <2>1. dpc = "source" /\ turn <= Len(Sources) /\ UNCHANGED <<home, notes, candidates, gitWalk, history, finalization>>
    BY DEF OpenSource
  <2>2. turn \in Nat /\ Len(Sources) \in Nat
    BY DiscoveryAssumption DEF DiscoveryInv, StageTyped
  <2>3. \/ dpc' = "source" /\ turn' = turn + 1 /\ desk[Source.name].kind # "dir" /\ UNCHANGED <<at, gathered>>
        \/ dpc' = "list" /\ turn' = turn /\ gathered' = <<>> /\ at' = [source |-> desk[Source.name].id, note |-> None, seen |-> None]
    BY <1>0 DEF OpenSource
  <2> QED
    BY <2>1, <2>2, <2>3
<1>2. /\ Source \in Catalog /\ Source = Sources[turn] /\ Source.name \in SourceNames
      /\ present' \subseteq SourceNames
      /\ sourceIssues' = sourceIssues \/ \E codes : SourceIssue(Source.name, codes)
  <2>1. Source \in Catalog /\ Source = Sources[turn] /\ Source.name \in SourceNames
    BY <1>1, AtWork DEF DiscoveryInv
  <2>2. present' \subseteq SourceNames
    BY <1>0, <2>1 DEF OpenSource, DiscoveryInv, WorkTyped
  <2>3. sourceIssues' = sourceIssues \/ \E codes : SourceIssue(Source.name, codes)
    BY <1>0 DEF OpenSource
  <2> QED
    BY <2>1, <2>2, <2>3
<1>3. sourceIssues' = [s \in SourceNames |-> sourceIssues'[s]] /\ (Clean' => Clean)
  BY <1>2, IssueAdded, CleanSame DEF DiscoveryInv, WorkTyped
<1>4. HomeTyped' /\ LinkHonest' /\ WorktreeAgreed' /\ RootsInv'
  <2>1. UNCHANGED link /\ UNCHANGED <<verified, roots>>
    BY <1>1 DEF gitWalk, finalization
  <2> QED
    BY <1>1, <2>1, HomeSame, LinkSame, WorktreeSame, EarlyStep DEF DiscoveryInv, RootsInv, Early, Reading
<1>5. StageTyped'
  BY <1>1 DEF DiscoveryInv, StageTyped, Reading, Later
<1>6. WorkTyped'
  <2>1. <<>> \in Seq(Remembered)
    OBVIOUS
  <2> QED
    BY <1>1, <1>2, <1>3, <2>1 DEF DiscoveryInv, WorkTyped, gitWalk, finalization
<1>7. NotesOwed'
  <2> SUFFICES ASSUME Clean', NEW i \in DOMAIN Sources, NEW k \in DOMAIN Sources[i].notes, SteadyNote(i, k)', ~NoteAhead(i, k)',
                      NEW p \in Range(note'[Sources[i].notes[k]].doc)
               PROVE  Carried(p, i)'
    BY DEF NotesOwed
  <2>1. SteadyNote(i, k) /\ Clean /\ note' = note /\ candidates' = candidates
    BY <1>1, <1>3, SteadySame DEF home
  <2>2. i \in Nat /\ i # turn /\ ~(i > turn)
    <3>1. i \in Nat
      BY DiscoveryAssumption
    <3>2. i = turn => dpc' = "list" /\ turn' = turn
      BY <1>1, <1>2, <2>1 DEF SteadyNote
    <3> QED
      BY <1>1, <3>1, <3>2 DEF NoteAhead
  <2>3. ~NoteAhead(i, k)
    BY <2>2 DEF NoteAhead
  <2>4. Carried(p, i)
    BY <1>1, <2>1, <2>3 DEF DiscoveryInv, NotesOwed
  <2> QED
    BY <1>1, <2>1, <2>2, <2>4 DEF Carried
<1> QED
  BY <1>4, <1>5, <1>6, <1>7 DEF DiscoveryInv

(* What is left out of the list is told.                                   *)
LEMMA ListSourceStep == ASSUME DiscoveryInv, ListSource PROVE DiscoveryInv'
<1>1. /\ dpc = "list" /\ dpc' = "note" /\ turn <= Len(Sources) /\ turn \in Nat
      /\ UNCHANGED <<home, turn, at, gathered, candidates, present, gitWalk, history, finalization>>
      /\ notes' \subseteq DOMAIN Source.notes
      /\ \E codes : SourceIssue(Source.name, codes) /\ (codes = {} => notes' = ListedNotes)
  <2>1. dpc = "list" /\ turn <= Len(Sources) /\ turn \in Nat
    BY DEF ListSource, DiscoveryInv, StageTyped, Reading
  <2> QED
    BY <2>1 DEF ListSource, ListedNotes, FirstListed
<1>2. Source = Sources[turn] /\ Source.name \in SourceNames
  BY <1>1, AtWork DEF DiscoveryInv
<1>3. sourceIssues' = [s \in SourceNames |-> sourceIssues'[s]] /\ (Clean' => Clean /\ notes' = ListedNotes)
  BY <1>1, <1>2, IssueAdded DEF DiscoveryInv, WorkTyped
<1>4. HomeTyped' /\ LinkHonest' /\ WorktreeAgreed' /\ RootsInv'
  <2>1. UNCHANGED link /\ UNCHANGED <<verified, roots>>
    BY <1>1 DEF gitWalk, finalization
  <2> QED
    BY <1>1, <2>1, HomeSame, LinkSame, WorktreeSame, EarlyStep DEF DiscoveryInv, RootsInv, Early, Reading
<1>5. StageTyped'
  BY <1>1, <1>2 DEF DiscoveryInv, StageTyped, Reading, Later, Source
<1>6. WorkTyped'
  BY <1>1, <1>3 DEF DiscoveryInv, WorkTyped, gitWalk, finalization
<1>7. NotesOwed'
  <2> SUFFICES ASSUME Clean', NEW i \in DOMAIN Sources, NEW k \in DOMAIN Sources[i].notes, SteadyNote(i, k)', ~NoteAhead(i, k)',
                      NEW p \in Range(note'[Sources[i].notes[k]].doc)
               PROVE  Carried(p, i)'
    BY DEF NotesOwed
  <2>1. SteadyNote(i, k) /\ Clean /\ note' = note /\ candidates' = candidates /\ notes' = ListedNotes
    BY <1>1, <1>3, SteadySame DEF home
  <2>2. i # turn
    <3>1. i = turn => k \in ListedNotes
      BY <1>2, <2>1 DEF SteadyNote, ListedNotes
    <3> QED
      BY <1>1, <2>1, <3>1 DEF NoteAhead
  <2>3. ~NoteAhead(i, k)
    BY <1>1, <2>2 DEF NoteAhead
  <2>4. Carried(p, i)
    BY <1>1, <2>1, <2>3 DEF DiscoveryInv, NotesOwed
  <2> QED
    BY <1>1, <2>1, <2>2, <2>4 DEF Carried
<1> QED
  BY <1>4, <1>5, <1>6, <1>7 DEF DiscoveryInv

(* A note that is not read was touched, or the reason is told.             *)
LEMMA ReadNoteStep == ASSUME DiscoveryInv, ReadNote PROVE DiscoveryInv'
<1>1. PICK k \in notes :
        \/ /\ dpc' = "confirm" /\ UNCHANGED <<notes, sourceIssues>>
           /\ at' = [at EXCEPT !.note = k, !.seen = note[Source.notes[k]]]
        \/ /\ notes' = notes \ {k} /\ UNCHANGED <<dpc, at>>
           /\ \E codes : /\ SourceIssue(Source.name, codes)
                         /\ codes = {} => note[Source.notes[k]].kind # "dir" \/ note[Source.notes[k]].doc = <<"absent">>
  BY Zenon DEF ReadNote
<1>2. /\ dpc = "note" /\ turn <= Len(Sources) /\ turn \in Nat
      /\ UNCHANGED <<home, turn, gathered, candidates, present, gitWalk, history, finalization>>
  <2>1. dpc = "note" /\ UNCHANGED <<home, turn, gathered, candidates, present, gitWalk, history, finalization>>
    BY Zenon DEF ReadNote
  <2> QED
    BY <2>1 DEF DiscoveryInv, StageTyped, Reading
<1>3. Source = Sources[turn] /\ Source.name \in SourceNames /\ Source.notes \in Seq(Notes) /\ k \in DOMAIN Source.notes
  BY <1>2, AtWork DEF DiscoveryInv, StageTyped
<1>4. note[Source.notes[k]] \in NoteStates
  <2>1. Source.notes[k] \in Notes
    BY <1>3
  <2> QED
    BY <2>1 DEF DiscoveryInv, HomeTyped
<1>5. /\ sourceIssues' = [s \in SourceNames |-> sourceIssues'[s]]
      /\ Clean' => /\ Clean
                   /\ \/ notes' = notes
                      \/ notes' = notes \ {k} /\ (note[Source.notes[k]].kind # "dir" \/ note[Source.notes[k]].doc = <<"absent">>)
  <2>1. CASE UNCHANGED <<notes, sourceIssues>>
    BY <2>1, CleanSame DEF DiscoveryInv, WorkTyped
  <2>2. CASE /\ notes' = notes \ {k} /\ UNCHANGED <<dpc, at>>
             /\ \E codes : /\ SourceIssue(Source.name, codes)
                           /\ codes = {} => note[Source.notes[k]].kind # "dir" \/ note[Source.notes[k]].doc = <<"absent">>
    BY <1>3, <2>2, IssueAdded DEF DiscoveryInv, WorkTyped
  <2> QED
    BY <1>1, <2>1, <2>2
<1>6. HomeTyped' /\ LinkHonest' /\ WorktreeAgreed' /\ RootsInv'
  <2>1. UNCHANGED link /\ UNCHANGED <<verified, roots>> /\ dpc' \in {"note", "confirm"}
    BY <1>1, <1>2 DEF gitWalk, finalization
  <2> QED
    BY <1>2, <2>1, HomeSame, LinkSame, WorktreeSame, EarlyStep DEF DiscoveryInv, RootsInv, Early, Reading
<1>7. StageTyped'
  <2>1. at = [source |-> at.source, note |-> at.note, seen |-> at.seen]
    BY DEF DiscoveryInv, StageTyped
  <2>2. at' = at \/ at' = [source |-> at.source, note |-> k, seen |-> note[Source.notes[k]]]
    BY <1>1, <2>1
  <2>3. /\ at' = [source |-> at'.source, note |-> at'.note, seen |-> at'.seen]
        /\ dpc' = "confirm" => at'.note \in notes' /\ at'.seen \in NoteStates
    BY <1>1, <1>2, <1>4, <2>1, <2>2
  <2>4. dpc' \in {"note", "confirm"} /\ notes' \subseteq DOMAIN Source.notes /\ Source' = Source
    BY <1>1, <1>2 DEF DiscoveryInv, StageTyped, Source
  <2> QED
    BY <1>2, <2>3, <2>4 DEF DiscoveryInv, StageTyped, Reading, Later
<1>8. WorkTyped'
  <2>1. dpc \in {"note", "confirm"} /\ dpc' \in {"note", "confirm"}
    BY <1>1, <1>2
  <2> QED
    BY <1>2, <1>5, <2>1 DEF DiscoveryInv, WorkTyped, gitWalk, finalization
<1>9. NotesOwed'
  <2> SUFFICES ASSUME Clean', NEW i \in DOMAIN Sources, NEW l \in DOMAIN Sources[i].notes, SteadyNote(i, l)', ~NoteAhead(i, l)',
                      NEW p \in Range(note'[Sources[i].notes[l]].doc)
               PROVE  Carried(p, i)'
    BY DEF NotesOwed
  <2>1. SteadyNote(i, l) /\ Clean /\ note' = note /\ candidates' = candidates /\ gathered' = gathered /\ dpc' \in {"note", "confirm"}
    BY <1>1, <1>2, <1>5, SteadySame DEF home
  <2>2. ~(i = turn /\ l = k /\ notes' # notes)
    BY <1>3, <1>5, <2>1 DEF SteadyNote
  <2>3. ~NoteAhead(i, l)
    BY <1>1, <1>2, <2>1, <2>2 DEF NoteAhead
  <2>4. Carried(p, i)
    BY <1>2, <2>1, <2>3 DEF DiscoveryInv, NotesOwed
  <2> QED
    BY <1>2, <2>1, <2>4 DEF Carried
<1> QED
  BY <1>6, <1>7, <1>8, <1>9 DEF DiscoveryInv

(* The candidates that paths name.                                         *)
LEMMA CandidatesOf ==
    ASSUME NEW ps \in Seq(Wordings), NEW s \in SourceNames, NEW n \in 0..5, s # Git
    PROVE  LET cs == [i \in DOMAIN ps |-> Candidate(ps[i], s, n, None)]
           IN  cs \in Seq(Remembered) /\ Paths(cs) = Range(ps)
<1> DEFINE cs == [i \in DOMAIN ps |-> Candidate(ps[i], s, n, None)]
<1>1. \A i \in DOMAIN ps : Candidate(ps[i], s, n, None) \in Remembered
  BY DEF Candidate, Remembered, Unsealed
<1>2. Len(ps) \in Nat /\ DOMAIN ps = 1..Len(ps)
  OBVIOUS
<1>3. cs \in [1..Len(ps) -> Remembered]
  BY <1>1, <1>2
<1>4. cs \in Seq(Remembered)
  BY <1>2, <1>3
<1>5. Paths(cs) = Range(ps)
  BY DEF Paths, Range, Candidate
<1> QED
  BY <1>4, <1>5

(* Metadata that is read without a complaint names all its paths; a        *)
(* workspace has one.                                                      *)
LEMMA ParsedAll ==
    ASSUME NEW doc \in Seq(Wordings)
    PROVE  /\ ReadVSCode(doc).paths \in Seq(Wordings) /\ ReadJetBrains(doc).paths \in Seq(Wordings)
           /\ ReadVSCode(doc).code = None /\ Len(doc) <= 1 => ReadVSCode(doc).paths = doc
           /\ ReadJetBrains(doc).code = None => ReadJetBrains(doc).paths = doc
<1>1. "remote_unsupported" # None /\ "metadata_malformed" # None
  BY DiscoveryAssumption DEF Refusals
<1>2. Len(doc) \in Nat /\ (doc # <<>> => Len(doc) # 0 /\ doc[1] \in Wordings) /\ (doc # <<>> /\ Len(doc) <= 1 => doc = <<doc[1]>>)
  <2>1. Len(doc) \in Nat /\ (doc # <<>> => Len(doc) # 0 /\ doc[1] \in Wordings)
    <3>1. Len(doc) \in Nat /\ (doc # <<>> => Len(doc) \in Nat \ {0})
      BY LenProperties, EmptySeq
    <3>2. doc # <<>> => 1 \in 1..Len(doc)
      BY <3>1
    <3>3. doc # <<>> => doc[1] \in Wordings
      BY <3>2, ElementOfSeq
    <3> QED
      BY <3>1, <3>3
  <2>2. ASSUME doc # <<>>, Len(doc) <= 1 PROVE doc = <<doc[1]>>
    <3>1. Len(doc) \in Nat /\ Len(doc) # 0 /\ Len(doc) <= 1 /\ doc[1] \in Wordings
      BY <2>1, <2>2, Zenon
    <3> DEFINE n == Len(doc)
    <3>2. n \in Nat /\ n # 0 /\ n <= 1
      BY <3>1, Zenon
    <3> HIDE DEF n
    <3>3. n = 1
      BY <3>2
    <3>4. Len(doc) = 1 /\ doc[1] \in Wordings
      BY <3>1, <3>3, Zenon DEF n
    <3> DEFINE one == <<doc[1]>>
    <3>5. one \in Seq(Wordings) /\ Len(one) = 1 /\ one[1] = doc[1]
      BY <3>4
    <3> HIDE DEF one
    <3>6. \A i \in 1..Len(doc) : doc[i] = one[i]
      BY <3>4, <3>5
    <3>7. doc = one
      BY <3>4, <3>5, <3>6, SeqEqual
    <3> QED
      BY <3>7 DEF one
  <2> QED
    BY <2>1, <2>2
<1>3. <<>> \in Seq(Wordings) /\ (doc # <<>> => <<doc[1]>> \in Seq(Wordings))
  BY <1>2
<1>4. \/ ReadVSCode(doc) = [paths |-> <<>>, code |-> "remote_unsupported"]
      \/ ReadVSCode(doc) = [paths |-> <<>>, code |-> "metadata_malformed"]
      \/ doc # <<>> /\ ReadVSCode(doc) = [paths |-> <<doc[1]>>, code |-> None]
  BY DEF ReadVSCode
<1>5. \/ ReadJetBrains(doc) = [paths |-> <<>>, code |-> "metadata_malformed"]
      \/ ReadJetBrains(doc) = [paths |-> doc, code |-> None]
  BY DEF ReadJetBrains
<1> DEFINE one == <<doc[1]>>
           none == <<>>
<1>6. /\ none \in Seq(Wordings) /\ (doc # <<>> => one \in Seq(Wordings)) /\ (doc # <<>> /\ Len(doc) <= 1 => doc = one)
      /\ \/ ReadVSCode(doc) = [paths |-> none, code |-> "remote_unsupported"]
         \/ ReadVSCode(doc) = [paths |-> none, code |-> "metadata_malformed"]
         \/ doc # <<>> /\ ReadVSCode(doc) = [paths |-> one, code |-> None]
      /\ \/ ReadJetBrains(doc) = [paths |-> none, code |-> "metadata_malformed"]
         \/ ReadJetBrains(doc) = [paths |-> doc, code |-> None]
  <2>1. doc # <<>> /\ Len(doc) <= 1 => doc = one
    BY <1>2, Zenon
  <2>2. none \in Seq(Wordings) /\ (doc # <<>> => one \in Seq(Wordings))
    BY <1>3, Zenon
  <2> QED
    BY <1>4, <1>5, <2>1, <2>2, Zenon
<1> HIDE DEF one, none
<1>7. ReadVSCode(doc).paths \in Seq(Wordings) /\ ReadJetBrains(doc).paths \in Seq(Wordings)
  BY <1>6
<1>8. ReadVSCode(doc).code = None /\ Len(doc) <= 1 => ReadVSCode(doc).paths = doc
  BY <1>1, <1>6
<1>9. ReadJetBrains(doc).code = None => ReadJetBrains(doc).paths = doc
  BY <1>1, <1>6
<1> QED
  BY <1>7, <1>8, <1>9

(* A note that nobody touched is confirmed, and all it names is gathered.  *)
LEMMA ConfirmNoteStep == ASSUME DiscoveryInv, ConfirmNote PROVE DiscoveryInv'
<1> DEFINE k == at.note
           doc == at.seen.doc
           stated == IF Source.kind = "vscode" THEN ReadVSCode(doc) ELSE ReadJetBrains(doc)
           cs == [i \in DOMAIN stated.paths |-> Candidate(stated.paths[i], Source.name, turn, None)]
<1>1. /\ dpc = "confirm" /\ dpc' = "note" /\ notes' = notes \ {k}
      /\ UNCHANGED <<home, turn, at, candidates, present, gitWalk, history, finalization>>
      /\ IF note[Source.notes[k]] = at.seen /\ desk[Source.name] = [kind |-> "dir", id |-> at.source]
         THEN gathered' = gathered \o cs /\ SourceIssue(Source.name, IF stated.code = None THEN {} ELSE {stated.code})
         ELSE SourceIssue(Source.name, {"identity_changed"}) /\ UNCHANGED gathered
  BY Zenon DEF ConfirmNote
<1>2. /\ turn \in 1..Len(Sources) /\ k \in notes /\ at.seen \in NoteStates /\ Source = Sources[turn]
      /\ Source.name \in SourceNames /\ Source.name # Git /\ turn \in 0..5 /\ k \in DOMAIN Source.notes
  <2>1. turn \in 1..Len(Sources) /\ k \in notes /\ at.seen \in NoteStates /\ k \in DOMAIN Source.notes
    BY <1>1, DiscoveryAssumption DEF DiscoveryInv, StageTyped, Reading
  <2>2. Source = Sources[turn] /\ Source.name \in SourceNames /\ Source.name # Git
    BY <2>1, AtWork DEF DiscoveryInv
  <2>3. turn \in 0..5
    BY <2>1, DiscoveryAssumption
  <2> QED
    BY <2>1, <2>2, <2>3
<1>3. doc \in Seq(Wordings) /\ stated.paths \in Seq(Wordings)
  <2>1. doc \in Seq(Wordings)
    BY <1>2 DEF NoteStates
  <2> QED
    BY <2>1, ParsedAll
<1>4. cs \in Seq(Remembered) /\ Paths(cs) = Range(stated.paths)
  <2> HIDE DEF stated
  <2> QED
    BY <1>2, <1>3, CandidatesOf
<1>5. gathered \in Seq(Remembered)
  BY DEF DiscoveryInv, WorkTyped
<1>6. gathered \o cs \in Seq(Remembered) /\ Paths(gathered \o cs) = Paths(gathered) \cup Paths(cs)
  <2> HIDE DEF cs
  <2> QED
    BY <1>4, <1>5, SomeMore
<1>7. /\ sourceIssues' = [s \in SourceNames |-> sourceIssues'[s]]
      /\ Clean' => Clean /\ gathered' = gathered \o cs /\ note[Source.notes[k]] = at.seen /\ stated.code = None
  <2>1. PICK codes : /\ SourceIssue(Source.name, codes)
                     /\ codes = {} => gathered' = gathered \o cs /\ note[Source.notes[k]] = at.seen /\ stated.code = None
    <3> HIDE DEF stated, cs, k
    <3> QED
      BY <1>1
  <2>2. sourceIssues = [s \in SourceNames |-> sourceIssues[s]]
    BY DEF DiscoveryInv, WorkTyped
  <2> QED
    BY <1>2, <2>1, <2>2, IssueAdded
<1>8. gathered' \in Seq(Remembered)
  BY <1>1, <1>5, <1>6
<1>9. HomeTyped' /\ LinkHonest' /\ WorktreeAgreed' /\ RootsInv'
  <2>1. UNCHANGED link /\ UNCHANGED <<verified, roots>>
    BY <1>1 DEF gitWalk, finalization
  <2> QED
    BY <1>1, <2>1, HomeSame, LinkSame, WorktreeSame, EarlyStep DEF DiscoveryInv, RootsInv, Early, Reading
<1> HIDE DEF cs, stated
<1>10. StageTyped'
  BY <1>1, <1>2 DEF DiscoveryInv, StageTyped, Reading, Later, Source
<1>11. WorkTyped'
  BY <1>1, <1>7, <1>8 DEF DiscoveryInv, WorkTyped, gitWalk, finalization
<1>12. NotesOwed'
  <2> SUFFICES ASSUME Clean', NEW i \in DOMAIN Sources, NEW l \in DOMAIN Sources[i].notes, SteadyNote(i, l)', ~NoteAhead(i, l)',
                      NEW p \in Range(note'[Sources[i].notes[l]].doc)
               PROVE  Carried(p, i)'
    BY DEF NotesOwed
  <2>1. SteadyNote(i, l) /\ note' = note /\ candidates' = candidates /\ gathered' = gathered \o cs
    BY <1>1, <1>7, SteadySame DEF home
  <2>2. CASE i = turn /\ l = k
    <3>1. note[Source.notes[k]] = at.seen /\ note[Source.notes[k]].id = 0
      BY <1>2, <1>7, <2>1, <2>2 DEF SteadyNote
    <3>2. Source.kind = "vscode" => Len(doc) <= 1
      <4>1. Source \in Catalog /\ Source.notes[k] \in Range(Source.notes)
        BY <1>2, AtWork DEF DiscoveryInv, Range
      <4> QED
        BY <3>1, <4>1 DEF DiscoveryInv, HomeTyped
    <3>3. stated.paths = doc
      BY <1>3, <1>7, <3>2, ParsedAll DEF stated
    <3>4. p \in Paths(cs)
      BY <1>2, <1>4, <2>1, <2>2, <3>1, <3>3
    <3> QED
      BY <1>1, <1>6, <2>1, <2>2, <3>4 DEF Carried
  <2>3. CASE ~(i = turn /\ l = k)
    <3>1. ~NoteAhead(i, l)
      BY <1>1, <2>3 DEF NoteAhead
    <3>2. Carried(p, i)
      BY <1>1, <1>7, <2>1, <3>1 DEF DiscoveryInv, NotesOwed
    <3> QED
      BY <1>1, <1>6, <2>1, <3>2 DEF Carried
  <2> QED
    BY <2>2, <2>3
<1> QED
  BY <1>9, <1>10, <1>11, <1>12 DEF DiscoveryInv

(* All that is gathered becomes a candidate, or the source is told of.     *)
LEMMA CloseSourceStep == ASSUME DiscoveryInv, CloseSource PROVE DiscoveryInv'
<1>1. /\ dpc = "note" /\ notes = {} /\ turn' = turn + 1 /\ dpc' = "source" /\ gathered' = <<>>
      /\ UNCHANGED <<home, notes, at, present, gitWalk, history, finalization>>
      /\ \/ candidates' = candidates \o gathered /\ UNCHANGED sourceIssues
         \/ SourceIssue(Source.name, {"identity_changed"}) /\ UNCHANGED candidates
  BY DEF CloseSource
<1>2. turn \in 1..Len(Sources) /\ Source = Sources[turn] /\ Source.name \in SourceNames /\ Len(Sources) \in Nat
  <2>1. turn \in 1..Len(Sources) /\ Len(Sources) \in Nat
    BY <1>1, DiscoveryAssumption DEF DiscoveryInv, StageTyped, Reading
  <2> QED
    BY <2>1, AtWork DEF DiscoveryInv
<1>3. /\ sourceIssues' = [s \in SourceNames |-> sourceIssues'[s]]
      /\ Clean' => Clean /\ candidates' = candidates \o gathered
  BY <1>1, <1>2, IssueAdded, CleanSame DEF DiscoveryInv, WorkTyped
<1>4. candidates \in Seq(Unsealed) /\ gathered \in Seq(Unsealed) /\ \A i \in DOMAIN gathered : gathered[i].source # Git
  <2>1. gathered \in Seq(Remembered) /\ Remembered \subseteq Unsealed /\ candidates \in Seq(Unsealed)
    BY DEF DiscoveryInv, WorkTyped, Remembered
  <2>2. \A i \in DOMAIN gathered : gathered[i] \in Remembered
    BY <2>1
  <2> QED
    BY <2>1, <2>2 DEF Remembered
<1>5. /\ candidates \o gathered \in Seq(Unsealed) /\ Paths(candidates \o gathered) = Paths(candidates) \cup Paths(gathered)
      /\ \A i \in DOMAIN (candidates \o gathered) :
            \/ \E j \in DOMAIN candidates : (candidates \o gathered)[i] = candidates[j]
            \/ \E j \in DOMAIN gathered : (candidates \o gathered)[i] = gathered[j]
  BY <1>4, SomeMore
<1>6. candidates' \in Seq(Unsealed)
  BY <1>1, <1>4, <1>5
<1>7. WorktreeAgreed'
  <2>1. agreed' = agreed /\ rewrites' = rewrites
    BY <1>1 DEF history
  <2> SUFFICES ASSUME NEW i \in DOMAIN candidates', candidates'[i].source = Git, candidates'[i].priority = 5
               PROVE  \/ candidates'[i].path \in agreed
                      \/ rewrites[candidates'[i].path] >= 2 /\ \E a \in DOMAIN Admins : rewrites[a] >= 2
    BY <2>1 DEF WorktreeAgreed
  <2>2. \E j \in DOMAIN candidates : candidates'[i] = candidates[j]
    BY <1>1, <1>4, <1>5
  <2> QED
    BY <2>2 DEF DiscoveryInv, WorktreeAgreed
<1>8. HomeTyped' /\ LinkHonest' /\ RootsInv'
  <2>1. UNCHANGED link /\ UNCHANGED <<verified, roots>>
    BY <1>1 DEF gitWalk, finalization
  <2> QED
    BY <1>1, <2>1, HomeSame, LinkSame, EarlyStep DEF DiscoveryInv, RootsInv, Early, Reading
<1>9. StageTyped'
  BY <1>1, <1>2 DEF DiscoveryInv, StageTyped, Reading, Later
<1>10. WorkTyped'
  <2>1. <<>> \in Seq(Remembered)
    OBVIOUS
  <2> QED
    BY <1>1, <1>3, <1>6, <2>1 DEF DiscoveryInv, WorkTyped, gitWalk, finalization
<1>11. NotesOwed'
  <2> SUFFICES ASSUME Clean', NEW i \in DOMAIN Sources, NEW l \in DOMAIN Sources[i].notes, SteadyNote(i, l)', ~NoteAhead(i, l)',
                      NEW p \in Range(note'[Sources[i].notes[l]].doc)
               PROVE  Carried(p, i)'
    BY DEF NotesOwed
  <2>1. SteadyNote(i, l) /\ note' = note /\ candidates' = candidates \o gathered /\ Clean
    BY <1>1, <1>3, SteadySame DEF home
  <2>2. i \in Nat
    BY DiscoveryAssumption
  <2>3. ~NoteAhead(i, l)
    BY <1>1, <1>2, <2>2 DEF NoteAhead
  <2>4. Carried(p, i)
    BY <1>1, <2>1, <2>3 DEF DiscoveryInv, NotesOwed
  <2> QED
    BY <1>5, <2>1, <2>4 DEF Carried
<1> QED
  BY <1>7, <1>8, <1>9, <1>10, <1>11 DEF DiscoveryInv

(* BeginSeeds keeps the invariant.                                         *)
LEMMA BeginSeedsStep == ASSUME DiscoveryInv, BeginSeeds PROVE DiscoveryInv'
<1>1. /\ dpc = "source" /\ dpc' = "seeds" /\ turn = Len(Sources) + 1 /\ Len(Sources) \in Nat /\ waiting' = DOMAIN candidates
      /\ UNCHANGED <<home, turn, notes, at, gathered, candidates, sourceIssues, present, gitWalk, history, verified, roots>>
  BY DiscoveryAssumption DEF BeginSeeds, DiscoveryInv, StageTyped
<1>2. HomeTyped' /\ LinkHonest' /\ WorktreeAgreed' /\ RootsInv'
  <2>1. UNCHANGED link
    BY <1>1 DEF gitWalk
  <2> QED
    BY <1>1, <2>1, HomeSame, LinkSame, WorktreeSame, EarlyStep DEF DiscoveryInv, RootsInv, Early, Reading
<1>3. StageTyped'
  BY <1>1 DEF DiscoveryInv, StageTyped, Reading, Later
<1>4. WorkTyped'
  BY <1>1 DEF DiscoveryInv, WorkTyped, gitWalk
<1>5. NotesOwed'
  <2> SUFFICES ASSUME Clean', NEW i \in DOMAIN Sources, NEW l \in DOMAIN Sources[i].notes, SteadyNote(i, l)', ~NoteAhead(i, l)',
                      NEW p \in Range(note'[Sources[i].notes[l]].doc)
               PROVE  Carried(p, i)'
    BY DEF NotesOwed
  <2>1. SteadyNote(i, l) /\ Clean /\ note' = note /\ candidates' = candidates
    BY <1>1, SteadySame, CleanSame DEF home
  <2>2. i \in 1..Len(Sources)
    BY DiscoveryAssumption
  <2>3. ~NoteAhead(i, l)
    BY <1>1, <2>2 DEF NoteAhead
  <2>4. Carried(p, i)
    BY <1>1, <2>1, <2>3 DEF DiscoveryInv, NotesOwed
  <2> QED
    BY <1>1, <2>1, <2>4 DEF Carried
<1> QED
  BY <1>2, <1>3, <1>4, <1>5 DEF DiscoveryInv

-----------------------------------------------------------------------------
(* The seeds and the walk for worktrees *)

(* The repositories are a source of their own.                             *)
LEMMA GitWord == Git \in SourceNames
BY DEF SourceNames

(* A step of the walk touches neither the home directory nor the roots.    *)
LEMMA WalkFrame ==
    ASSUME DiscoveryInv, dpc \in {"seeds", "git"}, dpc' \in {"seeds", "git"},
           UNCHANGED <<home, turn, notes, at, gathered, history, verified, roots>>,
           Paths(candidates) \subseteq Paths(candidates'),
           sourceIssues' = sourceIssues \/ \E codes : SourceIssue(Git, codes)
    PROVE  /\ HomeTyped' /\ NotesOwed' /\ RootsInv'
           /\ sourceIssues' = [s \in SourceNames |-> sourceIssues'[s]]
           /\ (dpc' = "seeds" => waiting' \subseteq DOMAIN candidates') => StageTyped'
           /\ /\ present' \subseteq SourceNames /\ nodes' \subseteq Folders
              /\ candidates' \in Seq(Unsealed) /\ seeds' \in Seq(Sealed)
              => WorkTyped'
<1>1. sourceIssues' = [s \in SourceNames |-> sourceIssues'[s]] /\ (Clean' => Clean)
  BY GitWord, IssueAdded, CleanSame DEF DiscoveryInv, WorkTyped
<1>2. HomeTyped' /\ RootsInv'
  BY HomeSame, EarlyStep DEF DiscoveryInv, RootsInv, Early
<1>3. NotesOwed'
  BY <1>1, OwedLater DEF DiscoveryInv, Later
<1>4. (dpc' = "seeds" => waiting' \subseteq DOMAIN candidates') => StageTyped'
  BY DEF DiscoveryInv, StageTyped, Reading, Later
<1>5. /\ present' \subseteq SourceNames /\ nodes' \subseteq Folders
      /\ candidates' \in Seq(Unsealed) /\ seeds' \in Seq(Sealed)
      => WorkTyped'
  BY <1>1 DEF DiscoveryInv, WorkTyped
<1> QED
  BY <1>1, <1>2, <1>3, <1>4, <1>5

(* A candidate that was opened, with the identity that was seen.           *)
LEMMA SealOK ==
    ASSUME HomeTyped, NEW c \in Unsealed, c.path \in Folders
    PROVE  LET d == [c EXCEPT !.id = Identity(c.path)]
           IN  d \in Sealed /\ d.path = c.path /\ d.source = c.source /\ d.priority = c.priority /\ d.id = Identity(c.path)
<1>1. Identity(c.path) \in Identities /\ Identity(c.path)[1] = FileOf[c.path]
  BY IdentityOK
<1> DEFINE id == Identity(c.path)
           d == [c EXCEPT !.id = id]
<1> HIDE DEF id
<1>2. id \in Identities /\ id[1] = FileOf[c.path]
  BY <1>1 DEF id
<1>3. c = [path |-> c.path, source |-> c.source, priority |-> c.priority, id |-> c.id]
      /\ c.source \in SourceNames /\ c.priority \in 0..5
  BY DEF Unsealed
<1>4. d = [path |-> c.path, source |-> c.source, priority |-> c.priority, id |-> id]
  BY <1>3
<1> HIDE DEF d
<1>5. d \in Sealed /\ d.path = c.path /\ d.source = c.source /\ d.priority = c.priority /\ d.id = id
  BY <1>2, <1>3, <1>4 DEF Sealed
<1> QED
  BY <1>5 DEF d, id

(* VerifySeed keeps the invariant.                                         *)
LEMMA VerifySeedStep == ASSUME DiscoveryInv, VerifySeed PROVE DiscoveryInv'
<1>1. PICK i \in waiting :
        /\ waiting' = waiting \ {i}
        /\ seeds' = IF Code(candidates[i].path) = None
                    THEN Append(seeds, [candidates[i] EXCEPT !.id = Identity(candidates[i].path)]) ELSE seeds
  BY DEF VerifySeed
<1>2. dpc = "seeds" /\ UNCHANGED <<home, dpc, turn, notes, at, gathered, candidates, sourceIssues, present, nodes, link, history, verified, roots>>
  BY DEF VerifySeed
<1>3. /\ waiting \subseteq DOMAIN candidates /\ candidates \in Seq(Unsealed) /\ seeds \in Seq(Sealed)
      /\ present \subseteq SourceNames /\ nodes \subseteq Folders
  BY <1>2 DEF DiscoveryInv, StageTyped, WorkTyped
<1>4. seeds' \in Seq(Sealed)
  <2>1. candidates[i] \in Unsealed
    BY <1>3
  <2>2. CASE Code(candidates[i].path) = None
    <3>1. [candidates[i] EXCEPT !.id = Identity(candidates[i].path)] \in Sealed
      BY <2>1, <2>2, CodeMeans, SealOK DEF DiscoveryInv
    <3> QED
      BY <1>1, <1>3, <2>2, <3>1, OneMore
  <2> QED
    BY <1>1, <1>3, <2>2
<1>5. LinkHonest' /\ WorktreeAgreed'
  BY <1>2, LinkSame, WorktreeSame DEF DiscoveryInv
<1>6. Paths(candidates) \subseteq Paths(candidates') /\ waiting' \subseteq DOMAIN candidates'
  BY <1>1, <1>2, <1>3
<1> QED
  BY <1>2, <1>3, <1>4, <1>5, <1>6, WalkFrame DEF DiscoveryInv

(* A finite list has a last place of a kind.                               *)
LEMMA LastOf ==
    ASSUME NEW n \in Nat, NEW S \in SUBSET (1..n), S # {}
    PROVE  Max(S) \in S
<1> DEFINE T == {n - i : i \in S}
<1>1. T \in SUBSET Nat /\ T # {}
  <2>1. \A i \in S : i \in 1..n /\ n - i \in Nat
    OBVIOUS
  <2>2. PICK i \in S : TRUE
    OBVIOUS
  <2>3. n - i \in T
    BY <2>2
  <2> QED
    BY <2>1, <2>3
<1>2. PICK t \in T : \A u \in T : t <= u
  BY <1>1, LeastOf
<1>3. PICK i \in S : t = n - i
  OBVIOUS
<1>4. \A j \in S : i >= j
  <2> SUFFICES ASSUME NEW j \in S PROVE i >= j
    OBVIOUS
  <2>1. n - i <= n - j
    BY <1>2, <1>3
  <2>2. i \in Int /\ j \in Int
    OBVIOUS
  <2> QED
    BY <2>1, <2>2
<1>5. \E x \in S : \A y \in S : x >= y
  BY <1>4
<1> QED
  BY <1>5, Zenon DEF Max

(* A seed bound to its identity is a candidate that can be opened.         *)
LEMMA BoundOK ==
    ASSUME seeds \in Seq(Sealed), NEW c \in Unsealed
    PROVE  Bound(c) \in Unsealed /\ Bound(c).path = c.path /\ Bound(c).source = c.source /\ Bound(c).priority = c.priority
<1> DEFINE same == {i \in DOMAIN seeds : seeds[i].path = c.path}
           id == seeds[Max(same)].id
<1>1. CASE same = {}
  BY <1>1 DEF Bound
<1>2. CASE same # {}
  <2>1. Len(seeds) \in Nat /\ same \in SUBSET (1..Len(seeds)) /\ \A i \in same : seeds[i] \in Sealed
    OBVIOUS
  <2>2. Max(same) \in same
    <3> HIDE DEF same
    <3> QED
      BY <1>2, <2>1, LastOf
  <2>3. id \in Identities
    <3>1. seeds[Max(same)] \in Sealed
      BY <2>1, <2>2
    <3> HIDE DEF same
    <3> QED
      BY <3>1 DEF Sealed
  <2>4. Bound(c) = [c EXCEPT !.id = id]
    BY <1>2 DEF Bound
  <2> HIDE DEF id
  <2>5. c = [path |-> c.path, source |-> c.source, priority |-> c.priority, id |-> c.id]
        /\ c.path \in Wordings \cup Folders /\ c.source \in SourceNames /\ c.priority \in 0..5
    BY DEF Unsealed
  <2>6. Bound(c) = [path |-> c.path, source |-> c.source, priority |-> c.priority, id |-> id]
    BY <2>4, <2>5
  <2> QED
    BY <2>3, <2>5, <2>6 DEF Unsealed
<1> QED
  BY <1>1, <1>2

(* LookConventional keeps the invariant.                                   *)
LEMMA LookConventionalStep == ASSUME DiscoveryInv, LookConventional PROVE DiscoveryInv'
<1> DEFINE c == Candidate(Conventional, Git, 0, Identity(Conventional))
           front == IF place[FileOf[Conventional]].kind \in {"dir", "locked"} THEN <<c>> ELSE <<>>
           bound == [i \in DOMAIN candidates |-> Bound(candidates[i])]
<1>1. /\ dpc = "seeds" /\ dpc' = "git" /\ seeds' = front \o seeds /\ candidates' = front \o bound
      /\ UNCHANGED <<home, turn, notes, at, gathered, sourceIssues, present, nodes, link, history, finalization>>
  BY DEF LookConventional
<1>2. /\ candidates \in Seq(Unsealed) /\ seeds \in Seq(Sealed) /\ present \subseteq SourceNames /\ nodes \subseteq Folders
  BY DEF DiscoveryInv, WorkTyped
<1>3. c \in Sealed /\ c \in Unsealed /\ c.priority = 0
  <2>1. Conventional \in Folders /\ Identity(Conventional) \in Identities /\ Identity(Conventional)[1] = FileOf[Conventional]
    BY IdentityOK, DiscoveryAssumption DEF DiscoveryInv
  <2> QED
    BY <2>1, GitWord DEF Candidate, Sealed, Unsealed
<1>4. /\ front \in Seq(Sealed) /\ front \in Seq(Unsealed) /\ \A i \in DOMAIN front : front[i] = c
  <2> HIDE DEF c
  <2> QED
    BY <1>3
<1>5. /\ bound \in Seq(Unsealed) /\ DOMAIN bound = DOMAIN candidates /\ Paths(bound) = Paths(candidates)
      /\ \A i \in DOMAIN bound : /\ bound[i].path = candidates[i].path /\ bound[i].source = candidates[i].source
                                 /\ bound[i].priority = candidates[i].priority
  <2>1. \A i \in DOMAIN candidates : candidates[i] \in Unsealed
    BY <1>2
  <2>2. \A i \in DOMAIN candidates :
           /\ Bound(candidates[i]) \in Unsealed /\ Bound(candidates[i]).path = candidates[i].path
           /\ Bound(candidates[i]).source = candidates[i].source /\ Bound(candidates[i]).priority = candidates[i].priority
    BY <1>2, <2>1, BoundOK
  <2>3. Len(candidates) \in Nat /\ DOMAIN candidates = 1..Len(candidates)
    BY <1>2
  <2>4. bound \in Seq(Unsealed)
    BY <2>2, <2>3
  <2>5. Paths(bound) = Paths(candidates)
    BY <2>2 DEF Paths
  <2> QED
    BY <2>2, <2>4, <2>5
<1> HIDE DEF front, bound
<1>6. seeds' \in Seq(Sealed) /\ candidates' \in Seq(Unsealed) /\ Paths(candidates) \subseteq Paths(candidates')
  <2>1. front \o seeds \in Seq(Sealed) /\ front \o bound \in Seq(Unsealed) /\ Paths(front \o bound) = Paths(front) \cup Paths(bound)
    BY <1>2, <1>4, <1>5, SomeMore
  <2> QED
    BY <1>1, <1>5, <2>1
<1>7. WorktreeAgreed'
  <2>1. agreed' = agreed /\ rewrites' = rewrites
    BY <1>1 DEF history
  <2> SUFFICES ASSUME NEW i \in DOMAIN candidates', candidates'[i].source = Git, candidates'[i].priority = 5
               PROVE  \/ candidates'[i].path \in agreed
                      \/ rewrites[candidates'[i].path] >= 2 /\ \E a \in DOMAIN Admins : rewrites[a] >= 2
    BY <2>1 DEF WorktreeAgreed
  <2>2. (\E j \in DOMAIN front : candidates'[i] = front[j]) \/ (\E j \in DOMAIN bound : candidates'[i] = bound[j])
    BY <1>1, <1>4, <1>5, SomeMore
  <2>3. PICK j \in DOMAIN bound : candidates'[i] = bound[j]
    BY <1>3, <1>4, <2>2
  <2>4. candidates[j].source = Git /\ candidates[j].priority = 5 /\ candidates[j].path = candidates'[i].path
    BY <1>5, <2>3
  <2> QED
    BY <1>5, <2>4 DEF DiscoveryInv, WorktreeAgreed
<1>8. LinkHonest'
  BY <1>1, LinkSame DEF DiscoveryInv
<1>9. UNCHANGED <<verified, roots>>
  BY <1>1 DEF finalization
<1> QED
  BY <1>1, <1>2, <1>6, <1>7, <1>8, <1>9, WalkFrame DEF DiscoveryInv

(* OpenSeed keeps the invariant.                                           *)
LEMMA OpenSeedStep == ASSUME DiscoveryInv, OpenSeed PROVE DiscoveryInv'
<1>1. /\ dpc = "git" /\ seeds # <<>> /\ seeds' = Tail(seeds)
      /\ UNCHANGED <<home, dpc, turn, notes, at, gathered, candidates, present, link, history, finalization>>
      /\ \/ UNCHANGED nodes /\ \E codes : SourceIssue(Git, codes)
         \/ UNCHANGED sourceIssues /\ nodes' = {Head(seeds).path}
  BY DEF OpenSeed
<1>2. /\ candidates \in Seq(Unsealed) /\ seeds \in Seq(Sealed) /\ present \subseteq SourceNames /\ nodes \subseteq Folders
  BY DEF DiscoveryInv, WorkTyped
<1>3. seeds' \in Seq(Sealed) /\ nodes' \subseteq Folders
  <2>1. Tail(seeds) \in Seq(Sealed) /\ Head(seeds) \in Sealed
    BY <1>1, <1>2
  <2> QED
    BY <1>1, <1>2, <2>1 DEF Sealed
<1>4. LinkHonest' /\ WorktreeAgreed'
  BY <1>1, LinkSame, WorktreeSame DEF DiscoveryInv
<1>5. UNCHANGED <<verified, roots>> /\ Paths(candidates) \subseteq Paths(candidates')
  BY <1>1 DEF finalization
<1>6. sourceIssues' = sourceIssues \/ \E codes : SourceIssue(Git, codes)
  BY <1>1
<1> QED
  BY <1>1, <1>2, <1>3, <1>4, <1>5, <1>6, WalkFrame DEF DiscoveryInv

(* A folder is walked into, or its links are looked at.                    *)
LEMMA WalkNodeStep == ASSUME DiscoveryInv, WalkNode PROVE DiscoveryInv'
<1> DEFINE fresh(f, left, way) == [from |-> f, left |-> left, way |-> way, admin |-> None, target |-> None, looks |-> 0]
<1>1. PICK f \in nodes :
        /\ nodes' \subseteq nodes \cup Folders
        /\ \/ UNCHANGED link
           \/ \E left \in SUBSET DOMAIN Admins : link' = fresh(f, left, "back")
           \/ link' = fresh(f, {f}, "forth")
        /\ sourceIssues' = sourceIssues \/ \E codes : SourceIssue(Git, codes)
  BY DEF WalkNode
<1>2. /\ dpc = "git" /\ link = None
      /\ UNCHANGED <<home, dpc, turn, notes, at, gathered, candidates, present, seeds, history, finalization>>
  BY DEF WalkNode
<1>3. /\ candidates \in Seq(Unsealed) /\ seeds \in Seq(Sealed) /\ present \subseteq SourceNames /\ nodes \subseteq Folders
  BY DEF DiscoveryInv, WorkTyped
<1>4. LinkHonest'
  <2> SUFFICES ASSUME link' # None PROVE LinkTyped' /\ LooksTell'
    BY DEF LinkHonest
  <2>1. f \in Folders
    BY <1>3
  <2>2. CASE \E left \in SUBSET DOMAIN Admins : link' = fresh(f, left, "back")
    BY <2>1, <2>2 DEF LinkTyped, LinkStates, LooksTell
  <2>3. CASE link' = fresh(f, {f}, "forth")
    BY <2>1, <2>3 DEF LinkTyped, LinkStates, LooksTell
  <2> QED
    BY <1>1, <1>2, <2>2, <2>3
<1>5. WorktreeAgreed'
  BY <1>2, WorktreeSame DEF DiscoveryInv
<1>6. UNCHANGED <<verified, roots>> /\ Paths(candidates) \subseteq Paths(candidates') /\ nodes' \subseteq Folders
  BY <1>1, <1>2, <1>3 DEF finalization
<1> QED
  BY <1>1, <1>2, <1>3, <1>4, <1>5, <1>6, WalkFrame DEF DiscoveryInv

(* What is set and what is left alone by a change of the link at work.     *)
LEMMA LinkFields ==
    ASSUME link' = [from |-> link'.from, left |-> link'.left, way |-> link'.way, admin |-> link'.admin,
                    target |-> link'.target, looks |-> link'.looks],
           link'.from \in Folders, link'.admin \in DOMAIN Admins, link'.target \in Folders, link'.looks \in 0..3,
           \/ link'.way = "back" /\ link'.left \subseteq DOMAIN Admins
           \/ link'.way = "forth" /\ link'.left \subseteq Folders
    PROVE  LinkTyped'
<1>1. link'.left \in SUBSET (DOMAIN Admins \cup Folders)
  OBVIOUS
<1>2. link' \in LinkStates
  BY <1>1 DEF LinkStates
<1> QED
  BY <1>2 DEF LinkTyped

(* The first look found its link.                                          *)
LEMMA FirstLookStep == ASSUME DiscoveryInv, FirstLook PROVE DiscoveryInv'
<1>1. PICK x \in link.left :
        LET a == IF link.way = "back" THEN x ELSE gitfile[link.from]
            f == IF link.way = "back" THEN gitdir[x] ELSE link.from
        IN  \/ /\ a \in DOMAIN Admins /\ f # None /\ UNCHANGED sourceIssues
               /\ link' = [link EXCEPT !.admin = a, !.target = f, !.looks = 1, !.left = @ \ {x}]
            \/ link' = [link EXCEPT !.left = @ \ {x}] /\ \E codes : SourceIssue(Git, codes)
  <2>1. "metadata_malformed" # None /\ "metadata_unavailable" # None
    BY DiscoveryAssumption DEF Refusals
  <2> QED
    BY <2>1 DEF FirstLook
<1>2. /\ dpc = "git" /\ link # None /\ link.looks = 0
      /\ UNCHANGED <<home, dpc, turn, notes, at, gathered, candidates, present, seeds, nodes, history, finalization>>
  BY DEF FirstLook
<1>3. /\ candidates \in Seq(Unsealed) /\ seeds \in Seq(Sealed) /\ present \subseteq SourceNames /\ nodes \subseteq Folders
  BY DEF DiscoveryInv, WorkTyped
<1>4. LinkTyped /\ HomeTyped
  BY <1>2 DEF DiscoveryInv, LinkHonest
<1>5. LinkHonest'
  <2>1. /\ link.from \in Folders /\ link.left \subseteq DOMAIN Admins \cup Folders /\ link.way \in {"back", "forth"}
        /\ link.admin \in DOMAIN Admins \cup {None} /\ link.target \in Folders \cup {None}
        /\ link = [from |-> link.from, left |-> link.left, way |-> link.way, admin |-> link.admin, target |-> link.target, looks |-> 0]
        /\ link.way = "back" => link.left \subseteq DOMAIN Admins
        /\ link.way = "forth" => link.left \subseteq Folders
    BY <1>2, <1>4 DEF LinkTyped, LinkStates
  <2>2. CASE link' = [link EXCEPT !.left = @ \ {x}]
    <3>1. link' = [from |-> link.from, left |-> link.left \ {x}, way |-> link.way, admin |-> link.admin, target |-> link.target, looks |-> 0]
      BY <2>1, <2>2
    <3> QED
      BY <2>1, <3>1 DEF LinkHonest, LinkTyped, LinkStates, LooksTell
  <2>3. CASE link.way = "back" /\ gitdir[x] # None /\ link' = [link EXCEPT !.admin = x, !.target = gitdir[x], !.looks = 1, !.left = @ \ {x}]
    <3>1. link' = [from |-> link.from, left |-> link.left \ {x}, way |-> "back", admin |-> x, target |-> gitdir[x], looks |-> 1]
      BY <2>1, <2>3
    <3>2. x \in DOMAIN Admins /\ gitdir[x] \in Folders
      BY <1>4, <2>1, <2>3 DEF HomeTyped
    <3>3. LinkTyped'
      <4>1. link.left \ {x} \subseteq DOMAIN Admins /\ link.from \in Folders
        BY <2>1, <2>3
      <4> QED
        BY <3>1, <3>2, <4>1, LinkFields
    <3>4. Fore'
      BY <1>2, <3>1 DEF Fore, home
    <3> QED
      BY <3>1, <3>2, <3>3, <3>4 DEF LinkHonest, LooksTell
  <2>4. CASE /\ link.way = "forth" /\ gitfile[link.from] \in DOMAIN Admins
             /\ link' = [link EXCEPT !.admin = gitfile[link.from], !.target = link.from, !.looks = 1, !.left = @ \ {x}]
    <3>1. link' = [from |-> link.from, left |-> link.left \ {x}, way |-> "forth", admin |-> gitfile[link.from], target |-> link.from, looks |-> 1]
      BY <2>1, <2>4
    <3>2. LinkTyped'
      <4>1. link.left \ {x} \subseteq Folders /\ link.from \in Folders /\ gitfile[link.from] \in DOMAIN Admins
        BY <2>1, <2>4
      <4> QED
        BY <3>1, <4>1, LinkFields
    <3>3. Fore'
      BY <1>2, <3>1 DEF Fore, home
    <3> QED
      BY <2>1, <2>4, <3>1, <3>2, <3>3 DEF LinkHonest, LooksTell
  <2> QED
    BY <1>1, <2>1, <2>2, <2>3, <2>4
<1>6. WorktreeAgreed'
  BY <1>2, WorktreeSame DEF DiscoveryInv
<1>7. UNCHANGED <<verified, roots>> /\ Paths(candidates) \subseteq Paths(candidates')
  BY <1>2 DEF finalization
<1>8. sourceIssues' = sourceIssues \/ \E codes : SourceIssue(Git, codes)
  BY <1>1
<1> QED
  BY <1>2, <1>3, <1>5, <1>6, <1>7, <1>8, WalkFrame DEF DiscoveryInv

(* A look that found its link while the other one holds was at a moment    *)
(* when they agreed.                                                       *)
LEMMA BothHold ==
    ASSUME HomeTyped, LinkTyped, link.admin \in DOMAIN Admins, link.target \in Folders, Fore, Aft
    PROVE  link.target \in agreed
BY DEF HomeTyped, Fore, Aft, Linked

(* Each look that found its link tells more, and the fourth one is enough. *)
LEMMA LookAgainStep == ASSUME DiscoveryInv, LookAgain PROVE DiscoveryInv'
<1>1. /\ dpc = "git" /\ link # None /\ link.looks # 0
      /\ UNCHANGED <<home, dpc, turn, notes, at, gathered, seeds, nodes, history, finalization>>
  BY DEF LookAgain
<1>2. \/ \E code : Giving(code)
      \/ NextLookHolds /\ link.looks = 3 /\ EmitWorktree
      \/ NextLookHolds /\ link.looks # 3 /\ link' = [link EXCEPT !.looks = @ + 1] /\ UNCHANGED <<candidates, present, sourceIssues>>
  BY DEF LookAgain
<1>3. /\ candidates \in Seq(Unsealed) /\ seeds \in Seq(Sealed) /\ present \subseteq SourceNames /\ nodes \subseteq Folders
  BY DEF DiscoveryInv, WorkTyped
<1>4. LinkTyped /\ LooksTell /\ HomeTyped /\ link.looks \in 1..3
  BY <1>1 DEF DiscoveryInv, LinkHonest, LinkTyped, LinkStates
<1>5. /\ link.from \in Folders /\ link.left \subseteq DOMAIN Admins \cup Folders /\ link.way \in {"back", "forth"}
      /\ link.admin \in DOMAIN Admins /\ link.target \in Folders
      /\ link = [from |-> link.from, left |-> link.left, way |-> link.way, admin |-> link.admin, target |-> link.target, looks |-> link.looks]
      /\ link.way = "back" => link.left \subseteq DOMAIN Admins
      /\ link.way = "forth" => link.left \subseteq Folders
  BY <1>4 DEF LinkTyped, LinkStates, LooksTell
<1>6. /\ rewrites[link.admin] \in Nat /\ rewrites[link.target] \in Nat /\ ForeWrites \in Nat /\ AftWrites \in Nat
  BY <1>4, <1>5 DEF HomeTyped, ForeWrites, AftWrites
<1>7. /\ NextLookHolds /\ link.looks = 2 => Fore
      /\ NextLookHolds /\ link.looks # 2 => Aft
  BY <1>5 DEF NextLookHolds, Fore, Aft
<1>8. Fore /\ Aft => link.target \in agreed
  BY <1>4, <1>5, BothHold
<1>9. LinkHonest'
  <2>1. CASE link' = [link EXCEPT !.looks = 0]
    <3>1. link' = [from |-> link.from, left |-> link.left, way |-> link.way, admin |-> link.admin, target |-> link.target, looks |-> 0]
      BY <1>5, <2>1
    <3> QED
      BY <1>5, <3>1 DEF LinkHonest, LinkTyped, LinkStates, LooksTell
  <2>2. CASE NextLookHolds /\ link.looks # 3 /\ link' = [link EXCEPT !.looks = @ + 1]
    <3>1. link' = [from |-> link.from, left |-> link.left, way |-> link.way, admin |-> link.admin, target |-> link.target, looks |-> link.looks + 1]
      BY <1>5, <2>2
    <3>2. LinkTyped'
      BY <1>4, <1>5, <2>2, <3>1 DEF LinkTyped, LinkStates
    <3>3. /\ Fore' = Fore /\ Aft' = Aft /\ ForeWrites' = ForeWrites /\ AftWrites' = AftWrites
          /\ link'.target = link.target /\ link'.admin = link.admin /\ agreed' = agreed
      BY <1>1, <3>1 DEF Fore, Aft, ForeWrites, AftWrites, home, history
    <3>4. CASE link.looks = 1
      BY <1>4, <1>5, <1>6, <1>7, <1>8, <2>2, <3>1, <3>2, <3>3, <3>4 DEF LinkHonest, LooksTell
    <3>5. CASE link.looks = 2
      BY <1>4, <1>5, <1>6, <1>7, <1>8, <2>2, <3>1, <3>2, <3>3, <3>5 DEF LinkHonest, LooksTell
    <3> QED
      BY <1>4, <2>2, <3>4, <3>5
  <2> QED
    BY <1>2, <2>1, <2>2 DEF Giving, EmitWorktree
<1>10. CASE link.looks = 3 /\ NextLookHolds /\ EmitWorktree
  <2> DEFINE c == Candidate(link.target, Git, 5, None)
  <2>1. c \in Unsealed /\ c.path = link.target
    BY <1>5, GitWord DEF Candidate, Unsealed
  <2>2. \/ link.target \in agreed
        \/ rewrites[link.target] >= 2 /\ \E a \in DOMAIN Admins : rewrites[a] >= 2
    <3>1. link.target \in agreed \/ (ForeWrites >= 2 /\ AftWrites >= 2)
      BY <1>4, <1>6, <1>7, <1>10 DEF LooksTell
    <3> QED
      BY <1>5, <3>1 DEF ForeWrites, AftWrites
  <2>3. (candidates' = candidates \/ candidates' = Append(candidates, c)) /\ present' = present \cup {Git} /\ UNCHANGED sourceIssues
    BY <1>10 DEF EmitWorktree
  <2> HIDE DEF c
  <2>4. candidates' \in Seq(Unsealed) /\ Paths(candidates) \subseteq Paths(candidates')
    <3>1. Append(candidates, c) \in Seq(Unsealed) /\ Paths(Append(candidates, c)) = Paths(candidates) \cup {c.path}
      BY <1>3, <2>1, OneMore
    <3> QED
      BY <1>3, <2>3, <3>1
  <2>5. WorktreeAgreed'
    <3>1. agreed' = agreed /\ rewrites' = rewrites
      BY <1>1 DEF history
    <3> SUFFICES ASSUME NEW i \in DOMAIN candidates', candidates'[i].source = Git, candidates'[i].priority = 5
                 PROVE  \/ candidates'[i].path \in agreed
                        \/ rewrites[candidates'[i].path] >= 2 /\ \E a \in DOMAIN Admins : rewrites[a] >= 2
      BY <3>1 DEF WorktreeAgreed
    <3>2. (i \in DOMAIN candidates /\ candidates'[i] = candidates[i]) \/ candidates'[i] = c
      BY <1>3, <2>1, <2>3, OneMore
    <3> QED
      BY <2>1, <2>2, <3>2 DEF DiscoveryInv, WorktreeAgreed
  <2>6. present' \subseteq SourceNames
    BY <1>3, <2>3, GitWord
  <2>7. UNCHANGED <<verified, roots>>
    BY <1>1 DEF finalization
  <2> QED
    BY <1>1, <1>3, <1>9, <2>3, <2>4, <2>5, <2>6, <2>7, WalkFrame DEF DiscoveryInv
<1>11. CASE UNCHANGED <<candidates, present>> /\ (sourceIssues' = sourceIssues \/ \E codes : SourceIssue(Git, codes))
  <2>1. WorktreeAgreed' /\ UNCHANGED <<verified, roots>> /\ Paths(candidates) \subseteq Paths(candidates')
    BY <1>1, <1>11, WorktreeSame DEF DiscoveryInv, finalization
  <2> QED
    BY <1>1, <1>3, <1>9, <1>11, <2>1, WalkFrame DEF DiscoveryInv
<1> QED
  BY <1>2, <1>10, <1>11 DEF Giving

(* EndLinks keeps the invariant.                                           *)
LEMMA EndLinksStep == ASSUME DiscoveryInv, EndLinks PROVE DiscoveryInv'
<1>1. /\ dpc = "git" /\ link' = None
      /\ UNCHANGED <<home, dpc, turn, notes, at, gathered, candidates, sourceIssues, present, seeds, nodes, history, finalization>>
  BY DEF EndLinks
<1>2. /\ candidates \in Seq(Unsealed) /\ seeds \in Seq(Sealed) /\ present \subseteq SourceNames /\ nodes \subseteq Folders
  BY DEF DiscoveryInv, WorkTyped
<1>3. WorktreeAgreed' /\ LinkHonest' /\ UNCHANGED <<verified, roots>> /\ Paths(candidates) \subseteq Paths(candidates')
  BY <1>1, WorktreeSame DEF DiscoveryInv, finalization, LinkHonest
<1> QED
  BY <1>1, <1>2, <1>3, WalkFrame DEF DiscoveryInv

-----------------------------------------------------------------------------
(* The finalization *)

(* What a step of the finalization leaves alone.                           *)
LEMMA FinalFrame ==
    ASSUME DiscoveryInv, dpc \in Later, dpc' \in Later,
           UNCHANGED <<home, turn, notes, at, gathered, candidates, present, gitWalk, history>>,
           sourceIssues' = [s \in SourceNames |-> sourceIssues'[s]], Clean' => Clean
    PROVE  /\ HomeTyped' /\ NotesOwed' /\ LinkHonest' /\ WorktreeAgreed'
           /\ (dpc' \in {"seeds", "final"} => waiting' \subseteq DOMAIN candidates) /\ (dpc' = "recheck" => waiting' \subseteq DOMAIN verified')
              => StageTyped'
           /\ verified' \in Seq(Sealed) /\ (dpc' # "returned" => roots' \in Seq(Sealed)) => WorkTyped'
<1>1. UNCHANGED link /\ UNCHANGED <<seeds, nodes>>
  BY DEF gitWalk
<1>2. HomeTyped' /\ LinkHonest' /\ WorktreeAgreed'
  BY <1>1, HomeSame, LinkSame, WorktreeSame DEF DiscoveryInv
<1>3. NotesOwed'
  BY OwedLater DEF DiscoveryInv
<1>4. (dpc' \in {"seeds", "final"} => waiting' \subseteq DOMAIN candidates) /\ (dpc' = "recheck" => waiting' \subseteq DOMAIN verified')
      => StageTyped'
  BY DEF DiscoveryInv, StageTyped, Reading, Later
<1>5. verified' \in Seq(Sealed) /\ (dpc' # "returned" => roots' \in Seq(Sealed)) => WorkTyped'
  BY <1>1 DEF DiscoveryInv, WorkTyped
<1> QED
  BY <1>2, <1>3, <1>4, <1>5

(* BeginFinal keeps the invariant.                                         *)
LEMMA BeginFinalStep == ASSUME DiscoveryInv, BeginFinal PROVE DiscoveryInv'
<1>1. /\ dpc = "git" /\ dpc' = "final" /\ waiting' = DOMAIN candidates
      /\ UNCHANGED <<home, turn, notes, at, gathered, candidates, sourceIssues, present, gitWalk, history, verified, roots>>
  BY DEF BeginFinal
<1>2. verified = <<>> /\ roots = <<>>
  BY <1>1 DEF DiscoveryInv, RootsInv, NothingYet, Early
<1>3. /\ sourceIssues' = [s \in SourceNames |-> sourceIssues'[s]] /\ (Clean' => Clean)
      /\ verified \in Seq(Sealed) /\ roots \in Seq(Sealed)
  BY <1>1, CleanSame DEF DiscoveryInv, WorkTyped
<1>4. RootsInv'
  BY <1>1, <1>2 DEF DiscoveryInv, RootsInv, NothingYet, Early, Reading, VerifiedApart, FinalDue, RootsDue, RoomLeft, RootsTold
<1> QED
  BY <1>1, <1>3, <1>4, FinalFrame DEF DiscoveryInv, Later

(* A candidate is verified, or the reason is told.                         *)
LEMMA VerifyCandidateStep == ASSUME DiscoveryInv, VerifyCandidate PROVE DiscoveryInv'
<1>1. PICK i \in Foremost(candidates) :
        LET c == candidates[i]
        IN  /\ waiting' = waiting \ {i}
            /\ \/ UNCHANGED verified /\ \E code : SourceIssue(c.source, {code})
               \/ /\ UNCHANGED sourceIssues /\ Code(c.path) = None
                  /\ verified' = IF \E j \in DOMAIN verified : verified[j].path = c.path THEN verified
                                 ELSE Append(verified, [c EXCEPT !.id = Identity(c.path)])
  BY DEF VerifyCandidate
<1>2. /\ dpc = "final" /\ UNCHANGED <<home, dpc, turn, notes, at, gathered, candidates, present, gitWalk, history, roots>>
  BY DEF VerifyCandidate
<1> DEFINE c == candidates[i]
           d == [c EXCEPT !.id = Identity(c.path)]
<1>3. /\ waiting \subseteq DOMAIN candidates /\ candidates \in Seq(Unsealed) /\ verified \in Seq(Sealed) /\ roots \in Seq(Sealed)
      /\ sourceIssues = [s \in SourceNames |-> sourceIssues[s]] /\ i \in waiting
  BY <1>2 DEF DiscoveryInv, StageTyped, WorkTyped, Foremost
<1>4. c \in Unsealed /\ c.source \in SourceNames
  <2>1. c \in Unsealed
    BY <1>3
  <2> QED
    BY <2>1 DEF Unsealed
<1>5. Code(c.path) = None => d \in Sealed /\ d.path = c.path
  BY <1>4, CodeMeans, SealOK DEF DiscoveryInv
<1>6. sourceIssues' = [s \in SourceNames |-> sourceIssues'[s]]
      /\ (Clean' => Clean /\ c.path \in Paths(verified')) /\ Paths(verified) \subseteq Paths(verified')
      /\ verified' \in Seq(Sealed) /\ VerifiedApart'
  <2>0. VerifiedApart
    BY DEF DiscoveryInv, RootsInv
  <2>1. CASE UNCHANGED verified /\ \E code : SourceIssue(c.source, {code})
    <3>1. PICK code : SourceIssue(c.source, {code})
      BY <2>1
    <3>2. sourceIssues' = [s \in SourceNames |-> sourceIssues'[s]] /\ (Clean' => Clean /\ {code} = {})
      BY <1>3, <1>4, <3>1, IssueAdded
    <3>3. VerifiedApart'
      BY <2>0, <2>1 DEF VerifiedApart
    <3> QED
      BY <1>3, <2>1, <3>2, <3>3
  <2>2. CASE UNCHANGED <<verified, sourceIssues>> /\ \E j \in DOMAIN verified : verified[j].path = c.path
    <3>1. c.path \in Paths(verified) /\ VerifiedApart'
      BY <2>0, <2>2 DEF Paths, VerifiedApart
    <3> QED
      BY <1>3, <2>2, <3>1, CleanSame
  <2>3. CASE UNCHANGED sourceIssues /\ Code(c.path) = None /\ verified' = Append(verified, d) /\ ~\E j \in DOMAIN verified : verified[j].path = c.path
    <3> HIDE DEF d, c
    <3>1. d \in Sealed /\ d.path = c.path
      BY <1>5, <2>3
    <3>2. /\ verified' \in Seq(Sealed) /\ Paths(verified') = Paths(verified) \cup {c.path}
          /\ DOMAIN verified' = DOMAIN verified \cup {Len(verified) + 1} /\ verified'[Len(verified) + 1] = d
          /\ \A j \in DOMAIN verified : verified'[j] = verified[j]
      BY <1>3, <2>3, <3>1, OneMore
    <3>3. VerifiedApart'
      BY <2>0, <2>3, <3>1, <3>2 DEF VerifiedApart
    <3> QED
      BY <1>3, <2>3, <3>2, <3>3, CleanSame
  <2> QED
    BY <1>1, <2>1, <2>2, <2>3
<1>7. RootsInv'
  <2>1. FinalDue'
    <3>1. FinalDue
      BY DEF DiscoveryInv, RootsInv
    <3> QED
      BY <1>1, <1>2, <1>6, <3>1 DEF FinalDue
  <2> QED
    BY <1>2, <1>6, <2>1 DEF RootsInv, NothingYet, Early, Reading, RootsDue, RoomLeft, RootsTold
<1>8. waiting' \subseteq DOMAIN candidates
  BY <1>1, <1>3
<1> QED
  BY <1>2, <1>3, <1>6, <1>7, <1>8, FinalFrame DEF DiscoveryInv, Later

(* What was verified is opened, and there is finitely much of it.          *)
LEMMA VerifiedOpened ==
    ASSUME verified \in Seq(Sealed)
    PROVE  /\ Opened(verified, DOMAIN verified) /\ IsFiniteSet(DOMAIN verified)
           /\ \A i \in DOMAIN verified : /\ verified[i].source \in SourceNames /\ verified[i].id # None
                                         /\ verified[i].id[1] = FileOf[verified[i].path]
<1>1. \A i \in DOMAIN verified : verified[i] \in Sealed
  OBVIOUS
<1>2. None \notin Identities
  BY DiscoveryAssumption DEF Identities
<1>3. Len(verified) \in Nat /\ DOMAIN verified = 1..Len(verified)
  OBVIOUS
<1>4. IsFiniteSet(1..Len(verified))
  BY <1>3, FS_Interval
<1> QED
  BY <1>1, <1>2, <1>3, <1>4 DEF Opened, Sealed

(* The roots that are chosen: they cover all candidates if none is told to *)
(* be left out, and the conventional root has a place.                     *)
LEMMA SelectRootsStep == ASSUME DiscoveryInv, SelectRoots PROVE DiscoveryInv'
<1> DEFINE few == Minimal(verified)
           limit == IF \E i \in few : verified[i].path = Conventional THEN MaxRoots ELSE MaxRoots - 1
           prior(i) == {j \in few : Before(verified[j], verified[i])}
           chosen == {i \in few : Cardinality(prior(i)) < limit}
<1>1. /\ dpc = "final" /\ dpc' = "recheck" /\ waiting = {} /\ waiting' = chosen
      /\ UNCHANGED <<home, turn, notes, at, gathered, candidates, present, gitWalk, history, verified, roots>>
      /\ sourceIssues' = [s \in SourceNames |->
            sourceIssues[s] \cup {c \in {"root_limit"} : \E i \in few \ chosen : verified[i].source = s}]
  BY DEF SelectRoots, Keep
<1>2. verified \in Seq(Sealed) /\ roots = <<>> /\ roots \in Seq(Sealed) /\ VerifiedApart /\ FinalDue
  BY <1>1 DEF DiscoveryInv, WorkTyped, RootsInv, FinalDue
<1>3. few \subseteq DOMAIN verified /\ chosen \subseteq few
  BY DEF Minimal, Topmost
<1>4. /\ Opened(verified, DOMAIN verified) /\ Opened(verified, few) /\ IsFiniteSet(few)
      /\ \A i \in few, j \in few : i # j => verified[i].path # verified[j].path
  <2>1. Opened(verified, DOMAIN verified) /\ IsFiniteSet(DOMAIN verified)
    BY <1>2, VerifiedOpened
  <2>2. Opened(verified, few)
    BY <1>3, <2>1 DEF Opened
  <2>3. IsFiniteSet(few)
    BY <1>3, <2>1, FS_Subset
  <2> QED
    BY <1>2, <1>3, <2>1, <2>2, <2>3 DEF VerifiedApart
<1>5. limit \in Nat /\ limit <= MaxRoots /\ MaxRoots \in Nat /\ MaxRoots >= 1
      /\ (limit = MaxRoots => \E i \in few : verified[i].path = Conventional)
  BY DiscoveryAssumption
<1>6. IsFiniteSet(chosen) /\ Cardinality(chosen) <= limit /\ Cardinality(chosen) \in Nat
  <2>1. IsFiniteSet(chosen) /\ Cardinality(chosen) <= limit
    <3> HIDE DEF limit, few
    <3> QED
      BY <1>4, <1>5, KeptFew
  <2> QED
    BY <2>1, FS_CardinalityType
<1>7. ASSUME NEW i \in few, verified[i].path = Conventional PROVE i \in chosen /\ limit = MaxRoots
  <2>1. prior(i) = {}
    BY <1>7 DEF Before
  <2>2. Cardinality(prior(i)) = 0
    BY <2>1, FS_EmptySet
  <2>3. limit = MaxRoots
    BY <1>7
  <2> QED
    BY <1>5, <2>2, <2>3
<1>8. /\ sourceIssues' = [s \in SourceNames |-> sourceIssues'[s]]
      /\ Clean' => Clean /\ chosen = few
  <2> HIDE DEF few, chosen
  <2>1. \A s \in SourceNames : sourceIssues'[s] = sourceIssues[s] \cup {c \in {"root_limit"} : \E i \in few \ chosen : verified[i].source = s}
    BY <1>1
  <2>2. sourceIssues' = [s \in SourceNames |-> sourceIssues'[s]]
    BY <1>1, <2>1
  <2>3. Clean' => Clean
    BY <2>1 DEF Clean
  <2>4. ASSUME Clean' PROVE few \subseteq chosen
    <3> SUFFICES ASSUME NEW i \in few, i \notin chosen PROVE FALSE
      OBVIOUS
    <3>1. verified[i].source \in SourceNames
      BY <1>2, <1>3, VerifiedOpened
    <3>2. "root_limit" \in sourceIssues'[verified[i].source]
      BY <2>1, <3>1
    <3> QED
      BY <2>4, <3>1, <3>2 DEF Clean
  <2> QED
    BY <1>3, <2>2, <2>3, <2>4
<1>9. RootsDue'
  <2>1. ASSUME Clean', NEW p \in Paths(candidates) PROVE \E i \in chosen : Covers(verified[i], p)
    <3>1. p \in Paths(verified)
      BY <1>1, <1>2, <1>8, <2>1 DEF FinalDue, Paths
    <3>2. PICK i \in DOMAIN verified : verified[i].path = p
      BY <3>1 DEF Paths
    <3>3. PICK j \in DOMAIN verified : verified[j].path \in Line[p] /\ \E k \in Minimal(verified) : verified[k].id = verified[j].id
      BY <1>4, <3>2, MinimalExists
    <3>4. PICK k \in few : verified[k].id = verified[j].id
      BY <3>3
    <3>5. FileOf[verified[k].path] = FileOf[verified[j].path] /\ verified[k].id # None /\ p \in Folders
      BY <1>2, <1>3, <1>4, <3>2, <3>3, <3>4, VerifiedOpened DEF Opened
    <3>6. k \in chosen
      BY <1>8, <2>1, <3>4
    <3> QED
      BY <3>3, <3>5, <3>6 DEF Covers
  <2>2. \A i, j \in few : i # j => Apart(verified[i], verified[j])
    BY <1>2, <1>4, MinimalApart DEF VerifiedApart
  <2>3. \A i, j \in chosen : i # j => Apart(verified[i], verified[j])
    BY <2>2
  <2>4. Paths(candidates') = Paths(candidates) /\ verified' = verified /\ roots' = <<>> /\ DOMAIN roots' = {} /\ waiting' = chosen
    BY <1>1, <1>2
  <2> HIDE DEF chosen, few
  <2>5. Clean' => \A p \in Paths(candidates') : (\E i \in waiting' : Covers(verified'[i], p)) \/ (\E j \in DOMAIN roots' : Covers(roots'[j], p))
    BY <2>1, <2>4
  <2>6. /\ \A i, j \in waiting' : i # j => Apart(verified'[i], verified'[j])
        /\ \A i \in waiting', j \in DOMAIN roots' : Apart(verified'[i], roots'[j])
        /\ \A i, j \in DOMAIN roots' : i # j => Apart(roots'[i], roots'[j])
    BY <2>3, <2>4
  <2> QED
    BY <2>5, <2>6 DEF RootsDue, Covers, Apart, Above
<1>10. RoomLeft'
  <2>1. Len(roots') = 0 /\ roots' = <<>>
    BY <1>1, <1>2
  <2>2. Cardinality(chosen) < MaxRoots \/ \E i \in chosen : verified[i].path = Conventional
    BY <1>5, <1>6, <1>7
  <2> HIDE DEF chosen, limit, few
  <2> QED
    BY <1>1, <1>5, <1>6, <2>1, <2>2 DEF RoomLeft
<1>11. RootsInv'
  <2>1. VerifiedApart'
    BY <1>1, <1>2 DEF VerifiedApart
  <2> QED
    BY <1>1, <1>9, <1>10, <2>1 DEF RootsInv, NothingYet, Early, Reading, FinalDue, RootsTold
<1>12. waiting' \subseteq DOMAIN verified'
  BY <1>1, <1>3
<1> HIDE DEF chosen, few
<1> QED
  BY <1>1, <1>2, <1>8, <1>11, <1>12, FinalFrame DEF DiscoveryInv, Later

(* A root is sealed, or the reason is told; the conventional one comes     *)
(* first.                                                                  *)
LEMMA RecheckRootStep == ASSUME DiscoveryInv, RecheckRoot PROVE DiscoveryInv'
<1>1. PICK i \in Foremost(verified) :
        /\ waiting' = waiting \ {i}
        /\ \/ roots' = Append(roots, verified[i]) /\ UNCHANGED sourceIssues
           \/ SourceIssue(verified[i].source, {"identity_changed"}) /\ UNCHANGED roots
  BY DEF RecheckRoot
<1>2. dpc = "recheck" /\ UNCHANGED <<home, dpc, turn, notes, at, gathered, candidates, present, gitWalk, history, verified>>
  BY DEF RecheckRoot
<1> DEFINE c == verified[i]
<1>3. /\ waiting \subseteq DOMAIN verified /\ verified \in Seq(Sealed) /\ roots \in Seq(Sealed)
      /\ sourceIssues = [s \in SourceNames |-> sourceIssues[s]]
      /\ i \in waiting /\ \A j \in waiting : ~Before(verified[j], c)
      /\ RootsDue /\ RoomLeft /\ VerifiedApart
  BY <1>2 DEF DiscoveryInv, StageTyped, WorkTyped, RootsInv, Foremost
<1>4. c \in Sealed /\ c.source \in SourceNames
  <2>1. c \in Sealed
    BY <1>3
  <2> QED
    BY <2>1 DEF Sealed
<1> HIDE DEF c
<1>5. /\ Append(roots, c) \in Seq(Sealed) /\ Len(Append(roots, c)) = Len(roots) + 1 /\ Append(roots, c) # <<>>
      /\ DOMAIN Append(roots, c) = DOMAIN roots \cup {Len(roots) + 1} /\ Append(roots, c)[Len(roots) + 1] = c
      /\ Len(roots) \in Nat /\ Len(roots) + 1 \notin DOMAIN roots /\ DOMAIN roots = 1..Len(roots)
      /\ \A j \in DOMAIN roots : Append(roots, c)[j] = roots[j]
  BY <1>3, <1>4, OneMore
<1>6. \/ roots' = Append(roots, c) /\ UNCHANGED sourceIssues
      \/ UNCHANGED roots /\ SourceIssue(c.source, {"identity_changed"})
  BY <1>1 DEF c
<1>7. /\ sourceIssues' = [s \in SourceNames |-> sourceIssues'[s]]
      /\ Clean' => Clean /\ roots' = Append(roots, c)
  <2>1. CASE roots' = Append(roots, c) /\ UNCHANGED sourceIssues
    BY <1>3, <2>1, CleanSame
  <2>2. CASE SourceIssue(c.source, {"identity_changed"})
    <3>1. {"identity_changed"} # {}
      OBVIOUS
    <3>2. sourceIssues' = [s \in SourceNames |-> sourceIssues'[s]] /\ (Clean' => Clean /\ {"identity_changed"} = {})
      BY <1>3, <1>4, <2>2, IssueAdded
    <3> QED
      BY <3>1, <3>2
  <2> QED
    BY <1>6, <2>1, <2>2
<1>8. RootsDue'
  <2>1. ASSUME Clean', NEW p \in Paths(candidates)
        PROVE  (\E k \in waiting' : Covers(verified[k], p)) \/ (\E j \in DOMAIN roots' : Covers(roots'[j], p))
    <3>1. (\E k \in waiting : Covers(verified[k], p)) \/ (\E j \in DOMAIN roots : Covers(roots[j], p))
      BY <1>2, <1>3, <1>7, <2>1 DEF RootsDue
    <3>2. CASE \E j \in DOMAIN roots : Covers(roots[j], p)
      BY <1>5, <1>7, <2>1, <3>2
    <3>3. CASE Covers(c, p)
      BY <1>5, <1>7, <2>1, <3>3
    <3>4. CASE \E k \in waiting \ {i} : Covers(verified[k], p)
      BY <1>1, <3>4
    <3> QED
      BY <3>1, <3>2, <3>3, <3>4 DEF c
  <2>2. \A a, b \in waiting : a # b => Apart(verified[a], verified[b])
    BY <1>2, <1>3 DEF RootsDue
  <2>3. \A a \in waiting, j \in DOMAIN roots : Apart(verified[a], roots[j]) /\ Apart(roots[j], verified[a])
    BY <1>2, <1>3 DEF RootsDue, Apart
  <2>4. \A a \in waiting', j \in DOMAIN roots' : Apart(verified[a], roots'[j])
    <3> SUFFICES ASSUME NEW a \in waiting', NEW j \in DOMAIN roots' PROVE Apart(verified[a], roots'[j])
      OBVIOUS
    <3>1. a \in waiting /\ a # i
      BY <1>1
    <3>2. (j \in DOMAIN roots /\ roots'[j] = roots[j]) \/ roots'[j] = c
      BY <1>5, <1>6
    <3> QED
      BY <1>3, <2>2, <2>3, <3>1, <3>2 DEF c
  <2>5. \A a, b \in DOMAIN roots' : a # b => Apart(roots'[a], roots'[b])
    <3> SUFFICES ASSUME NEW a \in DOMAIN roots', NEW b \in DOMAIN roots', a # b PROVE Apart(roots'[a], roots'[b])
      OBVIOUS
    <3>1. /\ (a \in DOMAIN roots /\ roots'[a] = roots[a]) \/ (a = Len(roots) + 1 /\ roots'[a] = c)
          /\ (b \in DOMAIN roots /\ roots'[b] = roots[b]) \/ (b = Len(roots) + 1 /\ roots'[b] = c)
      BY <1>5, <1>6
    <3>2. \A j \in DOMAIN roots : Apart(c, roots[j]) /\ Apart(roots[j], c)
      BY <1>3, <2>3 DEF c
    <3>3. \A x, y \in DOMAIN roots : x # y => Apart(roots[x], roots[y])
      BY <1>2, <1>3 DEF RootsDue
    <3> QED
      BY <3>1, <3>2, <3>3
  <2>6. \A a, b \in waiting' : a # b => Apart(verified[a], verified[b])
    BY <1>1, <2>2
  <2>7. verified' = verified /\ Paths(candidates') = Paths(candidates)
    BY <1>2
  <2> QED
    BY <2>1, <2>4, <2>5, <2>6, <2>7 DEF RootsDue, Covers, Apart, Above
<1>9. RoomLeft'
  <2>1. /\ IsFiniteSet(waiting) /\ Len(roots) + Cardinality(waiting) <= MaxRoots
        /\ \/ Len(roots) + Cardinality(waiting) < MaxRoots
           \/ roots = <<>> /\ \E k \in waiting : verified[k].path = Conventional
           \/ roots # <<>> /\ roots[1].path = Conventional
    BY <1>2, <1>3 DEF RoomLeft
  <2>2. IsFiniteSet(waiting') /\ Cardinality(waiting') = Cardinality(waiting) - 1 /\ Cardinality(waiting) \in Nat /\ MaxRoots \in Nat
    BY <1>1, <1>3, <2>1, FS_RemoveElement, FS_CardinalityType, DiscoveryAssumption
  <2>3. (\E k \in waiting : verified[k].path = Conventional) => c.path = Conventional
    BY <1>3 DEF Before
  <2>4. CASE UNCHANGED roots
    BY <1>5, <2>1, <2>2, <2>4 DEF RoomLeft
  <2>5. CASE roots' = Append(roots, c)
    <3>0. Len(roots') = Len(roots) + 1 /\ Len(roots) \in Nat /\ roots' # <<>>
      BY <1>5, <2>5
    <3>1. Len(roots') + Cardinality(waiting') = Len(roots) + Cardinality(waiting) /\ roots' # <<>>
      BY <2>2, <3>0
    <3>2. Len(roots) + Cardinality(waiting) < MaxRoots \/ roots'[1].path = Conventional
      <4>1. CASE roots = <<>> /\ \E k \in waiting : verified[k].path = Conventional
        <5>1. Len(roots) = 0
          BY <4>1
        <5> QED
          BY <1>5, <2>3, <2>5, <4>1, <5>1
      <4>2. CASE roots # <<>> /\ roots[1].path = Conventional
        <5>1. 1 \in DOMAIN roots
          BY <1>3, <4>2
        <5> QED
          BY <1>5, <2>5, <4>2, <5>1
      <4> QED
        BY <2>1, <4>1, <4>2
    <3> QED
      BY <2>1, <2>2, <3>1, <3>2 DEF RoomLeft
  <2> QED
    BY <1>6, <2>4, <2>5
<1>10. RootsInv'
  BY <1>2, <1>3, <1>8, <1>9 DEF RootsInv, NothingYet, Early, Reading, VerifiedApart, FinalDue, RootsTold
<1>11. waiting' \subseteq DOMAIN verified' /\ verified' \in Seq(Sealed) /\ roots' \in Seq(Sealed)
  BY <1>1, <1>2, <1>3, <1>5, <1>6
<1> QED
  BY <1>2, <1>7, <1>10, <1>11, FinalFrame DEF DiscoveryInv, Later

(* The conventional root that was not found is named first.                *)
LEMMA ReturnRootsStep == ASSUME DiscoveryInv, ReturnRoots PROVE DiscoveryInv'
<1>1. /\ dpc = "recheck" /\ dpc' = "returned" /\ waiting = {}
      /\ UNCHANGED <<home, turn, notes, at, gathered, candidates, sourceIssues, present, gitWalk, history, waiting, verified>>
  BY DEF ReturnRoots
<1> DEFINE x == Candidate(Conventional, None, 0, None)
<1>2. \/ roots' = roots /\ roots # <<>> /\ roots[1].path = Conventional
      \/ roots' = <<x>> \o roots /\ ~(roots # <<>> /\ roots[1].path = Conventional)
  BY DEF ReturnRoots
<1>3. /\ verified \in Seq(Sealed) /\ roots \in Seq(Sealed) /\ RootsDue /\ RoomLeft /\ VerifiedApart
      /\ sourceIssues' = [s \in SourceNames |-> sourceIssues'[s]] /\ (Clean' => Clean)
  BY <1>1, CleanSame DEF DiscoveryInv, WorkTyped, RootsInv
<1>4. /\ Clean => \A p \in Paths(candidates) : \E j \in DOMAIN roots : Covers(roots[j], p)
      /\ \A i, j \in DOMAIN roots : i # j => Apart(roots[i], roots[j])
  BY <1>1, <1>3 DEF RootsDue
<1>5. Len(roots) \in Nat /\ Len(roots) <= MaxRoots /\ (Len(roots) < MaxRoots \/ (roots # <<>> /\ roots[1].path = Conventional))
  <2>1. Len(roots) \in Nat /\ Cardinality(waiting) = 0
    BY <1>1, <1>3, FS_EmptySet
  <2> QED
    BY <1>1, <1>3, <2>1, DiscoveryAssumption DEF RoomLeft
<1>6. x.id = None
  BY DEF Candidate
<1> HIDE DEF x
<1>7. RootsTold'
  <2>1. CASE roots' = roots
    BY <1>1, <1>3, <1>4, <1>5, <2>1 DEF RootsTold, Apart, Above, Covers
  <2>2. CASE roots' = <<x>> \o roots /\ Len(roots) < MaxRoots
    <3>1. /\ Len(roots') = Len(roots) + 1 /\ DOMAIN roots' = 1..(Len(roots) + 1) /\ DOMAIN roots = 1..Len(roots)
          /\ roots'[1] = x /\ \A j \in 1..Len(roots) : roots'[j + 1] = roots[j]
      BY <1>3, <2>2
    <3>2. \A j \in DOMAIN roots' : roots'[j].id = None \/ (j - 1 \in DOMAIN roots /\ roots'[j] = roots[j - 1])
      <4> SUFFICES ASSUME NEW j \in DOMAIN roots', j # 1 PROVE j - 1 \in DOMAIN roots /\ roots'[j] = roots[j - 1]
        BY <1>6, <3>1
      <4>1. j - 1 \in 1..Len(roots) /\ (j - 1) + 1 = j
        BY <1>5, <3>1
      <4> QED
        BY <3>1, <4>1
    <3>3. Len(roots') <= MaxRoots
      BY <1>5, <2>2, <3>1, DiscoveryAssumption
    <3>4. \A i, j \in DOMAIN roots' : i # j /\ roots'[i].id # None /\ roots'[j].id # None => Apart(roots'[i], roots'[j])
      <4> SUFFICES ASSUME NEW i \in DOMAIN roots', NEW j \in DOMAIN roots', i # j, roots'[i].id # None, roots'[j].id # None
                   PROVE  Apart(roots'[i], roots'[j])
        OBVIOUS
      <4>1. i - 1 \in DOMAIN roots /\ j - 1 \in DOMAIN roots /\ i - 1 # j - 1 /\ roots'[i] = roots[i - 1] /\ roots'[j] = roots[j - 1]
        BY <3>1, <3>2
      <4> QED
        BY <1>4, <4>1
    <3>5. Clean' => \A p \in Paths(candidates') : \E j \in DOMAIN roots' : Covers(roots'[j], p)
      <4> SUFFICES ASSUME Clean', NEW p \in Paths(candidates') PROVE \E j \in DOMAIN roots' : Covers(roots'[j], p)
        OBVIOUS
      <4>1. PICK j \in DOMAIN roots : Covers(roots[j], p)
        BY <1>1, <1>3, <1>4
      <4>2. j + 1 \in DOMAIN roots' /\ roots'[j + 1] = roots[j]
        BY <1>5, <3>1
      <4> QED
        BY <4>1, <4>2
    <3> QED
      BY <3>3, <3>4, <3>5 DEF RootsTold, Apart, Above, Covers
  <2> QED
    BY <1>2, <1>5, <2>1, <2>2
<1>8. RootsInv'
  BY <1>1, <1>3, <1>7 DEF RootsInv, NothingYet, Early, Reading, VerifiedApart, FinalDue, RootsDue, RoomLeft
<1> QED
  BY <1>1, <1>3, <1>8, FinalFrame DEF DiscoveryInv, Later

(* AbortDiscovery keeps the invariant.                                     *)
LEMMA AbortDiscoveryStep == ASSUME DiscoveryInv, AbortDiscovery PROVE DiscoveryInv'
<1>1. /\ dpc' = "aborted" /\ dpc # "returned"
      /\ candidates' = <<>> /\ gathered' = <<>> /\ roots' = <<>> /\ verified' = <<>> /\ seeds' = <<>> /\ waiting' = {}
      /\ UNCHANGED <<home, turn, notes, at, sourceIssues, present, nodes, link, history>>
  BY DEF AbortDiscovery
<1>2. HomeTyped' /\ LinkHonest'
  BY <1>1, HomeSame, LinkSame DEF DiscoveryInv
<1>3. DOMAIN candidates' = {} /\ DOMAIN verified' = {}
  BY <1>1
<1>4. WorktreeAgreed' /\ NotesOwed'
  BY <1>1, <1>3 DEF WorktreeAgreed, NotesOwed
<1>5. StageTyped'
  BY <1>1 DEF DiscoveryInv, StageTyped, Reading, Later
<1>6. WorkTyped'
  <2>1. <<>> \in Seq(Unsealed) /\ <<>> \in Seq(Sealed) /\ <<>> \in Seq(Remembered)
    OBVIOUS
  <2> QED
    BY <1>1, <2>1 DEF DiscoveryInv, WorkTyped
<1>7. RootsInv'
  BY <1>1, <1>3 DEF RootsInv, NothingYet, Early, Reading, VerifiedApart, FinalDue, RootsDue, RoomLeft, RootsTold
<1> QED
  BY <1>2, <1>4, <1>5, <1>6, <1>7 DEF DiscoveryInv

-----------------------------------------------------------------------------
(* The user, or another program *)

(* What is changed carries the number of the change; a link that changes   *)
(* is written once more, and links that name each other agree.             *)
LEMMA MoveHomeTyped ==
    ASSUME HomeTyped, MoveHome
    PROVE  /\ HomeTyped'
           /\ \A s \in DOMAIN desk' : desk'[s] = desk[s] \/ desk'[s].id # 0
           /\ \A n \in DOMAIN note' : note'[n] = note[n] \/ note'[n].id # 0
           /\ agreed \subseteq agreed' /\ \A x \in DOMAIN Admins \cup Folders : rewrites'[x] >= rewrites[x]
           /\ \A a \in DOMAIN Admins : gitdir'[a] = gitdir[a] \/ rewrites'[a] >= rewrites[a] + 1
           /\ \A f \in Folders : gitfile'[f] = gitfile[f] \/ rewrites'[f] >= rewrites[f] + 1
<1>1. /\ moves < MaxMoves /\ moves' = moves + 1 /\ moves + 1 \in 0..MaxMoves /\ moves + 1 # 0
      /\ agreed' = agreed \cup {f \in Folders : \E a \in DOMAIN Admins : gitdir'[a] = f /\ gitfile'[f] = a}
  BY DiscoveryAssumption DEF MoveHome, Moved, HomeTyped
<1>2. /\ agreed \subseteq agreed' /\ agreed' \subseteq Folders
      /\ \A a \in DOMAIN Admins, f \in Folders : (gitdir'[a] = f /\ gitfile'[f] = a) => f \in agreed'
  BY <1>1 DEF HomeTyped
<1>3. CASE MoveFolder
  <2>1. UNCHANGED <<desk, note, gitdir, gitfile, rewrites>>
    BY <1>3 DEF MoveFolder
  <2>2. PICK x \in DOMAIN place, k \in {"none", "dir", "link"} : place' = [place EXCEPT ![x] = [kind |-> k, id |-> moves + 1]]
    BY <1>3 DEF MoveFolder
  <2>3. [kind |-> k, id |-> moves + 1] \in [kind : {"none", "dir", "link", "file", "locked"}, id : 0..MaxMoves]
    BY <1>1
  <2>4. place' \in [Files -> [kind : {"none", "dir", "link", "file", "locked"}, id : 0..MaxMoves]]
    BY <2>2, <2>3 DEF HomeTyped
  <2>5. \A x1 \in DOMAIN Admins \cup Folders : rewrites'[x1] >= rewrites[x1]
    BY <2>1 DEF HomeTyped
  <2> QED
    BY <1>1, <1>2, <2>1, <2>4, <2>5 DEF HomeTyped, Linked
<1>4. CASE MoveNote
  <2>1. UNCHANGED <<place, gitdir, gitfile, rewrites>>
    BY <1>4 DEF MoveNote
  <2>2. \A x1 \in DOMAIN Admins \cup Folders : rewrites'[x1] >= rewrites[x1]
    BY <2>1 DEF HomeTyped
  <2>3. CASE \E s \in DOMAIN desk : desk' = [desk EXCEPT ![s] = [kind |-> "dir", id |-> moves + 1]] /\ UNCHANGED note
    <3>1. PICK s \in DOMAIN desk : desk' = [desk EXCEPT ![s] = [kind |-> "dir", id |-> moves + 1]] /\ UNCHANGED note
      BY <2>3
    <3>2. [kind |-> "dir", id |-> moves + 1] \in [kind : {"none", "dir", "link", "locked"}, id : 0..MaxMoves]
      BY <1>1
    <3>3. /\ desk' \in [{t.name : t \in Catalog} -> [kind : {"none", "dir", "link", "locked"}, id : 0..MaxMoves]]
          /\ \A t \in DOMAIN desk' : desk'[t] = desk[t] \/ desk'[t] = [kind |-> "dir", id |-> moves + 1]
      BY <3>1, <3>2 DEF HomeTyped
    <3>4. \A t \in DOMAIN desk' : desk'[t] = desk[t] \/ desk'[t].id # 0
      BY <1>1, <3>3
    <3> QED
      BY <1>1, <1>2, <2>1, <2>2, <3>1, <3>3, <3>4 DEF HomeTyped, Linked
  <2>4. CASE \E n \in DOMAIN note : \E m \in DOMAIN note :
                note' = [note EXCEPT ![n] = [kind |-> "dir", doc |-> note[m].doc, id |-> moves + 1]] /\ UNCHANGED desk
    <3>1. PICK n \in DOMAIN note, m \in DOMAIN note :
                note' = [note EXCEPT ![n] = [kind |-> "dir", doc |-> note[m].doc, id |-> moves + 1]] /\ UNCHANGED desk
      BY <2>4
    <3> DEFINE new == [kind |-> "dir", doc |-> note[m].doc, id |-> moves + 1]
    <3>2. new \in NoteStates /\ new.id # 0
      <4>1. note[m] \in NoteStates
        BY DEF HomeTyped
      <4>2. note[m].doc \in Seq(Wordings)
        BY <4>1 DEF NoteStates
      <4> QED
        BY <1>1, <4>2 DEF NoteStates
    <3>3. note' = [note EXCEPT ![n] = new]
      BY <3>1
    <3> HIDE DEF new
    <3>4. note \in [Notes -> NoteStates]
      BY DEF HomeTyped
    <3>5. note' \in [Notes -> NoteStates] /\ \A l \in Notes : note'[l] = note[l] \/ note'[l] = new
      BY <3>2, <3>3, <3>4
    <3>6. \A l \in DOMAIN note' : note'[l] = note[l] \/ note'[l].id # 0
      BY <3>2, <3>5
    <3>7. \A s \in Catalog : s.kind = "vscode" => \A l \in Range(s.notes) : note'[l].id = 0 => Len(note'[l].doc) <= 1
      <4> SUFFICES ASSUME NEW s \in Catalog, s.kind = "vscode", NEW l \in Range(s.notes), note'[l].id = 0
                   PROVE  Len(note'[l].doc) <= 1
        OBVIOUS
      <4>1. l \in Notes
        BY DEF Notes
      <4>2. note'[l] = note[l]
        BY <3>2, <3>5, <4>1
      <4> QED
        BY <4>2 DEF HomeTyped
    <3> QED
      BY <1>1, <1>2, <2>1, <2>2, <3>1, <3>5, <3>6, <3>7 DEF HomeTyped, Linked
  <2> QED
    BY <1>4, <2>3, <2>4 DEF MoveNote
<1>5. CASE MoveWorktree
  <2>1. UNCHANGED <<place, desk, note>>
    BY <1>5 DEF MoveWorktree
  <2>2. DOMAIN Admins \cap Folders = {}
    BY DiscoveryAssumption
  <2>3. CASE \E a \in DOMAIN Admins : \E f \in Folders \cup {None} :
                gitdir' = [gitdir EXCEPT ![a] = f] /\ UNCHANGED gitfile /\ rewrites' = [rewrites EXCEPT ![a] = @ + 1]
    <3>1. PICK a \in DOMAIN Admins, f \in Folders \cup {None} :
                gitdir' = [gitdir EXCEPT ![a] = f] /\ UNCHANGED gitfile /\ rewrites' = [rewrites EXCEPT ![a] = @ + 1]
      BY <2>3
    <3>2. gitdir' \in [DOMAIN Admins -> Folders \cup {None}] /\ \A b \in DOMAIN Admins : b # a => gitdir'[b] = gitdir[b]
      BY <3>1 DEF HomeTyped
    <3>3. /\ rewrites' \in [DOMAIN Admins \cup Folders -> Nat] /\ rewrites'[a] = rewrites[a] + 1
          /\ \A x \in DOMAIN Admins \cup Folders : rewrites[x] \in Nat /\ (x # a => rewrites'[x] = rewrites[x])
      BY <3>1 DEF HomeTyped
    <3>4. \A x \in DOMAIN Admins \cup Folders : rewrites'[x] >= rewrites[x]
      BY <3>3
    <3> QED
      BY <1>1, <1>2, <2>1, <3>1, <3>2, <3>3, <3>4 DEF HomeTyped, Linked
  <2>4. CASE \E f \in Folders : \E v \in DOMAIN Admins \cup {None} :
                gitfile' = [gitfile EXCEPT ![f] = v] /\ UNCHANGED gitdir /\ rewrites' = [rewrites EXCEPT ![f] = @ + 1]
    <3>1. PICK f \in Folders, v \in DOMAIN Admins \cup {None} :
                gitfile' = [gitfile EXCEPT ![f] = v] /\ UNCHANGED gitdir /\ rewrites' = [rewrites EXCEPT ![f] = @ + 1]
      BY <2>4
    <3>2. /\ gitfile' \in [Folders -> DOMAIN Admins \cup {"main", "broken", "link", None}]
          /\ \A g \in Folders : g # f => gitfile'[g] = gitfile[g]
      BY <3>1 DEF HomeTyped
    <3>3. /\ rewrites' \in [DOMAIN Admins \cup Folders -> Nat] /\ rewrites'[f] = rewrites[f] + 1
          /\ \A x \in DOMAIN Admins \cup Folders : rewrites[x] \in Nat /\ (x # f => rewrites'[x] = rewrites[x])
      BY <3>1 DEF HomeTyped
    <3>4. \A x \in DOMAIN Admins \cup Folders : rewrites'[x] >= rewrites[x]
      BY <3>3
    <3> QED
      BY <1>1, <1>2, <2>1, <3>1, <3>2, <3>3, <3>4 DEF HomeTyped, Linked
  <2> QED
    BY <1>5, <2>3, <2>4 DEF MoveWorktree
<1> QED
  BY <1>3, <1>4, <1>5 DEF MoveHome

(* A link that breaks or comes back between two looks was written.         *)
LEMMA MoveHomeStep == ASSUME DiscoveryInv, MoveHome PROVE DiscoveryInv'
<1>1. UNCHANGED <<dpc, turn, notes, at, gathered, candidates, sourceIssues, present, gitWalk, finalization>>
  BY DEF MoveHome
<1>2. UNCHANGED <<seeds, nodes, link>> /\ UNCHANGED <<waiting, verified, roots>>
  BY <1>1 DEF gitWalk, finalization
<1>3. /\ HomeTyped /\ HomeTyped'
      /\ \A s \in DOMAIN desk' : desk'[s] = desk[s] \/ desk'[s].id # 0
      /\ \A n \in DOMAIN note' : note'[n] = note[n] \/ note'[n].id # 0
      /\ agreed \subseteq agreed' /\ \A x \in DOMAIN Admins \cup Folders : rewrites'[x] >= rewrites[x]
      /\ \A a \in DOMAIN Admins : gitdir'[a] = gitdir[a] \/ rewrites'[a] >= rewrites[a] + 1
      /\ \A f \in Folders : gitfile'[f] = gitfile[f] \/ rewrites'[f] >= rewrites[f] + 1
  BY MoveHomeTyped DEF DiscoveryInv
<1>4. StageTyped'
  BY <1>1, <1>2 DEF DiscoveryInv, StageTyped, Source
<1>5. WorkTyped'
  BY <1>1, <1>2 DEF DiscoveryInv, WorkTyped
<1>6. NotesOwed'
  <2> SUFFICES ASSUME Clean', dpc' # "aborted", NEW i \in DOMAIN Sources, NEW k \in DOMAIN Sources[i].notes, SteadyNote(i, k)',
                      ~NoteAhead(i, k)', NEW p \in Range(note'[Sources[i].notes[k]].doc)
               PROVE  Carried(p, i)'
    BY DEF NotesOwed
  <2>1. Sources[i] \in Catalog /\ Sources[i].name \in {s.name : s \in Catalog} /\ Sources[i].notes \in Seq(Notes)
    <3>1. Sources \in Seq(Catalog)
      BY DiscoveryAssumption
    <3>2. Sources[i] \in Catalog
      BY <3>1
    <3> QED
      BY <3>2, DiscoveryAssumption
  <2>2. Sources[i].notes[k] \in Notes
    BY <2>1
  <2>3. desk'[Sources[i].name] = desk[Sources[i].name]
    <3>1. Sources[i].name \in DOMAIN desk' /\ desk'[Sources[i].name] = [kind |-> "dir", id |-> 0]
      BY <1>3, <2>1 DEF HomeTyped, SteadyNote
    <3>2. desk'[Sources[i].name].id = 0
      BY <3>1
    <3> QED
      BY <1>3, <3>1, <3>2
  <2>4. note'[Sources[i].notes[k]] = note[Sources[i].notes[k]]
    BY <1>3, <2>2 DEF HomeTyped, SteadyNote
  <2>5. SteadyNote(i, k) /\ p \in Range(note[Sources[i].notes[k]].doc)
    BY <2>3, <2>4 DEF SteadyNote
  <2>6. Clean /\ dpc # "aborted" /\ ~NoteAhead(i, k)
    BY <1>1, CleanSame DEF NoteAhead
  <2>7. Carried(p, i)
    BY <2>5, <2>6 DEF DiscoveryInv, NotesOwed
  <2> QED
    BY <1>1, <2>7 DEF Carried
<1>7. LinkHonest'
  <2> SUFFICES ASSUME link # None PROVE LinkTyped' /\ LooksTell'
    BY <1>2 DEF LinkHonest
  <2>1. LinkTyped /\ LooksTell
    BY DEF DiscoveryInv, LinkHonest
  <2>2. LinkTyped'
    BY <1>2, <2>1 DEF LinkTyped
  <2>3. CASE link.looks >= 1
    <3> DEFINE a == link.admin
               f == link.target
    <3>1. a \in DOMAIN Admins /\ f \in Folders /\ link.way \in {"back", "forth"} /\ link.looks \in 0..3
      BY <2>1, <2>3 DEF LooksTell, LinkTyped, LinkStates
    <3>2. /\ rewrites[a] \in Nat /\ rewrites'[a] \in Nat /\ rewrites[f] \in Nat /\ rewrites'[f] \in Nat
      BY <1>3, <3>1 DEF HomeTyped
    <3>3. /\ rewrites'[a] >= rewrites[a] /\ rewrites'[f] >= rewrites[f]
          /\ gitdir'[a] = gitdir[a] \/ rewrites'[a] >= rewrites[a] + 1
          /\ gitfile'[f] = gitfile[f] \/ rewrites'[f] >= rewrites[f] + 1
      BY <1>3, <3>1
    <3>4. /\ ForeWrites \in Nat /\ ForeWrites' \in Nat /\ AftWrites \in Nat /\ AftWrites' \in Nat
          /\ ForeWrites' >= ForeWrites /\ AftWrites' >= AftWrites
          /\ Fore' = Fore \/ ForeWrites' >= ForeWrites + 1
          /\ Aft' = Aft \/ AftWrites' >= AftWrites + 1
      BY <1>2, <3>1, <3>2, <3>3 DEF Fore, Aft, ForeWrites, AftWrites
    <3>5. f \in agreed => f \in agreed'
      BY <1>3
    <3> HIDE DEF a
    <3> QED
      BY <1>2, <2>1, <2>2, <2>3, <3>1, <3>4, <3>5 DEF LooksTell, a
  <2>4. CASE ~(link.looks >= 1)
    <3>1. link.looks \in 0..3
      BY <2>1 DEF LinkTyped, LinkStates
    <3> QED
      BY <1>2, <2>2, <2>4, <3>1 DEF LooksTell
  <2> QED
    BY <2>3, <2>4
<1>8. WorktreeAgreed'
  <2> SUFFICES ASSUME NEW i \in DOMAIN candidates, candidates[i].source = Git, candidates[i].priority = 5
               PROVE  \/ candidates[i].path \in agreed'
                      \/ rewrites'[candidates[i].path] >= 2 /\ \E a \in DOMAIN Admins : rewrites'[a] >= 2
    BY <1>1 DEF WorktreeAgreed
  <2> DEFINE f == candidates[i].path
  <2>1. f \in agreed \/ (rewrites[f] >= 2 /\ \E a \in DOMAIN Admins : rewrites[a] >= 2)
    BY DEF DiscoveryInv, WorktreeAgreed
  <2>2. CASE f \in agreed
    BY <1>3, <2>2
  <2>3. CASE f \in Folders /\ rewrites[f] >= 2 /\ \E a \in DOMAIN Admins : rewrites[a] >= 2
    <3>1. PICK a \in DOMAIN Admins : rewrites[a] >= 2
      BY <2>3
    <3>2. rewrites[a] \in Nat /\ rewrites'[a] \in Nat /\ rewrites[f] \in Nat /\ rewrites'[f] \in Nat
      BY <1>3, <2>3 DEF HomeTyped
    <3>3. rewrites'[a] >= rewrites[a] /\ rewrites'[f] >= rewrites[f]
      BY <1>3, <2>3
    <3> QED
      BY <2>3, <3>1, <3>2, <3>3
  <2>4. f \in Folders
    <3>1. candidates[i] \in Unsealed
      BY DEF DiscoveryInv, WorkTyped
    <3> QED
      BY <3>1 DEF Unsealed
  <2> QED
    BY <2>1, <2>2, <2>3, <2>4
<1>9. RootsInv'
  BY <1>1, <1>2, CleanSame DEF DiscoveryInv, RootsInv, NothingYet, VerifiedApart, FinalDue, RootsDue, RoomLeft, RootsTold, Covers, Apart, Above
<1> QED
  BY <1>3, <1>4, <1>5, <1>6, <1>7, <1>8, <1>9 DEF DiscoveryInv

-----------------------------------------------------------------------------
(* The discovery *)
LEMMA DiscoveryInit_Inv == DiscoveryInit => DiscoveryInv
<1> SUFFICES ASSUME DiscoveryInit PROVE DiscoveryInv
  OBVIOUS
<1>1. PICK h \in HomeStarts :
        /\ place = h.place /\ desk = h.desk /\ note = h.note /\ gitdir = h.gitdir /\ gitfile = h.gitfile
        /\ moves = h.moves
  BY DEF DiscoveryInit
<1>2. /\ h \in [moves : 0..MaxMoves,
                place : [Files -> [kind : {"none", "dir", "link", "file", "locked"}, id : 0..MaxMoves]],
                desk : [{s.name : s \in Catalog} -> [kind : {"none", "dir", "link", "locked"}, id : 0..MaxMoves]],
                note : [Notes -> NoteStates],
                gitdir : [DOMAIN Admins -> Folders \cup {None}],
                gitfile : [Folders -> DOMAIN Admins \cup {"main", "broken", "link", None}]]
      /\ \A s \in Catalog : s.kind = "vscode" => \A n \in Range(s.notes) : Len(h.note[n].doc) <= 1
  BY DiscoveryAssumption DEF NoteStates
<1>3. /\ dpc = "source" /\ turn = 1 /\ notes = {}
      /\ at = [source |-> None, note |-> None, seen |-> None]
      /\ gathered = <<>> /\ candidates = <<>> /\ sourceIssues = [s \in SourceNames |-> {}] /\ present = {}
      /\ seeds = <<>> /\ nodes = {} /\ link = None
      /\ agreed = {f \in Folders : \E a \in DOMAIN Admins : Linked(a, f)}
      /\ rewrites = [x \in DOMAIN Admins \cup Folders |-> 0]
      /\ waiting = {} /\ verified = <<>> /\ roots = <<>>
  BY DEF DiscoveryInit
<1>4. HomeTyped
  <2>1. rewrites \in [DOMAIN Admins \cup Folders -> Nat] /\ agreed \subseteq Folders
    BY <1>3
  <2>2. \A a \in DOMAIN Admins, f \in Folders : Linked(a, f) => f \in agreed
    BY <1>3
  <2> QED
    BY <1>1, <1>2, <2>1, <2>2 DEF HomeTyped
<1>5. StageTyped
  <2>1. Len(Sources) \in Nat
    BY DiscoveryAssumption
  <2> QED
    BY <1>3, <2>1 DEF StageTyped, Reading, Later
<1>6. WorkTyped
  <2>1. <<>> \in Seq(Unsealed) /\ <<>> \in Seq(Sealed) /\ <<>> \in Seq(Remembered)
    OBVIOUS
  <2> QED
    BY <1>3, <2>1 DEF WorkTyped
<1>7. NotesOwed
  <2>1. \A i \in DOMAIN Sources : i > 1 \/ i = 1
    BY DiscoveryAssumption
  <2> QED
    BY <1>3, <2>1 DEF NotesOwed, NoteAhead
<1>8. LinkHonest /\ WorktreeAgreed
  <2>1. DOMAIN candidates = {}
    BY <1>3
  <2> QED
    BY <1>3, <2>1 DEF LinkHonest, WorktreeAgreed
<1>9. RootsInv
  <2>1. DOMAIN verified = {}
    BY <1>3
  <2> QED
    BY <1>3, <2>1 DEF RootsInv, NothingYet, VerifiedApart, FinalDue, RootsDue, RoomLeft, RootsTold
<1> QED
  BY <1>4, <1>5, <1>6, <1>7, <1>8, <1>9 DEF DiscoveryInv

(* Every step of the discovery, and of the user meanwhile, keeps the       *)
(* invariant.                                                              *)
LEMMA DiscoveryNext_Inv == DiscoveryInv /\ [DiscoveryNext]_discoveryVars => DiscoveryInv'
<1> SUFFICES ASSUME DiscoveryInv, [DiscoveryNext]_discoveryVars PROVE DiscoveryInv'
  OBVIOUS
<1>1. CASE UNCHANGED discoveryVars
  <2>1. /\ UNCHANGED <<home, history, link, candidates>>
        /\ UNCHANGED <<dpc, turn, notes, at, gathered, sourceIssues, present, seeds, nodes, waiting, verified, roots>>
    BY <1>1 DEF discoveryVars, gitWalk, finalization
  <2>2. HomeTyped' /\ LinkHonest' /\ WorktreeAgreed'
    BY <2>1, HomeSame, LinkSame, WorktreeSame DEF DiscoveryInv
  <2>3. StageTyped' /\ WorkTyped'
    BY <2>1 DEF DiscoveryInv, StageTyped, WorkTyped, Source
  <2>4. NotesOwed'
    BY <2>1, CleanSame DEF DiscoveryInv, NotesOwed, SteadyNote, NoteAhead, Carried, home
  <2>5. RootsInv'
    BY <2>1, CleanSame DEF DiscoveryInv, RootsInv, NothingYet, VerifiedApart, FinalDue, RootsDue, RoomLeft, RootsTold, Covers, Apart, Above
  <2> QED
    BY <2>2, <2>3, <2>4, <2>5 DEF DiscoveryInv
<1>2. CASE OpenSource \/ ListSource \/ ReadNote \/ ConfirmNote \/ CloseSource \/ BeginSeeds
  BY <1>2, OpenSourceStep, ListSourceStep, ReadNoteStep, ConfirmNoteStep, CloseSourceStep, BeginSeedsStep
<1>3. CASE VerifySeed \/ LookConventional \/ OpenSeed \/ WalkNode \/ FirstLook \/ LookAgain \/ EndLinks
  BY <1>3, VerifySeedStep, LookConventionalStep, OpenSeedStep, WalkNodeStep, FirstLookStep, LookAgainStep, EndLinksStep
<1>4. CASE BeginFinal \/ VerifyCandidate \/ SelectRoots \/ RecheckRoot \/ ReturnRoots \/ AbortDiscovery
  BY <1>4, BeginFinalStep, VerifyCandidateStep, SelectRootsStep, RecheckRootStep, ReturnRootsStep, AbortDiscoveryStep
<1>5. CASE MoveHome
  BY <1>5, MoveHomeStep
<1> QED
  BY <1>1, <1>2, <1>3, <1>4, <1>5 DEF DiscoveryNext

(* What the notes that nobody touched name are candidates in the end.      *)
LEMMA SteadyAreCandidates ==
    ASSUME DiscoveryInv, dpc = "returned", Clean
    PROVE  SteadyPaths \subseteq Paths(candidates)
<1> SUFFICES ASSUME NEW p \in SteadyPaths PROVE p \in Paths(candidates)
  OBVIOUS
<1>0. PICK s \in Catalog : \E m \in Range(s.notes) :
        /\ desk[s.name] = [kind |-> "dir", id |-> 0]
        /\ note[m].kind = "dir" /\ note[m].id = 0 /\ note[m].doc # <<"absent">> /\ p \in Range(note[m].doc)
  BY DEF SteadyPaths
<1>1. PICK n \in Range(s.notes) :
        /\ desk[s.name] = [kind |-> "dir", id |-> 0]
        /\ note[n].kind = "dir" /\ note[n].id = 0 /\ note[n].doc # <<"absent">> /\ p \in Range(note[n].doc)
  BY <1>0
<1>2. PICK i \in DOMAIN Sources : s = Sources[i]
  BY DEF Catalog, Range
<1>3. PICK k \in DOMAIN s.notes : n = s.notes[k]
  BY DEF Range
<1>4. SteadyNote(i, k) /\ p \in Range(note[Sources[i].notes[k]].doc) /\ k \in DOMAIN Sources[i].notes
  BY <1>1, <1>2, <1>3 DEF SteadyNote
<1>5. i \in 1..Len(Sources) /\ turn = Len(Sources) + 1
  BY DiscoveryAssumption DEF DiscoveryInv, StageTyped, Later
<1>6. ~NoteAhead(i, k)
  BY <1>5 DEF NoteAhead
<1>7. Carried(p, i)
  BY <1>4, <1>6 DEF DiscoveryInv, NotesOwed
<1> QED
  BY <1>7 DEF Carried

(* What the invariant says of the discovery in the words of the            *)
(* properties.                                                             *)
LEMMA DiscoveryInvMeans == DiscoveryInv => DiscoveryTypeOK /\ NothingLeftOut /\ RootsApart /\ WorktreeAgreed
<1> SUFFICES ASSUME DiscoveryInv PROVE DiscoveryTypeOK /\ NothingLeftOut /\ RootsApart /\ WorktreeAgreed
  OBVIOUS
<1>1. Len(roots) <= MaxRoots
  <2>1. CASE roots = <<>>
    <3>1. Len(roots) = 0
      BY <2>1
    <3> QED
      BY <3>1, DiscoveryAssumption
  <2>2. CASE dpc = "recheck"
    <3>1. Len(roots) \in Nat /\ IsFiniteSet(waiting) /\ Len(roots) + Cardinality(waiting) <= MaxRoots
      BY <2>2 DEF DiscoveryInv, WorkTyped, RootsInv, RoomLeft
    <3>2. Cardinality(waiting) \in Nat
      BY <3>1, FS_CardinalityType
    <3> QED
      BY <3>1, <3>2, DiscoveryAssumption
  <2>3. CASE dpc = "returned"
    BY <2>3 DEF DiscoveryInv, RootsInv, RootsTold
  <2> QED
    BY <2>1, <2>2, <2>3 DEF DiscoveryInv, StageTyped, RootsInv, NothingYet, FinalDue, Early, Reading, Later
<1>2. DiscoveryTypeOK
  <2>1. \A x \in DOMAIN place : place[x].kind \in {"none", "dir", "link", "file", "locked"} /\ place[x].id \in 0..MaxMoves
    BY DEF DiscoveryInv, HomeTyped
  <2>2. present \subseteq SourceNames /\ DOMAIN sourceIssues = SourceNames
    BY DEF DiscoveryInv, WorkTyped
  <2>3. ASSUME NEW i \in DOMAIN candidates PROVE candidates[i].source \in SourceNames /\ candidates[i].priority \in 0..5
    <3>1. candidates[i] \in Unsealed
      BY DEF DiscoveryInv, WorkTyped
    <3> QED
      BY <3>1 DEF Unsealed
  <2> QED
    BY <1>1, <2>1, <2>2, <2>3 DEF DiscoveryTypeOK, DiscoveryInv, HomeTyped, WorkTyped
<1>3. NothingLeftOut
  <2> SUFFICES ASSUME dpc = "returned", Clean, NEW p \in Paths(candidates) \cup SteadyPaths
               PROVE  p \in Folders /\ \E j \in DOMAIN roots : roots[j].id # None /\ \E g \in Line[p] : FileOf[roots[j].path] = FileOf[g]
    BY DEF NothingLeftOut, Clean, Paths
  <2>1. p \in Paths(candidates)
    BY SteadyAreCandidates
  <2> QED
    BY <2>1 DEF DiscoveryInv, RootsInv, RootsTold, Covers
<1>4. RootsApart
  BY <1>1 DEF DiscoveryInv, RootsInv, RootsTold, RootsApart, Apart
<1> QED
  BY <1>2, <1>3, <1>4 DEF DiscoveryInv

-----------------------------------------------------------------------------
(* The collectors side by side: each starts where it starts alone, and a   *)
(* step of the composition is a step of one part that is chosen, and of no *)
(* other.                                                                  *)
LEMMA PartChosen ==
    /\ CollectInit /\ part = "tree" => TreeInit
    /\ CollectInit /\ part = "packages" => PackagesInit
    /\ CollectInit /\ part = "mcp" => McpInit
    /\ CollectInit /\ part = "discovery" => DiscoveryInit
    /\ CollectInit /\ part = "walk" => ProjectInit
    /\ CollectInit /\ part = "ide" => InitIde
    /\ CollectInit /\ part = "agents" => InitAgents
    /\ CollectInit /\ part = "ladder" => InitLadder
    /\ CollectInit /\ part = "versions" => InitVersions
    /\ CollectInit /\ part = "surfaces" => InitSurfaces
    /\ CollectInit /\ part = "runtime" => InitRuntime
BY DEF CollectInit

(* A step of the composition is one of the part that is chosen.            *)
LEMMA PartsStepAlone ==
    ASSUME [CollectNext]_collectVars
    PROVE  /\ part' = part
           /\ part = "tree" => [TreeNext]_treeVars
           /\ part = "packages" => [PackagesNext]_packagesVars
           /\ part = "mcp" => [McpNext]_mcpVars
           /\ part = "discovery" => [DiscoveryNext]_discoveryVars
           /\ part = "walk" => [ProjectNext]_projectVars
           /\ part = "ide" => [NextIde]_ideVars
           /\ part = "agents" => [NextAgents]_agentVars
           /\ part = "ladder" => [NextLadder]_ladderVars
           /\ part = "versions" => [NextVersions]_versionVars
           /\ part = "surfaces" => [NextSurfaces]_surfaceVars
           /\ part = "runtime" => [NextRuntime]_runtimeVars
<1>1. CASE TreePart
  BY <1>1 DEF TreePart
<1>2. CASE PackagesPart
  BY <1>2 DEF PackagesPart
<1>3. CASE McpPart
  BY <1>3 DEF McpPart
<1>4. CASE WalkPart
  BY <1>4 DEF WalkPart
<1>5. CASE IdePart
  BY <1>5 DEF IdePart
<1>6. CASE AgentsPart
  BY <1>6 DEF AgentsPart
<1>7. CASE LadderPart
  BY <1>7 DEF LadderPart
<1>8. CASE VersionsPart
  BY <1>8 DEF VersionsPart
<1>9. CASE SurfacesPart
  BY <1>9 DEF SurfacesPart
<1>10. CASE RuntimePart
  BY <1>10 DEF RuntimePart
<1>11. CASE DiscoveryPart
  BY <1>11 DEF DiscoveryPart
<1>12. CASE UNCHANGED collectVars
  BY <1>12 DEF collectVars
<1> QED
  BY <1>1, <1>2, <1>3, <1>4, <1>5, <1>6, <1>7, <1>8, <1>9, <1>10, <1>11, <1>12 DEF CollectNext

(* The invariant of the part at work.                                      *)
PartsInv ==
    /\ part = "tree" => TreeInv
    /\ part = "packages" => PackagesInv
    /\ part = "mcp" => McpInv
    /\ part = "discovery" => DiscoveryInv
    /\ part = "walk" => WalkInv
    /\ part = "ide" => IdeInv
    /\ part = "agents" => AgentInv
    /\ part = "ladder" => LadderInv
    /\ part = "versions" => VersionInv
    /\ part = "surfaces" => SurfacesInv
    /\ part = "runtime" => RuntimeInv

(* Whatever part is chosen, its invariant holds.                           *)
LEMMA PartsHold == CollectSpec => []PartsInv
<1>1. CollectInit => PartsInv
  BY PartChosen, TreeInit_Inv, PackagesInit_Inv, McpInit_Inv, DiscoveryInit_Inv, WalkInit_Inv, IdeInit_Inv, AgentInit_Inv,
     LadderInit, VersionInit, SurfacesInit_Inv, RuntimeInit DEF PartsInv
<1>2. PartsInv /\ [CollectNext]_collectVars => PartsInv'
  BY PartsStepAlone, TreeNext_Inv, PackagesNext_Inv, McpNext_Inv, DiscoveryNext_Inv, WalkNext_Inv, IdeNext_Inv, AgentNext_Inv,
     LadderNext, VersionNext, SurfacesNext_Inv, RuntimeNext DEF PartsInv
<1> QED
  BY <1>1, <1>2, PTL DEF CollectSpec

(* Every collector stays within its types.                                 *)
THEOREM CollectorsTyped == CollectSpec => []CollectTypeOK
<1>1. PartsInv => CollectTypeOK
  BY TreeInvMeans, PackagesInvMeans, McpInvMeans, DiscoveryInvMeans, WalkInvMeans, IdeInvMeans, AgentInvMeans
  DEF PartsInv, SurfacesInv, SurfacesShape, CollectTypeOK
<1> QED
  BY <1>1, PartsHold, PTL

(* A directory, package target, project root, editor or plugin target that *)
(* is called complete left nothing out that was there and stayed, and a    *)
(* discovery without an issue has a root for every folder it was told of.  *)
THEOREM CompleteLeavesNothingOut == CollectSpec => []CompleteMeansAll
<1>1. PartsInv => CompleteMeansAll
  BY TreeInvMeans, PackagesInvMeans, DiscoveryInvMeans, WalkInvMeans, IdeInvMeans, AgentInvMeans DEF PartsInv, CompleteMeansAll
<1> QED
  BY <1>1, PartsHold, PTL

(* What is reported was read from the very file that is anchored, though   *)
(* files are exchanged and rewritten between any two looks at them.        *)
THEOREM ReportsAreAsRead == CollectSpec => []ReportedAsRead
<1>1. PartsInv => ReportedAsRead
  BY TreeInvMeans, PackagesInvMeans, WalkInvMeans, IdeInvMeans, AgentInvMeans DEF PartsInv, ReportedAsRead, SurfacesInv
<1> QED
  BY <1>1, PartsHold, PTL

(* Roots are files of their own and lie apart, both sides agreed on a      *)
(* worktree, a provenance does not depend on the order of the lockfiles,   *)
(* an identity is stated once in its manifest, a bundled skill belongs to  *)
(* a plugin that is reported, and a listener to a process that was seen.   *)
THEOREM OneThingOneName == CollectSpec => []IdentitiesAgree
<1>1. PartsInv => IdentitiesAgree
  BY DiscoveryInvMeans, WalkInvMeans, IdeInvMeans, AgentInvMeans DEF PartsInv, RuntimeInv, IdentitiesAgree
<1> QED
  BY <1>1, PartsHold, PTL

(* A pass that did not end complete leaves no digest in the cache.         *)
THEOREM CompletedCached == CollectSpec => CacheHoldsCompleted
<1>1. PartsInv /\ [CollectNext]_collectVars => [part = "tree" => OnlyCompleteCached]_treeVars
  BY PartsStepAlone, TreeStepCaches DEF PartsInv
<1> QED
  BY <1>1, PartsHold, PTL DEF CollectSpec, CacheHoldsCompleted

(* Every declared configuration is answered once, a complete target has    *)
(* the servers of the document that was read, a handed file is never       *)
(* called absent, and a package target that is not complete says why.      *)
THEOREM TargetsAreExplained == CollectSpec => TargetsExplained
<1>1. PartsInv => (part = "mcp" => EveryDeclarationAnswered) /\ (part = "packages" => PackagesExplained)
  BY McpInvMeans, PackagesInvMeans DEF PartsInv
<1>2. PartsInv /\ [CollectNext]_collectVars => [part = "mcp" => McpCompleteTrue /\ DiscoveredNeverAbsent /\ HandoffAnswered]_mcpVars
  <2> SUFFICES ASSUME PartsInv, [CollectNext]_collectVars, part = "mcp"
               PROVE  [McpCompleteTrue /\ DiscoveredNeverAbsent /\ HandoffAnswered]_mcpVars
    OBVIOUS
  <2>1. McpInv /\ [McpNext]_mcpVars
    BY PartsStepAlone DEF PartsInv
  <2> QED
    BY <2>1, McpStepTrue
<1> QED
  BY <1>1, <1>2, PartsHold, PTL DEF CollectSpec, TargetsExplained

(* The difference of two snapshots is told, once for each asset that       *)
(* moved, and what could not be hashed does not pass for an upgrade.       *)
THEOREM DriftIsTold == CollectSpec => []DriftTold
<1>1. PartsInv => DriftTold
  BY LadderHidesNothing, LadderGapsSpeak DEF PartsInv, DriftTold
<1> QED
  BY <1>1, PartsHold, PTL

(* Versions of both kinds are totally ordered, one alternative of a range  *)
(* matches an interval of them, a window holds the version it is drawn     *)
(* from, and a selector is supported or not whatever the version.          *)
THEOREM RangesAreSound == CollectSpec => []RangesSound
<1>1. PartsInv => RangesSound
  BY OrdersSound, IntervalsSound DEF PartsInv, RangesSound
<1> QED
  BY <1>1, PartsHold, PTL

=============================================================================
