---------------------------- MODULE EvidenceProofs ----------------------------
(***************************************************************************)
(* Proofs about what a scan reads, compares and matches: the evidence tree *)
(* with its cache, the ladder of drift, the runtime probes and the order   *)
(* of versions, for any directories, edits, inventories and ranges.        *)
(***************************************************************************)
EXTENDS EvidenceTree, Ladder, RuntimeProbes, VersionRange,
        FiniteSetTheorems, SequenceTheorems, WellFoundedInduction, TLAPS

-----------------------------------------------------------------------------
(* Least numbers *)

(* Numbers that are not none have a least one. *)
LEMMA LeastOf ==
    ASSUME NEW S \in SUBSET Nat, S # {}
    PROVE  \E x \in S : \A y \in S : x <= y
<1>1. \E x \in S : \A y \in S : ~(<<y, x>> \in OpToRel(<, Nat))
  BY NatLessThanWellFounded, WFMin
<1>2. PICK x \in S : \A y \in S : ~(<<y, x>> \in OpToRel(<, Nat))
  BY <1>1
<1>3. ASSUME NEW y \in S PROVE x <= y
  <2>1. x \in Nat /\ y \in Nat
    OBVIOUS
  <2>2. <<y, x>> \notin {ss \in Nat \X Nat : ss[1] < ss[2]}
    BY <1>2 DEF OpToRel
  <2>3. ~(y < x)
    BY <2>1, <2>2
  <2> QED
    BY <2>1, <2>3
<1> QED
  BY <1>3

LEMMA MinInside ==
    ASSUME NEW S \in SUBSET Nat, S # {}
    PROVE  Min(S) \in S
BY LeastOf DEF Min

-----------------------------------------------------------------------------
(* The evidence tree *)

AtEntry == {"cache", "lookup", "recheck", "record", "open", "read", "check", "write"}
TreePlaces == {"list", "next", "result", "commit"} \cup AtEntry
Codes == {"file_limit", "read_unavailable", "symlink_rejected", "depth_limit", "byte_limit", "identity_changed", "time_limit"}
AnyInode == Inodes \cup {0}
Stamps == [ino : AnyInode, time : 0..MaxEdits]
LeafRows == [leaf : Leaves, ino : AnyInode, time : 0..MaxEdits, data : Seq(Blocks)]
CachedLeaves == [leaf : Leaves, ino : AnyInode, time : 0..MaxEdits, data : Seq(Blocks), used : {0, 1}]
Verdicts == {"complete", "partial", "oversize", "unavailable"}

TreeArrays ==
    /\ tpc = [s \in Scanners |-> tpc[s]] /\ todo = [s \in Scanners |-> todo[s]]
    /\ listed = [s \in Scanners |-> listed[s]] /\ leaf = [s \in Scanners |-> leaf[s]]
    /\ first = [s \in Scanners |-> first[s]] /\ fd = [s \in Scanners |-> fd[s]]
    /\ read = [s \in Scanners |-> read[s]] /\ total = [s \in Scanners |-> total[s]]
    /\ errors = [s \in Scanners |-> errors[s]] /\ flags = [s \in Scanners |-> flags[s]]
    /\ digests = [s \in Scanners |-> digests[s]] /\ writes = [s \in Scanners |-> writes[s]]
    /\ verdict = [s \in Scanners |-> verdict[s]]

FilesShape ==
    /\ entry \in [Leaves -> [kind : {"none", "file", "link", "deep"}, ino : AnyInode]]
    /\ edits \in 0..MaxEdits
    /\ inode \in [AnyInode -> [data : Data, time : 0..MaxEdits]]
    /\ truth \in [0..MaxEdits -> Data]
    /\ cacheRows \subseteq CachedLeaves

PlacesShape(s) ==
    /\ tpc[s] \in TreePlaces /\ todo[s] \subseteq Leaves /\ listed[s] \subseteq Leaves
    /\ leaf[s] \in Leaves \cup {0} /\ first[s] \in Stamps /\ fd[s] \in AnyInode
    /\ read[s] \in Seq(Blocks)

ResultShape(s) ==
    /\ total[s] \in Nat /\ errors[s] \in Seq(Codes) /\ flags[s] \subseteq {"partial", "oversize"}
    /\ digests[s] \subseteq LeafRows /\ writes[s] \subseteq LeafRows
    /\ verdict[s] \in Verdicts \cup {None}

(* What is true of the files and the rows that are kept. *)
TrueRow(r) == r.time <= edits /\ r.data = truth[r.time]
FilesHonest ==
    /\ \A i \in AnyInode : inode[i].time <= edits /\ inode[i].data = truth[inode[i].time]
    /\ \A r \in cacheRows : TrueRow(r)

(* What a scanner has read is what the file held at the time it looked,    *)
(* once that was checked; until then it is the beginning of it while the   *)
(* file stays as it was.                                                   *)
ScannerHonest(s) ==
    /\ first[s].time <= edits
    /\ \A d \in digests[s] : TrueRow(d)
    /\ tpc[s] \in {"recheck", "record", "write"} => read[s] = truth[first[s].time]
    /\ tpc[s] \in {"read", "check"} /\ Stamp(fd[s]) = first[s] =>
          /\ Len(read[s]) <= Len(inode[fd[s]].data)
          /\ \A k \in 1..Len(read[s]) : read[s][k] = inode[fd[s]].data[k]

(* The entries that are listed and neither left nor at work are in the     *)
(* digest, unless an error says otherwise.                                 *)
ScannerExplains(s) ==
    /\ Len(errors[s]) <= MaxErrors /\ total[s] <= MaxTotalSize
    /\ tpc[s] # "commit" => verdict[s] = None /\ (flags[s] = {} <=> errors[s] = <<>>)
    /\ tpc[s] = "commit" =>
          /\ verdict[s] \in Verdicts
          /\ verdict[s] = "complete" => flags[s] = {} /\ errors[s] = <<>>
          /\ verdict[s] # "complete" => errors[s] # <<>> /\ writes[s] = {}
    /\ writes[s] \subseteq digests[s]
    /\ todo[s] \subseteq listed[s]
    /\ tpc[s] = "list" => todo[s] = {} /\ listed[s] = {} /\ digests[s] = {}
    /\ tpc[s] \in AtEntry => leaf[s] \in listed[s] \ todo[s]
    /\ flags[s] = {} => {d.leaf : d \in digests[s]} = listed[s] \ (todo[s] \cup (IF tpc[s] \in AtEntry THEN {leaf[s]} ELSE {}))
    /\ tpc[s] \in {"result", "commit"} /\ flags[s] = {} => todo[s] = {}

ScannerOK(s) == PlacesShape(s) /\ ResultShape(s) /\ ScannerHonest(s) /\ ScannerExplains(s)

TreeInv == TreeArrays /\ FilesShape /\ FilesHonest /\ \A s \in Scanners : ScannerOK(s)

(* A step of one scanner leaves the others where they are. *)
OwnStep(s) ==
    /\ tpc' = [tpc EXCEPT ![s] = tpc'[s]] /\ todo' = [todo EXCEPT ![s] = todo'[s]]
    /\ listed' = [listed EXCEPT ![s] = listed'[s]] /\ leaf' = [leaf EXCEPT ![s] = leaf'[s]]
    /\ first' = [first EXCEPT ![s] = first'[s]] /\ fd' = [fd EXCEPT ![s] = fd'[s]]
    /\ read' = [read EXCEPT ![s] = read'[s]] /\ total' = [total EXCEPT ![s] = total'[s]]
    /\ errors' = [errors EXCEPT ![s] = errors'[s]] /\ flags' = [flags EXCEPT ![s] = flags'[s]]
    /\ digests' = [digests EXCEPT ![s] = digests'[s]] /\ writes' = [writes EXCEPT ![s] = writes'[s]]
    /\ verdict' = [verdict EXCEPT ![s] = verdict'[s]]

(* A scanner that added an error. *)
Failing(s) ==
    /\ errors' = [errors EXCEPT ![s] = errors'[s]] /\ flags' = [flags EXCEPT ![s] = flags'[s]]
    /\ tpc' = [tpc EXCEPT ![s] = tpc'[s]]
    /\ errors'[s] \in Seq(Codes) /\ errors'[s] # <<>> /\ Len(errors'[s]) <= MaxErrors
    /\ flags'[s] \subseteq {"partial", "oversize"} /\ flags'[s] # {} /\ tpc'[s] \in {"result", "next"}

TreeKnown(s) == TreeArrays /\ FilesShape /\ FilesHonest /\ PlacesShape(s) /\ ResultShape(s) /\ ScannerHonest(s) /\ ScannerExplains(s)

-----------------------------------------------------------------------------
LEMMA AppendFacts ==
    ASSUME NEW S, NEW l \in Seq(S), NEW x \in S
    PROVE  Append(l, x) \in Seq(S) /\ Len(Append(l, x)) = Len(l) + 1 /\ Append(l, x) # <<>>
<1>1. Append(l, x) \in Seq(S) /\ Len(Append(l, x)) = Len(l) + 1
  OBVIOUS
<1>2. Len(l) \in Nat /\ Len(<<>>) = 0
  OBVIOUS
<1> QED
  BY <1>1, <1>2

LEMMA LenFacts ==
    ASSUME NEW S, NEW l \in Seq(S)
    PROVE  Len(l) \in Nat /\ (Len(l) > 0 => l # <<>>) /\ (l = <<>> => Len(l) = 0)
OBVIOUS

LEMMA Stepped ==
    ASSUME TreeArrays, NEW s \in Scanners, OwnStep(s)
    PROVE  TreeArrays'
BY DEF TreeArrays, OwnStep

LEMMA OthersStay ==
    ASSUME TreeArrays, NEW s \in Scanners, OwnStep(s), NEW q \in Scanners, q # s
    PROVE  /\ tpc'[q] = tpc[q] /\ todo'[q] = todo[q] /\ listed'[q] = listed[q] /\ leaf'[q] = leaf[q]
           /\ first'[q] = first[q] /\ fd'[q] = fd[q] /\ read'[q] = read[q] /\ total'[q] = total[q]
           /\ errors'[q] = errors[q] /\ flags'[q] = flags[q] /\ digests'[q] = digests[q]
           /\ writes'[q] = writes[q] /\ verdict'[q] = verdict[q]
BY DEF TreeArrays, OwnStep

LEMMA OthersOK ==
    ASSUME TreeInv, NEW s \in Scanners, OwnStep(s), UNCHANGED files, ScannerOK(s)'
    PROVE  TreeArrays' /\ \A q \in Scanners : ScannerOK(q)'
<1>1. TreeArrays'
  BY Stepped DEF TreeInv
<1>2. ASSUME NEW q \in Scanners, q # s PROVE ScannerOK(q)'
  <2>1. ScannerOK(q)
    BY DEF TreeInv
  <2>2. /\ tpc'[q] = tpc[q] /\ todo'[q] = todo[q] /\ listed'[q] = listed[q] /\ leaf'[q] = leaf[q]
        /\ first'[q] = first[q] /\ fd'[q] = fd[q] /\ read'[q] = read[q] /\ total'[q] = total[q]
        /\ errors'[q] = errors[q] /\ flags'[q] = flags[q] /\ digests'[q] = digests[q]
        /\ writes'[q] = writes[q] /\ verdict'[q] = verdict[q]
    BY <1>2, OthersStay DEF TreeInv
  <2>3. PlacesShape(q)' /\ ResultShape(q)' /\ ScannerExplains(q)'
    BY <2>1, <2>2 DEF ScannerOK, PlacesShape, ResultShape, ScannerExplains
  <2>4. ScannerHonest(q)'
    BY <2>1, <2>2 DEF ScannerOK, ScannerHonest, TrueRow, Stamp, files
  <2> QED
    BY <2>3, <2>4 DEF ScannerOK
<1> QED
  BY <1>1, <1>2

(* A scanner that adds an error has one, and flies a flag. *)
LEMMA ErrorAdded ==
    ASSUME TreeInv, NEW s \in Scanners, NEW code \in Codes, NEW oversize \in BOOLEAN, AddError(s, code, oversize)
    PROVE  Failing(s)
<1>1. errors[s] \in Seq(Codes) /\ Len(errors[s]) <= MaxErrors /\ flags[s] \subseteq {"partial", "oversize"}
  BY DEF TreeInv, ScannerOK, ResultShape, ScannerExplains
<1>2. PICK list \in Seq(Codes) : list = errors[s]
  BY <1>1
<1> DEFINE longer == IF Len(list) >= MaxErrors THEN list ELSE Append(list, code)
<1>3. MaxErrors \in Nat /\ MaxErrors > 0 /\ Len(list) \in Nat /\ Len(list) <= MaxErrors
  BY <1>1, <1>2, TreeAssumption
<1>4. longer \in Seq(Codes) /\ longer # <<>> /\ Len(longer) <= MaxErrors
  <2>1. CASE Len(list) >= MaxErrors
    <3>1. list # <<>>
      <4>1. Len(list) > 0
        BY <1>3, <2>1
      <4> QED
        BY <4>1, LenFacts
    <3>2. longer = list
      BY <2>1
    <3> HIDE DEF longer
    <3> QED
      BY <1>3, <3>1, <3>2
  <2>2. CASE ~(Len(list) >= MaxErrors)
    <3>1. Append(list, code) \in Seq(Codes) /\ Len(Append(list, code)) = Len(list) + 1 /\ Append(list, code) # <<>>
      BY AppendFacts
    <3>2. longer = Append(list, code)
      BY <2>2
    <3>3. Len(list) + 1 <= MaxErrors
      BY <1>3, <2>2
    <3> HIDE DEF longer
    <3> QED
      BY <3>1, <3>2, <3>3
  <2> QED
    BY <2>1, <2>2
<1>5. errors' = [errors EXCEPT ![s] = longer]
  BY <1>2 DEF AddError
<1> HIDE DEF longer
<1>6. PICK more \in SUBSET {"partial", "oversize"} : more # {} /\ flags' = [flags EXCEPT ![s] = @ \cup more]
  BY DEF AddError
<1>7. PICK label \in {"result", "next"} : tpc' = [tpc EXCEPT ![s] = label]
  BY DEF AddError, TreeGoto
<1> QED
  BY <1>1, <1>4, <1>5, <1>6, <1>7 DEF TreeInv, TreeArrays, Failing

-----------------------------------------------------------------------------
(* What is known of the scanner that takes a step.                         *)
LEMMA TreeKnownOf ==
    ASSUME TreeInv, NEW s \in Scanners
    PROVE  TreeKnown(s)
BY DEF TreeInv, ScannerOK, TreeKnown

(* A failed entry: what stays, and the error.                              *)
LEMMA FailedOK ==
    ASSUME TreeInv, NEW s \in Scanners, NEW code \in Codes, NEW oversize \in BOOLEAN, AddError(s, code, oversize),
           tpc[s] # "commit", UNCHANGED <<edits, truth, total, digests, writes, verdict>>,
           PlacesShape(s)', first'[s].time <= edits, todo'[s] \subseteq listed'[s]
    PROVE  ScannerOK(s)'
<1>0. TreeKnown(s)
  BY TreeKnownOf
<1>1. Failing(s)
  BY ErrorAdded
<1>2. ResultShape(s)'
  BY <1>0, <1>1 DEF ResultShape, TreeKnown, Failing
<1>3. ScannerHonest(s)'
  BY <1>0, <1>1 DEF ScannerHonest, TrueRow, TreeKnown, Failing
<1>4. ScannerExplains(s)'
  BY <1>0, <1>1 DEF ScannerExplains, AtEntry, TreeKnown, Failing
<1> QED
  BY <1>2, <1>3, <1>4 DEF ScannerOK

LEMMA ListStep ==
    ASSUME TreeInv, NEW s \in Scanners, ListDirectory(s)
    PROVE  OwnStep(s) /\ ScannerOK(s)'
<1> USE DEF TreeGoto, kept, files, TreeKnown
<1>0. TreeKnown(s)
  BY TreeKnownOf
<1> DEFINE names == {l \in Leaves : entry[l].kind # "none"}
<1>1. tpc[s] = "list" /\ UNCHANGED <<files, cacheRows, leaf, first, fd, read, kept>>
  BY DEF ListDirectory
<1>2. CASE AddError(s, "file_limit", TRUE) /\ UNCHANGED <<todo, listed>>
  <2>0. Failing(s)
    BY <1>2, ErrorAdded DEF Codes
  <2>1. OwnStep(s)
    BY <1>0, <1>1, <1>2, <2>0 DEF OwnStep, TreeArrays, Failing
  <2>2. tpc'[s] \in {"result", "next"}
    BY <2>0 DEF Failing
  <2>3. PlacesShape(s)'
    BY <1>1, <1>2, <2>2, <1>0 DEF PlacesShape, TreePlaces
  <2>4. todo'[s] \subseteq listed'[s] /\ first'[s].time <= edits
    BY <1>0, <1>1, <1>2 DEF ScannerHonest, ScannerExplains
  <2>5. ScannerOK(s)'
    BY <1>1, <1>2, <2>3, <2>4, FailedOK DEF Codes
  <2> QED
    BY <2>1, <2>5
<1>3. CASE /\ todo' = [todo EXCEPT ![s] = names] /\ listed' = [listed EXCEPT ![s] = names]
           /\ TreeGoto(s, "next") /\ UNCHANGED <<errors, flags>>
  <2>1. OwnStep(s)
    BY <1>1, <1>3, <1>0 DEF OwnStep, TreeArrays
  <2>2. tpc'[s] = "next" /\ todo'[s] = names /\ listed'[s] = names
    BY <1>3, <1>0 DEF TreeArrays
  <2>3. PlacesShape(s)' /\ ResultShape(s)'
    BY <1>1, <1>3, <2>2, <1>0 DEF PlacesShape, ResultShape, TreePlaces
  <2>4. ScannerHonest(s)'
    BY <1>1, <2>2, <1>0 DEF ScannerHonest, TrueRow
  <2>5. ScannerExplains(s)'
    BY <1>1, <1>3, <2>2, <1>0 DEF ScannerExplains, AtEntry
  <2> QED
    BY <2>1, <2>3, <2>4, <2>5 DEF ScannerOK
<1> QED
  BY <1>2, <1>3 DEF ListDirectory

LEMMA StatStep ==
    ASSUME TreeInv, NEW s \in Scanners, StatEntry(s)
    PROVE  OwnStep(s) /\ ScannerOK(s)'
<1> USE DEF TreeGoto, kept, files, TreeKnown
<1>0. TreeKnown(s)
  BY TreeKnownOf
<1>1. /\ tpc[s] = "next" /\ todo[s] # {} /\ leaf' = [leaf EXCEPT ![s] = Min(todo[s])]
      /\ todo' = [todo EXCEPT ![s] = @ \ {Min(todo[s])}]
      /\ UNCHANGED <<files, cacheRows, listed, fd, read, kept>>
  BY DEF StatEntry
<1>2. PICK m \in Leaves : m = Min(todo[s]) /\ m \in todo[s]
  <2>1. todo[s] \subseteq Leaves /\ Leaves \subseteq Nat
    BY <1>0, TreeAssumption DEF PlacesShape
  <2>2. Min(todo[s]) \in todo[s]
    BY <1>1, <2>1, MinInside
  <2> QED
    BY <2>1, <2>2
<1>3. leaf'[s] = m /\ todo'[s] = todo[s] \ {m}
  BY <1>1, <1>2, <1>0 DEF TreeArrays
<1>4. ASSUME NEW code \in Codes, NEW oversize \in BOOLEAN, AddError(s, code, oversize), UNCHANGED first
      PROVE  OwnStep(s) /\ ScannerOK(s)'
  <2>0. Failing(s)
    BY <1>4, ErrorAdded
  <2>1. OwnStep(s)
    BY <1>0, <1>1, <1>4, <2>0 DEF OwnStep, TreeArrays, Failing
  <2>2. tpc'[s] \in {"result", "next"}
    BY <2>0 DEF Failing
  <2>3. PlacesShape(s)'
    BY <1>1, <1>3, <1>4, <2>2, <1>0 DEF PlacesShape, TreePlaces
  <2>4. todo'[s] \subseteq listed'[s] /\ first'[s].time <= edits
    BY <1>1, <1>3, <1>4, <1>0 DEF ScannerExplains, ScannerHonest
  <2>5. ScannerOK(s)'
    BY <1>1, <1>4, <2>3, <2>4, FailedOK
  <2> QED
    BY <2>1, <2>5
<1>5. CASE /\ first' = [first EXCEPT ![s] = Stamp(entry[m].ino)] /\ TreeGoto(s, "cache") /\ UNCHANGED <<errors, flags>>
  <2>1. OwnStep(s)
    BY <1>1, <1>5, <1>0 DEF OwnStep, TreeArrays
  <2>2. tpc'[s] = "cache" /\ first'[s] = Stamp(entry[m].ino)
    BY <1>5, <1>0 DEF TreeArrays
  <2>3. first'[s] \in Stamps /\ first'[s].time <= edits
    BY <2>2, <1>0 DEF Stamp, Stamps, FilesShape, FilesHonest
  <2>4. PlacesShape(s)' /\ ResultShape(s)'
    BY <1>1, <1>3, <1>5, <2>2, <2>3, <1>0 DEF PlacesShape, ResultShape, TreePlaces, AtEntry
  <2>5. ScannerHonest(s)'
    BY <1>1, <2>2, <2>3, <1>0 DEF ScannerHonest, TrueRow
  <2>6. ScannerExplains(s)'
    BY <1>1, <1>2, <1>3, <1>5, <2>2, <1>0 DEF ScannerExplains, AtEntry
  <2> QED
    BY <2>1, <2>4, <2>5, <2>6 DEF ScannerOK
<1> HIDE DEF TreeGoto, TreeKnown, kept, files
<1>6. \/ \E code \in Codes : \E oversize \in BOOLEAN : AddError(s, code, oversize) /\ UNCHANGED first
      \/ first' = [first EXCEPT ![s] = Stamp(entry[m].ino)] /\ TreeGoto(s, "cache") /\ UNCHANGED <<errors, flags>>
  BY <1>2 DEF StatEntry, Codes
<1> QED
  BY <1>4, <1>5, <1>6

(* A scanner that is at an entry looks at a listed name. *)
LEMMA LeafListed ==
    ASSUME NEW s \in Scanners, TreeKnown(s), tpc[s] \in AtEntry
    PROVE  leaf[s] \in Leaves /\ entry[leaf[s]] \in [kind : {"none", "file", "link", "deep"}, ino : AnyInode]
BY DEF TreeKnown, PlacesShape, ScannerExplains, FilesShape

LEMMA OpenCacheStep ==
    ASSUME TreeInv, NEW s \in Scanners, OpenForCache(s)
    PROVE  OwnStep(s) /\ ScannerOK(s)'
<1> USE DEF TreeGoto, files, state, TreeKnown
<1>0. TreeKnown(s)
  BY TreeKnownOf
<1>1. tpc[s] = "cache" /\ UNCHANGED <<files, cacheRows, listed, todo, leaf, first, read, state>>
  BY DEF OpenForCache
<1>2. entry[leaf[s]].ino \in AnyInode
  BY <1>0, <1>1, LeafListed DEF AtEntry
<1>3. \/ fd' = [fd EXCEPT ![s] = entry[leaf[s]].ino] /\ tpc' = [tpc EXCEPT ![s] = "lookup"]
      \/ tpc' = [tpc EXCEPT ![s] = "open"] /\ UNCHANGED fd
  BY DEF OpenForCache
<1>4. OwnStep(s) /\ tpc'[s] \in {"lookup", "open"} /\ fd'[s] \in AnyInode
  BY <1>0, <1>1, <1>2, <1>3 DEF OwnStep, TreeArrays, PlacesShape
<1>5. PlacesShape(s)' /\ ResultShape(s)'
  BY <1>0, <1>1, <1>4 DEF PlacesShape, ResultShape, TreePlaces, AtEntry
<1>6. ScannerHonest(s)'
  BY <1>0, <1>1, <1>4 DEF ScannerHonest, TrueRow
<1>7. ScannerExplains(s)'
  BY <1>0, <1>1, <1>4 DEF ScannerExplains, AtEntry
<1> QED
  BY <1>4, <1>5, <1>6, <1>7 DEF ScannerOK

(* What the cache answers was true when it was stored, and still is. *)
LEMMA LookupStep ==
    ASSUME TreeInv, NEW s \in Scanners, LookupLeaf(s)
    PROVE  OwnStep(s) /\ ScannerOK(s)'
<1> USE DEF TreeGoto, files, state, TreeKnown
<1>0. TreeKnown(s)
  BY TreeKnownOf
<1>1. tpc[s] = "lookup" /\ UNCHANGED <<files, cacheRows, listed, todo, leaf, first, fd, state>>
  BY DEF LookupLeaf
<1>2. \A r \in Hit(s) : r.data \in Seq(Blocks) /\ r.data = truth[first[s].time]
  BY <1>0 DEF Hit, FilesShape, CachedLeaves, FilesHonest, TrueRow
<1>3. Hit(s) # {} => (CHOOSE r \in Hit(s) : TRUE) \in Hit(s)
  OBVIOUS
<1>4. \/ \E data \in Seq(Blocks) :
            data = truth[first[s].time] /\ read' = [read EXCEPT ![s] = data] /\ tpc' = [tpc EXCEPT ![s] = "recheck"]
      \/ tpc' = [tpc EXCEPT ![s] = "open"] /\ UNCHANGED read
  BY <1>2, <1>3 DEF LookupLeaf
<1>5. /\ OwnStep(s)
      /\ \/ tpc'[s] = "recheck" /\ read'[s] \in Seq(Blocks) /\ read'[s] = truth[first[s].time]
         \/ tpc'[s] = "open" /\ read'[s] = read[s]
  BY <1>0, <1>1, <1>4 DEF OwnStep, TreeArrays
<1>6. PlacesShape(s)' /\ ResultShape(s)'
  BY <1>0, <1>1, <1>5 DEF PlacesShape, ResultShape, TreePlaces, AtEntry
<1>7. ScannerHonest(s)'
  BY <1>0, <1>1, <1>5 DEF ScannerHonest, TrueRow
<1>8. ScannerExplains(s)'
  BY <1>0, <1>1, <1>5 DEF ScannerExplains, AtEntry
<1> QED
  BY <1>5, <1>6, <1>7, <1>8 DEF ScannerOK

LEMMA RecheckStep ==
    ASSUME TreeInv, NEW s \in Scanners, RecheckHit(s)
    PROVE  OwnStep(s) /\ ScannerOK(s)'
<1> USE DEF TreeGoto, files, state, TreeKnown
<1>0. TreeKnown(s)
  BY TreeKnownOf
<1>1. tpc[s] = "recheck" /\ UNCHANGED <<files, cacheRows, listed, todo, leaf, first, fd, state>>
  BY DEF RecheckHit
<1>2. \/ tpc' = [tpc EXCEPT ![s] = "record"] /\ UNCHANGED read
      \/ tpc' = [tpc EXCEPT ![s] = "open"] /\ read' = [read EXCEPT ![s] = <<>>]
  BY DEF RecheckHit
<1>3. /\ OwnStep(s)
      /\ \/ tpc'[s] = "record" /\ read'[s] = read[s]
         \/ tpc'[s] = "open" /\ read'[s] = <<>>
  BY <1>0, <1>1, <1>2 DEF OwnStep, TreeArrays
<1>4. <<>> \in Seq(Blocks)
  OBVIOUS
<1>5. PlacesShape(s)' /\ ResultShape(s)'
  BY <1>0, <1>1, <1>3, <1>4 DEF PlacesShape, ResultShape, TreePlaces, AtEntry
<1>6. ScannerHonest(s)'
  BY <1>0, <1>1, <1>3 DEF ScannerHonest, TrueRow
<1>7. ScannerExplains(s)'
  BY <1>0, <1>1, <1>3 DEF ScannerExplains, AtEntry
<1> QED
  BY <1>3, <1>5, <1>6, <1>7 DEF ScannerOK

LEMMA OpenHashStep ==
    ASSUME TreeInv, NEW s \in Scanners, OpenForHash(s)
    PROVE  OwnStep(s) /\ ScannerOK(s)'
<1> USE DEF files, kept, TreeKnown
<1>0. TreeKnown(s)
  BY TreeKnownOf
<1>1. tpc[s] = "open" /\ read' = [read EXCEPT ![s] = <<>>] /\ UNCHANGED <<files, cacheRows, listed, todo, leaf, first, kept>>
  BY DEF OpenForHash
<1>2. entry[leaf[s]].ino \in AnyInode
  BY <1>0, <1>1, LeafListed DEF AtEntry
<1>3. (UNCHANGED fd \/ fd' = [fd EXCEPT ![s] = entry[leaf[s]].ino])
  BY DEF OpenForHash
<1>4. read'[s] = <<>> /\ read'[s] \in Seq(Blocks) /\ fd'[s] \in AnyInode
      /\ read' = [read EXCEPT ![s] = read'[s]] /\ fd' = [fd EXCEPT ![s] = fd'[s]]
  BY <1>0, <1>1, <1>2, <1>3 DEF TreeArrays, PlacesShape
<1>5. ASSUME NEW code \in Codes, NEW oversize \in BOOLEAN, AddError(s, code, oversize)
      PROVE  OwnStep(s) /\ ScannerOK(s)'
  <2>0. Failing(s)
    BY <1>5, ErrorAdded
  <2>1. OwnStep(s)
    BY <1>0, <1>1, <1>4, <2>0 DEF OwnStep, TreeArrays, Failing
  <2>2. PlacesShape(s)'
    BY <1>0, <1>1, <1>4, <2>0 DEF PlacesShape, TreePlaces, Failing
  <2>3. todo'[s] \subseteq listed'[s] /\ first'[s].time <= edits
    BY <1>0, <1>1 DEF ScannerExplains, ScannerHonest
  <2>4. ScannerOK(s)'
    BY <1>1, <1>5, <2>2, <2>3, FailedOK
  <2> QED
    BY <2>1, <2>4
<1>6. CASE tpc' = [tpc EXCEPT ![s] = "read"] /\ UNCHANGED <<errors, flags>>
  <2>1. OwnStep(s) /\ tpc'[s] = "read"
    BY <1>0, <1>1, <1>4, <1>6 DEF OwnStep, TreeArrays
  <2>2. PlacesShape(s)' /\ ResultShape(s)'
    BY <1>0, <1>1, <1>4, <1>6, <2>1 DEF PlacesShape, ResultShape, TreePlaces, AtEntry
  <2>3. ScannerHonest(s)'
    <3>1. inode[fd'[s]].data \in Seq(Blocks)
      BY <1>0, <1>4, TreeAssumption DEF FilesShape
    <3>2. Len(inode[fd'[s]].data) \in Nat /\ Len(read'[s]) = 0
      BY <1>4, <3>1, LenFacts
    <3>3. inode' = inode /\ edits' = edits /\ truth' = truth
      BY <1>1
    <3>4. first'[s] = first[s] /\ digests'[s] = digests[s]
      BY <1>1
    <3>5. \A k \in 1..Len(read'[s]) : FALSE
      BY <3>2
    <3> QED
      BY <1>0, <2>1, <3>2, <3>3, <3>4, <3>5 DEF ScannerHonest, TrueRow
  <2>4. ScannerExplains(s)'
    BY <1>0, <1>1, <1>6, <2>1 DEF ScannerExplains, AtEntry
  <2> QED
    BY <2>1, <2>2, <2>3, <2>4 DEF ScannerOK
<1> HIDE DEF files, kept, TreeKnown
<1>7. \/ \E code \in Codes : \E oversize \in BOOLEAN : AddError(s, code, oversize)
      \/ tpc' = [tpc EXCEPT ![s] = "read"] /\ UNCHANGED <<errors, flags>>
  BY DEF OpenForHash, Codes, TreeGoto
<1> QED
  BY <1>5, <1>6, <1>7

LEMMA ReadStep ==
    ASSUME TreeInv, NEW s \in Scanners, ReadBlock(s)
    PROVE  OwnStep(s) /\ ScannerOK(s)'
<1> USE DEF files, state, TreeKnown
<1>0. TreeKnown(s)
  BY TreeKnownOf
<1>1. tpc[s] = "read" /\ UNCHANGED <<files, cacheRows, listed, todo, leaf, first, fd, state>>
  BY DEF ReadBlock
<1>2. inode[fd[s]].data \in Seq(Blocks) /\ read[s] \in Seq(Blocks)
  BY <1>0, TreeAssumption DEF FilesShape, PlacesShape
<1>3. PICK data \in Seq(Blocks) : data = inode[fd[s]].data
  BY <1>2
<1>4. PICK got \in Seq(Blocks) : got = read[s]
  BY <1>2
<1>5. \/ Len(got) < Len(data) /\ read' = [read EXCEPT ![s] = Append(got, data[Len(got) + 1])] /\ tpc' = tpc
      \/ tpc' = [tpc EXCEPT ![s] = "check"] /\ read' = read
  BY <1>3, <1>4 DEF ReadBlock, TreeGoto
<1>6. CASE Len(got) < Len(data) /\ read' = [read EXCEPT ![s] = Append(got, data[Len(got) + 1])] /\ tpc' = tpc
  <2>1. data[Len(got) + 1] \in Blocks
    BY <1>6
  <2>2. PICK more \in Seq(Blocks) : more = Append(got, data[Len(got) + 1])
    BY <2>1, AppendFacts
  <2>3. Len(more) = Len(got) + 1 /\ \A k \in 1..Len(got) : more[k] = got[k]
    BY <2>1, <2>2
  <2>4. more[Len(got) + 1] = data[Len(got) + 1]
    BY <2>1, <2>2
  <2>5. OwnStep(s) /\ tpc'[s] = "read" /\ read'[s] = more
    BY <1>0, <1>1, <1>6, <2>2 DEF OwnStep, TreeArrays
  <2>6. PlacesShape(s)' /\ ResultShape(s)'
    BY <1>0, <1>1, <2>5 DEF PlacesShape, ResultShape, TreePlaces, AtEntry
  <2>7. ScannerHonest(s)'
    <3>1. Stamp(fd[s]) = first[s] => \A k \in 1..Len(got) : got[k] = data[k]
      BY <1>0, <1>1, <1>3, <1>4 DEF ScannerHonest
    <3>2. Len(more) <= Len(data)
      BY <1>6, <2>3
    <3>3. Stamp(fd[s]) = first[s] => \A k \in 1..Len(more) : more[k] = data[k]
      BY <2>3, <2>4, <3>1
    <3>4. Stamp(fd[s])' = Stamp(fd[s]) /\ first' = first /\ inode' = inode /\ digests' = digests /\ edits' = edits /\ truth' = truth /\ fd' = fd
      BY <1>1 DEF Stamp
    <3>5. first[s].time <= edits /\ \A d \in digests[s] : d.time <= edits /\ d.data = truth[d.time]
      BY <1>0 DEF ScannerHonest, TrueRow
    <3> QED
      BY <1>3, <2>5, <3>2, <3>3, <3>4, <3>5 DEF ScannerHonest, TrueRow
  <2>8. ScannerExplains(s)'
    BY <1>0, <1>1, <2>5 DEF ScannerExplains, AtEntry
  <2> QED
    BY <2>5, <2>6, <2>7, <2>8 DEF ScannerOK
<1>7. CASE tpc' = [tpc EXCEPT ![s] = "check"] /\ read' = read
  <2>1. OwnStep(s) /\ tpc'[s] = "check"
    BY <1>0, <1>1, <1>7 DEF OwnStep, TreeArrays
  <2>2. PlacesShape(s)' /\ ResultShape(s)'
    BY <1>0, <1>1, <1>7, <2>1 DEF PlacesShape, ResultShape, TreePlaces, AtEntry
  <2>3. ScannerHonest(s)'
    BY <1>0, <1>1, <1>7, <2>1 DEF ScannerHonest, TrueRow, Stamp
  <2>4. ScannerExplains(s)'
    BY <1>0, <1>1, <1>7, <2>1 DEF ScannerExplains, AtEntry
  <2> QED
    BY <2>1, <2>2, <2>3, <2>4 DEF ScannerOK
<1> QED
  BY <1>5, <1>6, <1>7

(* What was read whole under one stamp is what the file held at that time. *)
LEMMA CheckStep ==
    ASSUME TreeInv, NEW s \in Scanners, CheckRead(s)
    PROVE  OwnStep(s) /\ ScannerOK(s)'
<1> USE DEF files, kept, TreeKnown
<1>0. TreeKnown(s)
  BY TreeKnownOf
<1>1. tpc[s] = "check" /\ UNCHANGED <<files, cacheRows, listed, todo, leaf, first, fd, read, kept>>
  BY DEF CheckRead
<1>2. ASSUME NEW code \in Codes, NEW oversize \in BOOLEAN, AddError(s, code, oversize)
      PROVE  OwnStep(s) /\ ScannerOK(s)'
  <2>0. Failing(s)
    BY <1>2, ErrorAdded
  <2>1. OwnStep(s)
    BY <1>0, <1>1, <2>0 DEF OwnStep, TreeArrays, Failing
  <2>2. PlacesShape(s)'
    BY <1>0, <1>1, <2>0 DEF PlacesShape, TreePlaces, Failing
  <2>3. todo'[s] \subseteq listed'[s] /\ first'[s].time <= edits
    BY <1>0, <1>1 DEF ScannerExplains, ScannerHonest
  <2>4. ScannerOK(s)'
    BY <1>1, <1>2, <2>2, <2>3, FailedOK
  <2> QED
    BY <2>1, <2>4
<1>3. CASE /\ SameNow(s) /\ Len(inode[fd[s]].data) = Len(read[s])
           /\ tpc' = [tpc EXCEPT ![s] = "write"] /\ UNCHANGED <<errors, flags>>
  <2>1. OwnStep(s) /\ tpc'[s] = "write"
    BY <1>0, <1>1, <1>3 DEF OwnStep, TreeArrays
  <2>2. PlacesShape(s)' /\ ResultShape(s)'
    BY <1>0, <1>1, <1>3, <2>1 DEF PlacesShape, ResultShape, TreePlaces, AtEntry
  <2>3. read[s] = truth[first[s].time]
    <3>1. inode[fd[s]].data \in Seq(Blocks) /\ read[s] \in Seq(Blocks)
      BY <1>0, TreeAssumption DEF FilesShape, PlacesShape
    <3>2. \A k \in 1..Len(read[s]) : read[s][k] = inode[fd[s]].data[k]
      BY <1>0, <1>1, <1>3 DEF ScannerHonest, SameNow
    <3>3. read[s] = inode[fd[s]].data
      BY <1>3, <3>1, <3>2, SeqEqual
    <3>4. first[s].time = inode[fd[s]].time
      BY <1>3 DEF SameNow, Stamp
    <3>5. inode[fd[s]].data = truth[inode[fd[s]].time]
      BY <1>0 DEF FilesHonest, PlacesShape
    <3> QED
      BY <3>3, <3>4, <3>5
  <2>4. ScannerHonest(s)'
    BY <1>0, <1>1, <2>1, <2>3 DEF ScannerHonest, TrueRow
  <2>5. ScannerExplains(s)'
    BY <1>0, <1>1, <1>3, <2>1 DEF ScannerExplains, AtEntry
  <2> QED
    BY <2>1, <2>2, <2>4, <2>5 DEF ScannerOK
<1> HIDE DEF files, kept, TreeKnown
<1>4. \/ \E code \in Codes : \E oversize \in BOOLEAN : AddError(s, code, oversize)
      \/ /\ SameNow(s) /\ Len(inode[fd[s]].data) = Len(read[s])
         /\ tpc' = [tpc EXCEPT ![s] = "write"] /\ UNCHANGED <<errors, flags>>
  BY DEF CheckRead, Codes, TreeGoto
<1> QED
  BY <1>2, <1>3, <1>4

LEMMA RecordStep ==
    ASSUME TreeInv, NEW s \in Scanners, RecordLeaf(s)
    PROVE  OwnStep(s) /\ ScannerOK(s)'
<1> USE DEF files, TreeKnown
<1>0. TreeKnown(s)
  BY TreeKnownOf
<1> DEFINE row == [leaf |-> leaf[s], ino |-> first[s].ino, time |-> first[s].time, data |-> read[s]]
<1>1. tpc[s] \in {"record", "write"} /\ UNCHANGED <<files, cacheRows, listed, todo, leaf, verdict>>
      /\ first' = [first EXCEPT ![s] = NoStamp] /\ read' = [read EXCEPT ![s] = <<>>] /\ fd' = [fd EXCEPT ![s] = 0]
  BY DEF RecordLeaf
<1>2. /\ first'[s] = NoStamp /\ read'[s] = <<>> /\ fd'[s] = 0
      /\ first' = [first EXCEPT ![s] = first'[s]] /\ read' = [read EXCEPT ![s] = read'[s]] /\ fd' = [fd EXCEPT ![s] = fd'[s]]
      /\ UNCHANGED <<edits, truth>>
  BY <1>0, <1>1 DEF TreeArrays
<1>3. NoStamp \in Stamps /\ NoStamp.time = 0 /\ <<>> \in Seq(Blocks) /\ 0 <= edits
  BY <1>0, TreeAssumption DEF NoStamp, Stamps, AnyInode, FilesShape
<1>4. PICK size \in Nat : size = Len(read[s])
  BY <1>0, LenFacts DEF PlacesShape
<1>5. CASE AddError(s, "byte_limit", TRUE) /\ UNCHANGED <<total, digests, writes>>
  <2>0. Failing(s)
    BY <1>5, ErrorAdded DEF Codes
  <2>1. OwnStep(s)
    BY <1>0, <1>1, <1>2, <1>5, <2>0 DEF OwnStep, TreeArrays, Failing
  <2>2. PlacesShape(s)'
    BY <1>0, <1>1, <1>2, <1>3, <2>0 DEF PlacesShape, TreePlaces, Failing, AnyInode
  <2>3. todo'[s] \subseteq listed'[s] /\ first'[s].time <= edits
    BY <1>0, <1>1, <1>2, <1>3 DEF ScannerExplains
  <2>4. tpc[s] # "commit" /\ UNCHANGED <<edits, truth, total, digests, writes, verdict>>
    BY <1>1, <1>2, <1>5
  <2>5. ScannerOK(s)'
    BY <1>5, <2>2, <2>3, <2>4, FailedOK DEF Codes
  <2> QED
    BY <2>1, <2>5
<1>6. CASE /\ ~(size > MaxTotalSize - total[s])
           /\ total' = [total EXCEPT ![s] = @ + size]
           /\ digests' = [digests EXCEPT ![s] = @ \cup {row}]
           /\ writes' = [writes EXCEPT ![s] = IF tpc[s] = "write" THEN @ \cup {row} ELSE @]
           /\ tpc' = [tpc EXCEPT ![s] = "next"] /\ UNCHANGED <<errors, flags>>
  <2>1. row \in LeafRows /\ row.leaf = leaf[s] /\ TrueRow(row)
    <3>1. leaf[s] \in Leaves
      BY <1>0, <1>1, LeafListed DEF AtEntry
    <3>2. first[s] \in Stamps /\ read[s] \in Seq(Blocks) /\ first[s].time <= edits /\ read[s] = truth[first[s].time]
      BY <1>0, <1>1 DEF PlacesShape, ScannerHonest
    <3> QED
      BY <3>1, <3>2 DEF LeafRows, Stamps, TrueRow
  <2> HIDE DEF row
  <2>2. OwnStep(s) /\ tpc'[s] = "next"
    BY <1>0, <1>1, <1>2, <1>6 DEF OwnStep, TreeArrays
  <2>3. /\ total'[s] = total[s] + size /\ digests'[s] = digests[s] \cup {row}
        /\ writes'[s] = writes[s] \/ writes'[s] = writes[s] \cup {row}
    BY <1>0, <1>6 DEF TreeArrays
  <2>4. total[s] \in Nat /\ MaxTotalSize \in Nat
    BY <1>0, TreeAssumption DEF ResultShape
  <2>5. total'[s] \in Nat /\ total'[s] <= MaxTotalSize
    BY <1>4, <1>6, <2>3, <2>4
  <2>6. PlacesShape(s)'
    BY <1>0, <1>1, <1>2, <1>3, <2>2 DEF PlacesShape, TreePlaces, AnyInode
  <2>7. ResultShape(s)'
    BY <1>0, <1>1, <1>6, <2>1, <2>3, <2>5 DEF ResultShape
  <2>8. ScannerHonest(s)'
    BY <1>0, <1>2, <1>3, <2>1, <2>2, <2>3 DEF ScannerHonest, TrueRow
  <2>9. {d.leaf : d \in digests'[s]} = {d.leaf : d \in digests[s]} \cup {leaf[s]}
    BY <2>1, <2>3
  <2>10. leaf[s] \in listed[s] \ todo[s] /\ tpc[s] \in AtEntry
    BY <1>0, <1>1 DEF ScannerExplains, AtEntry
  <2>11. flags'[s] = {} => {d.leaf : d \in digests'[s]} = listed'[s] \ todo'[s]
    BY <1>0, <1>1, <1>6, <2>9, <2>10 DEF ScannerExplains
  <2>12. ScannerExplains(s)'
    BY <1>0, <1>1, <1>6, <2>2, <2>3, <2>5, <2>11 DEF ScannerExplains, AtEntry
  <2> QED
    BY <2>2, <2>6, <2>7, <2>8, <2>12 DEF ScannerOK
<1> QED
  BY <1>4, <1>5, <1>6 DEF RecordLeaf, TreeGoto

(* The list of errors that a deadline ends. *)
LEMMA TimeLimitFacts ==
    ASSUME NEW list \in Seq(Codes), Len(list) <= MaxErrors
    PROVE  TimeLimit(list) \in Seq(Codes) /\ TimeLimit(list) # <<>> /\ Len(TimeLimit(list)) <= MaxErrors
<1> "time_limit" \in Codes /\ MaxErrors \in Nat /\ MaxErrors > 0 /\ Len(list) \in Nat
  BY TreeAssumption, LenFacts DEF Codes
<1>1. CASE \E i \in DOMAIN list : list[i] = "time_limit"
  <2>1. list # <<>>
    BY <1>1
  <2> QED
    BY <1>1, <2>1 DEF TimeLimit
<1>2. CASE ~(\E i \in DOMAIN list : list[i] = "time_limit") /\ Len(list) < MaxErrors
  <2>1. PICK longer \in Seq(Codes) : longer = Append(list, "time_limit")
    BY AppendFacts
  <2>2. longer # <<>> /\ Len(longer) = Len(list) + 1
    BY <2>1, AppendFacts
  <2>3. Len(longer) <= MaxErrors
    BY <1>2, <2>2
  <2> QED
    BY <1>2, <2>1, <2>2, <2>3 DEF TimeLimit
<1>3. CASE ~(\E i \in DOMAIN list : list[i] = "time_limit") /\ ~(Len(list) < MaxErrors)
  <2> DEFINE ended == [list EXCEPT ![Len(list)] = "time_limit"]
  <2>1. ended \in Seq(Codes) /\ Len(ended) = Len(list)
    <3>1. Len(list) \in 1..Len(list)
      BY <1>3
    <3> QED
      BY <3>1, ExceptSeq
  <2>2. TimeLimit(list) = ended
    BY <1>3 DEF TimeLimit
  <2> HIDE DEF ended
  <2>3. Len(ended) > 0
    BY <1>3, <2>1
  <2>4. ended # <<>>
    BY <2>1, <2>3, LenFacts
  <2> QED
    BY <2>1, <2>2, <2>4
<1> QED
  BY <1>1, <1>2, <1>3

LEMMA ExpireStep ==
    ASSUME TreeInv, NEW s \in Scanners, Expire(s)
    PROVE  OwnStep(s) /\ ScannerOK(s)'
<1> USE DEF files, TreeKnown
<1>0. TreeKnown(s)
  BY TreeKnownOf
<1>1. /\ tpc[s] \notin {"list", "result", "commit"} /\ tpc' = [tpc EXCEPT ![s] = "result"]
      /\ errors' = [errors EXCEPT ![s] = TimeLimit(errors[s])] /\ flags' = [flags EXCEPT ![s] = @ \cup {"partial"}]
      /\ writes' = [writes EXCEPT ![s] = {}]
      /\ UNCHANGED <<files, cacheRows, listed, todo, leaf, first, fd, read, total, digests, verdict>>
  BY DEF Expire, TreeGoto
<1>2. /\ OwnStep(s) /\ tpc'[s] = "result" /\ errors'[s] = TimeLimit(errors[s]) /\ flags'[s] = flags[s] \cup {"partial"}
      /\ writes'[s] = {}
  BY <1>0, <1>1 DEF OwnStep, TreeArrays
<1>3. TimeLimit(errors[s]) \in Seq(Codes) /\ TimeLimit(errors[s]) # <<>> /\ Len(TimeLimit(errors[s])) <= MaxErrors
  BY <1>0, TimeLimitFacts DEF ResultShape, ScannerExplains
<1>4. PlacesShape(s)' /\ ResultShape(s)'
  BY <1>0, <1>1, <1>2, <1>3 DEF PlacesShape, ResultShape, TreePlaces
<1>5. ScannerHonest(s)'
  BY <1>0, <1>1, <1>2 DEF ScannerHonest, TrueRow
<1>6. ScannerExplains(s)'
  BY <1>0, <1>1, <1>2, <1>3 DEF ScannerExplains, AtEntry
<1> QED
  BY <1>2, <1>4, <1>5, <1>6 DEF ScannerOK

LEMMA EndStep ==
    ASSUME TreeInv, NEW s \in Scanners, EndWalk(s)
    PROVE  OwnStep(s) /\ ScannerOK(s)'
<1> USE DEF files, state, TreeKnown
<1>0. TreeKnown(s)
  BY TreeKnownOf
<1>1. /\ tpc[s] = "next" /\ todo[s] = {} /\ tpc' = [tpc EXCEPT ![s] = "result"]
      /\ UNCHANGED <<files, cacheRows, listed, todo, leaf, first, fd, read, state>>
  BY DEF EndWalk, TreeGoto
<1>2. OwnStep(s) /\ tpc'[s] = "result"
  BY <1>0, <1>1 DEF OwnStep, TreeArrays
<1>3. PlacesShape(s)' /\ ResultShape(s)'
  BY <1>0, <1>1, <1>2 DEF PlacesShape, ResultShape, TreePlaces
<1>4. ScannerHonest(s)'
  BY <1>0, <1>1, <1>2 DEF ScannerHonest, TrueRow
<1>5. ScannerExplains(s)'
  BY <1>0, <1>1, <1>2 DEF ScannerExplains, AtEntry
<1> QED
  BY <1>2, <1>3, <1>4, <1>5 DEF ScannerOK

LEMMA ConcludeStep ==
    ASSUME TreeInv, NEW s \in Scanners, Conclude(s)
    PROVE  OwnStep(s) /\ ScannerOK(s)'
<1> USE DEF files, TreeKnown
<1>0. TreeKnown(s)
  BY TreeKnownOf
<1>1. /\ tpc[s] = "result" /\ tpc' = [tpc EXCEPT ![s] = "commit"]
      /\ UNCHANGED <<files, cacheRows, listed, todo, leaf, first, fd, read, total, flags, digests>>
  BY DEF Conclude, TreeGoto
<1>2. \/ verdict' = [verdict EXCEPT ![s] = Result(s)] /\ errors' = errors
      \/ verdict' = [verdict EXCEPT ![s] = "unavailable"] /\ errors' = [errors EXCEPT ![s] = <<"identity_changed">>]
  BY DEF Conclude
<1>3. writes' = [writes EXCEPT ![s] = IF verdict'[s] = "complete" THEN @ ELSE {}]
  BY DEF Conclude
<1>4. <<"identity_changed">> \in Seq(Codes) /\ Len(<<"identity_changed">>) = 1 /\ <<"identity_changed">> # <<>>
      /\ 1 <= MaxErrors
  BY TreeAssumption DEF Codes
<1>5. Result(s) \in Verdicts /\ (Result(s) = "complete" => flags[s] = {})
      /\ (flags[s] = {} <=> errors[s] = <<>>) /\ (Result(s) # "complete" => flags[s] # {})
  BY <1>0, <1>1 DEF Result, Verdicts, ResultShape, ScannerExplains
<1>6. OwnStep(s) /\ tpc'[s] = "commit" /\ writes'[s] = (IF verdict'[s] = "complete" THEN writes[s] ELSE {})
  BY <1>0, <1>1, <1>2, <1>3 DEF OwnStep, TreeArrays
<1>7. \/ verdict'[s] = Result(s) /\ errors'[s] = errors[s]
      \/ verdict'[s] = "unavailable" /\ errors'[s] = <<"identity_changed">>
  BY <1>0, <1>2 DEF TreeArrays
<1>8. /\ verdict'[s] \in Verdicts /\ errors'[s] \in Seq(Codes) /\ Len(errors'[s]) <= MaxErrors
      /\ verdict'[s] = "complete" => flags[s] = {} /\ errors'[s] = <<>>
      /\ verdict'[s] # "complete" => errors'[s] # <<>> /\ writes'[s] = {}
  BY <1>0, <1>4, <1>5, <1>6, <1>7 DEF ResultShape, ScannerExplains, Verdicts
<1>9. PlacesShape(s)' /\ ResultShape(s)'
  BY <1>0, <1>1, <1>6, <1>8 DEF PlacesShape, ResultShape, TreePlaces
<1>10. ScannerHonest(s)'
  BY <1>0, <1>1, <1>6 DEF ScannerHonest, TrueRow
<1>11. ScannerExplains(s)'
  BY <1>0, <1>1, <1>6, <1>8 DEF ScannerExplains, AtEntry
<1> QED
  BY <1>6, <1>9, <1>10, <1>11 DEF ScannerOK

LEMMA CommitStep ==
    ASSUME TreeInv, NEW s \in Scanners, StoreRows(s)
    PROVE  OwnStep(s) /\ ScannerOK(s)'
<1> USE DEF files, TreeKnown
<1>0. TreeKnown(s)
  BY TreeKnownOf
<1>1. /\ tpc' = [tpc EXCEPT ![s] = "list"] /\ todo' = [todo EXCEPT ![s] = {}] /\ listed' = [listed EXCEPT ![s] = {}]
      /\ leaf' = [leaf EXCEPT ![s] = 0] /\ first' = [first EXCEPT ![s] = NoStamp] /\ fd' = [fd EXCEPT ![s] = 0]
      /\ read' = [read EXCEPT ![s] = <<>>] /\ total' = [total EXCEPT ![s] = 0] /\ errors' = [errors EXCEPT ![s] = <<>>]
      /\ flags' = [flags EXCEPT ![s] = {}] /\ digests' = [digests EXCEPT ![s] = {}]
      /\ writes' = [writes EXCEPT ![s] = {}] /\ verdict' = [verdict EXCEPT ![s] = None]
      /\ UNCHANGED files
  BY DEF StoreRows, TreeGoto
<1>2. /\ OwnStep(s) /\ tpc'[s] = "list" /\ todo'[s] = {} /\ listed'[s] = {} /\ leaf'[s] = 0 /\ first'[s] = NoStamp
      /\ fd'[s] = 0 /\ read'[s] = <<>> /\ total'[s] = 0 /\ errors'[s] = <<>> /\ flags'[s] = {} /\ digests'[s] = {}
      /\ writes'[s] = {} /\ verdict'[s] = None
  BY <1>0, <1>1 DEF OwnStep, TreeArrays
<1>3. /\ NoStamp \in Stamps /\ NoStamp.time = 0 /\ <<>> \in Seq(Blocks) /\ <<>> \in Seq(Codes) /\ 0 <= edits /\ Len(<<>>) = 0
      /\ 0 <= MaxErrors /\ 0 <= MaxTotalSize /\ 0 \in AnyInode
  BY <1>0, TreeAssumption DEF NoStamp, Stamps, AnyInode, FilesShape
<1>4. PlacesShape(s)' /\ ResultShape(s)'
  BY <1>2, <1>3 DEF PlacesShape, ResultShape, TreePlaces
<1>5. ScannerHonest(s)'
  BY <1>1, <1>2, <1>3 DEF ScannerHonest
<1>6. ScannerExplains(s)'
  BY <1>2, <1>3 DEF ScannerExplains, AtEntry
<1> QED
  BY <1>2, <1>4, <1>5, <1>6 DEF ScannerOK

(* What is stored was there, or is a leaf of a complete record. *)
LEMMA StoredRows ==
    ASSUME TreeInv, NEW s \in Scanners, StoreRows(s), NEW r \in cacheRows'
    PROVE  \/ r \in cacheRows
           \/ \E q \in cacheRows : r = [q EXCEPT !.used = 1]
           \/ /\ verdict[s] = "complete"
              /\ \E w \in digests[s] : r = [leaf |-> w.leaf, ino |-> w.ino, time |-> w.time, data |-> w.data, used |-> 0]
<1>0. TreeKnown(s) /\ tpc[s] = "commit"
  BY TreeKnownOf DEF StoreRows
<1>1. writes[s] \subseteq digests[s] /\ (writes[s] # {} => verdict[s] = "complete")
  BY <1>0 DEF TreeKnown, ScannerExplains
<1> DEFINE new == {[leaf |-> w.leaf, ino |-> w.ino, time |-> w.time, data |-> w.data, used |-> 0] : w \in writes[s]}
           old == {q \in cacheRows : ~\E w \in writes[s] : w.leaf = q.leaf /\ w.ino = q.ino /\ w.time = q.time}
           aged == {[q EXCEPT !.used = 1] : q \in old}
<1>2. cacheRows' = cacheRows \/ cacheRows' \subseteq new \cup aged
  BY DEF StoreRows
<1>3. \A x \in aged : \E q \in cacheRows : x = [q EXCEPT !.used = 1]
  OBVIOUS
<1>4. \A x \in new : \E w \in writes[s] : x = [leaf |-> w.leaf, ino |-> w.ino, time |-> w.time, data |-> w.data, used |-> 0]
  OBVIOUS
<1> HIDE DEF new, aged
<1>5. CASE r \in new
  BY <1>1, <1>4, <1>5
<1> QED
  BY <1>2, <1>3, <1>5

LEMMA RowsKept ==
    ASSUME TreeInv, NEW s \in Scanners, StoreRows(s)
    PROVE  FilesShape' /\ FilesHonest'
<1>0. TreeKnown(s) /\ UNCHANGED files
  BY TreeKnownOf DEF StoreRows
<1>1. ASSUME NEW r \in cacheRows' PROVE r \in CachedLeaves /\ TrueRow(r)
  <2>1. CASE r \in cacheRows
    BY <1>0, <2>1 DEF TreeKnown, FilesShape, FilesHonest
  <2>2. ASSUME NEW q \in cacheRows, r = [q EXCEPT !.used = 1] PROVE r \in CachedLeaves /\ TrueRow(r)
    <3>1. q \in CachedLeaves /\ TrueRow(q)
      BY <1>0 DEF TreeKnown, FilesShape, FilesHonest
    <3> QED
      BY <2>2, <3>1 DEF CachedLeaves, TrueRow
  <2>3. ASSUME NEW w \in digests[s], r = [leaf |-> w.leaf, ino |-> w.ino, time |-> w.time, data |-> w.data, used |-> 0]
        PROVE  r \in CachedLeaves /\ TrueRow(r)
    <3>1. w \in LeafRows /\ TrueRow(w)
      BY <1>0 DEF TreeKnown, ResultShape, ScannerHonest
    <3> QED
      BY <2>3, <3>1 DEF CachedLeaves, LeafRows, TrueRow
  <2> QED
    BY <2>1, <2>2, <2>3, StoredRows
<1>2. FilesShape'
  BY <1>0, <1>1 DEF TreeKnown, FilesShape, files
<1>3. FilesHonest'
  BY <1>0, <1>1 DEF TreeKnown, FilesHonest, TrueRow, files
<1> QED
  BY <1>2, <1>3

LEMMA ScannerKeepsTree ==
    ASSUME TreeInv, NEW s \in Scanners, TreeStep(s) \/ Expire(s)
    PROVE  TreeInv'
<1>1. OwnStep(s) /\ ScannerOK(s)'
  BY ListStep, StatStep, OpenCacheStep, LookupStep, RecheckStep, OpenHashStep, ReadStep, CheckStep, RecordStep,
     ExpireStep, EndStep, ConcludeStep, CommitStep DEF TreeStep
<1>2. UNCHANGED files
  BY DEF TreeStep, ListDirectory, StatEntry, OpenForCache, LookupLeaf, RecheckHit, OpenForHash, ReadBlock, CheckRead,
         RecordLeaf, EndWalk, Conclude, StoreRows, Expire
<1>3. TreeArrays' /\ \A q \in Scanners : ScannerOK(q)'
  BY <1>1, <1>2, OthersOK
<1>4. FilesShape' /\ FilesHonest'
  <2>1. CASE StoreRows(s)
    BY <2>1, RowsKept
  <2>2. CASE ~StoreRows(s)
    <3>1. UNCHANGED cacheRows
      BY <2>2 DEF TreeStep, ListDirectory, StatEntry, OpenForCache, LookupLeaf, RecheckHit, OpenForHash, ReadBlock, CheckRead,
                  RecordLeaf, EndWalk, Conclude, Expire
    <3> QED
      BY <1>2, <3>1 DEF files, FilesShape, FilesHonest, TrueRow, TreeInv
  <2> QED
    BY <2>1, <2>2
<1> QED
  BY <1>3, <1>4 DEF TreeInv

-----------------------------------------------------------------------------
(* The editor: a stamp that was given out is never given out again.        *)
LEMMA EditorKeepsTree ==
    ASSUME TreeInv, UNCHANGED <<cacheRows, placeOf, state>>, edits < MaxEdits, edits' = edits + 1,
           entry' \in [Leaves -> [kind : {"none", "file", "link", "deep"}, ino : AnyInode]],
           NEW i \in AnyInode, NEW data \in Data,
           \/ UNCHANGED <<inode, truth>>
           \/ /\ inode' = [inode EXCEPT ![i] = [data |-> data, time |-> edits + 1]]
              /\ truth' = [truth EXCEPT ![edits + 1] = data]
    PROVE  TreeInv'
<1>0. FilesShape /\ FilesHonest /\ TreeArrays /\ \A s \in Scanners : ScannerOK(s)
  BY DEF TreeInv
<1>1. edits \in Nat /\ MaxEdits \in Nat /\ edits + 1 \in 0..MaxEdits
  BY <1>0, TreeAssumption DEF FilesShape
<1>2. FilesShape'
  <2>1. inode' \in [AnyInode -> [data : Data, time : 0..MaxEdits]]
    <3>1. inode \in [AnyInode -> [data : Data, time : 0..MaxEdits]]
      BY <1>0 DEF FilesShape
    <3>2. PICK new \in [data : Data, time : 0..MaxEdits] : new = [data |-> data, time |-> edits + 1]
      BY <1>1
    <3> QED
      BY <3>1, <3>2
  <2>2. truth' \in [0..MaxEdits -> Data]
    BY <1>0 DEF FilesShape
  <2> QED
    BY <1>0, <1>1, <2>1, <2>2 DEF FilesShape
<1>3. \A t \in 0..MaxEdits : t <= edits => truth'[t] = truth[t] /\ t # edits + 1
  BY <1>0, <1>1 DEF FilesShape
<1>4. ASSUME NEW k \in AnyInode
      PROVE  \/ inode'[k] = inode[k]
             \/ inode'[k] = [data |-> data, time |-> edits + 1] /\ truth'[edits + 1] = data
  BY <1>0, <1>1 DEF FilesShape
<1>5. ASSUME NEW r, r.time \in 0..MaxEdits, TrueRow(r) PROVE TrueRow(r)'
  BY <1>1, <1>3, <1>5 DEF TrueRow
<1>6. FilesHonest'
  <2>1. ASSUME NEW k \in AnyInode PROVE inode'[k].time <= edits' /\ inode'[k].data = truth'[inode'[k].time]
    <3>1. inode[k].time \in 0..MaxEdits /\ inode[k].time <= edits /\ inode[k].data = truth[inode[k].time]
      BY <1>0 DEF FilesShape, FilesHonest
    <3> QED
      BY <1>1, <1>3, <1>4, <3>1
  <2>2. ASSUME NEW r \in cacheRows PROVE TrueRow(r)'
    BY <1>0, <1>5 DEF FilesShape, FilesHonest, CachedLeaves
  <2> QED
    BY <2>1, <2>2 DEF FilesHonest
<1>7. ASSUME NEW s \in Scanners PROVE ScannerOK(s)'
  <2>0. PlacesShape(s) /\ ResultShape(s) /\ ScannerHonest(s) /\ ScannerExplains(s)
    BY <1>0 DEF ScannerOK
  <2>1. PlacesShape(s)' /\ ResultShape(s)' /\ ScannerExplains(s)'
    BY <2>0 DEF PlacesShape, ResultShape, ScannerExplains, placeOf, state
  <2>2. ScannerHonest(s)'
    <3>1. first[s].time \in 0..MaxEdits /\ first[s].time <= edits /\ first' = first /\ read' = read /\ tpc' = tpc /\ digests' = digests /\ fd' = fd
      BY <2>0 DEF PlacesShape, Stamps, ScannerHonest, placeOf, state
    <3>2. first'[s].time <= edits' /\ truth'[first'[s].time] = truth[first[s].time]
      BY <1>1, <1>3, <3>1
    <3>3. \A d \in digests'[s] : TrueRow(d)'
      BY <1>5, <2>0, <3>1 DEF ResultShape, LeafRows, ScannerHonest
    <3>4. Stamp(fd[s])' = first'[s] => inode'[fd[s]] = inode[fd[s]] /\ Stamp(fd[s]) = first[s]
      <4>1. fd[s] \in AnyInode
        BY <2>0 DEF PlacesShape
      <4>2. CASE inode'[fd[s]] = inode[fd[s]]
        BY <3>1, <4>2 DEF Stamp
      <4>3. CASE inode'[fd[s]] = [data |-> data, time |-> edits + 1]
        <5>1. Stamp(fd[s])'.time = edits + 1
          BY <3>1, <4>3 DEF Stamp
        <5> QED
          BY <1>1, <1>3, <3>1, <5>1
      <4> QED
        BY <1>4, <4>1, <4>2, <4>3
    <3> QED
      BY <2>0, <3>1, <3>2, <3>3, <3>4 DEF ScannerHonest
  <2> QED
    BY <2>1, <2>2 DEF ScannerOK
<1>8. TreeArrays'
  BY <1>0 DEF TreeArrays, placeOf, state
<1> QED
  BY <1>2, <1>6, <1>7, <1>8 DEF TreeInv

LEMMA TreeInit_Inv == TreeInit => TreeInv
<1> SUFFICES ASSUME TreeInit PROVE TreeInv
  OBVIOUS
<1> USE DEF TreeInit
<1>1. inode \in [AnyInode -> [data : Data, time : {0}]] /\ inode[0].data \in Data /\ MaxEdits \in Nat
  BY TreeAssumption DEF AnyInode
<1>2. FilesShape
  BY <1>1, TreeAssumption DEF FilesShape, AnyInode, Gone
<1>3. FilesHonest
  BY <1>1 DEF FilesHonest, AnyInode
<1>4. TreeArrays
  BY DEF TreeArrays
<1>5. ASSUME NEW s \in Scanners PROVE ScannerOK(s)
  <2>1. /\ NoStamp \in Stamps /\ NoStamp.time = 0 /\ <<>> \in Seq(Blocks) /\ <<>> \in Seq(Codes) /\ Len(<<>>) = 0
        /\ 0 <= MaxErrors /\ 0 <= MaxTotalSize /\ 0 \in AnyInode
    BY TreeAssumption DEF NoStamp, Stamps, AnyInode
  <2>2. PlacesShape(s) /\ ResultShape(s)
    BY <2>1 DEF PlacesShape, ResultShape, TreePlaces
  <2>3. ScannerHonest(s)
    BY <2>1 DEF ScannerHonest
  <2>4. ScannerExplains(s)
    BY <2>1 DEF ScannerExplains, AtEntry
  <2> QED
    BY <2>2, <2>3, <2>4 DEF ScannerOK
<1> QED
  BY <1>2, <1>3, <1>4, <1>5 DEF TreeInv

LEMMA TreeNext_Inv == TreeInv /\ [TreeNext]_treeVars => TreeInv'
<1> SUFFICES ASSUME TreeInv, [TreeNext]_treeVars PROVE TreeInv'
  OBVIOUS
<1>0. FilesShape
  BY DEF TreeInv
<1>1. ASSUME NEW s \in Scanners, TreeStep(s) \/ Expire(s) PROVE TreeInv'
  BY <1>1, ScannerKeepsTree
<1>2. ASSUME NEW l \in Leaves, EditInPlace(l) PROVE TreeInv'
  <2>1. PICK data \in Data : Change(entry[l].ino, data)
    BY <1>2 DEF EditInPlace
  <2>2. entry[l].ino \in AnyInode /\ entry' = entry /\ UNCHANGED <<cacheRows, placeOf, state>>
    BY <1>0, <1>2 DEF EditInPlace, FilesShape
  <2>3. PICK i \in AnyInode : i = entry[l].ino
    BY <2>2
  <2>4. edits < MaxEdits /\ edits' = edits + 1 /\ inode' = [inode EXCEPT ![i] = [data |-> data, time |-> edits + 1]]
        /\ truth' = [truth EXCEPT ![edits + 1] = data]
    BY <2>1, <2>3 DEF Change
  <2>5. entry' \in [Leaves -> [kind : {"none", "file", "link", "deep"}, ino : AnyInode]]
    BY <1>0, <2>2 DEF FilesShape
  <2> QED
    BY <2>2, <2>4, <2>5, EditorKeepsTree
<1>3. ASSUME NEW l \in Leaves, ReplaceFile(l) PROVE TreeInv'
  <2>1. PICK i \in Inodes, data \in Data : Change(i, data) /\ entry' = [entry EXCEPT ![l] = [kind |-> "file", ino |-> i]]
    BY <1>3 DEF ReplaceFile
  <2>2. i \in AnyInode /\ UNCHANGED <<cacheRows, placeOf, state>>
    BY <1>3 DEF ReplaceFile, AnyInode
  <2>4. edits < MaxEdits /\ edits' = edits + 1 /\ inode' = [inode EXCEPT ![i] = [data |-> data, time |-> edits + 1]]
        /\ truth' = [truth EXCEPT ![edits + 1] = data]
    BY <2>1 DEF Change
  <2>5. entry' \in [Leaves -> [kind : {"none", "file", "link", "deep"}, ino : AnyInode]]
    BY <1>0, <2>1, <2>2 DEF FilesShape
  <2> QED
    BY <2>2, <2>4, <2>5, EditorKeepsTree
<1>4. ASSUME NEW l \in Leaves, ReplaceOther(l) PROVE TreeInv'
  <2>1. PICK e \in {Gone, [kind |-> "link", ino |-> 0], [kind |-> "deep", ino |-> 0]} : entry' = [entry EXCEPT ![l] = e]
    BY <1>4 DEF ReplaceOther
  <2>2. e \in [kind : {"none", "file", "link", "deep"}, ino : AnyInode]
    BY DEF Gone, AnyInode
  <2>3. entry' \in [Leaves -> [kind : {"none", "file", "link", "deep"}, ino : AnyInode]]
    BY <1>0, <2>1, <2>2 DEF FilesShape
  <2>4. edits < MaxEdits /\ edits' = edits + 1 /\ UNCHANGED <<inode, truth>> /\ UNCHANGED <<cacheRows, placeOf, state>>
    BY <1>4 DEF ReplaceOther
  <2>5. 0 \in AnyInode /\ inode[0].data \in Data
    BY <1>0 DEF FilesShape, AnyInode
  <2> QED
    BY <2>3, <2>4, <2>5, EditorKeepsTree
<1>5. CASE UNCHANGED treeVars
  <2>1. UNCHANGED <<files, cacheRows, placeOf, state>>
    BY <1>5 DEF treeVars
  <2>2. TreeArrays' /\ FilesShape' /\ FilesHonest'
    BY <2>1 DEF TreeInv, TreeArrays, FilesShape, FilesHonest, TrueRow, files, placeOf, state
  <2>3. ASSUME NEW s \in Scanners PROVE ScannerOK(s)'
    <3>1. PlacesShape(s)' /\ ResultShape(s)' /\ ScannerExplains(s)'
      BY <2>1 DEF TreeInv, ScannerOK, PlacesShape, ResultShape, ScannerExplains, placeOf, state
    <3>2. ScannerHonest(s)'
      BY <2>1 DEF TreeInv, ScannerOK, ScannerHonest, TrueRow, Stamp, files, placeOf, state
    <3> QED
      BY <3>1, <3>2 DEF ScannerOK
  <2> QED
    BY <2>2, <2>3 DEF TreeInv
<1> QED
  BY <1>1, <1>2, <1>3, <1>4, <1>5 DEF TreeNext

LEMMA TreeInvMeans == TreeInv => TreeTypeOK /\ CacheHonest /\ DigestHonest /\ CompleteOrExplained
<1> SUFFICES ASSUME TreeInv PROVE TreeTypeOK /\ CacheHonest /\ DigestHonest /\ CompleteOrExplained
  OBVIOUS
<1>1. CacheHonest
  BY DEF TreeInv, FilesHonest, TrueRow, CacheHonest
<1>2. ASSUME NEW s \in Scanners
      PROVE  /\ todo[s] \subseteq listed[s] /\ listed[s] \subseteq Leaves /\ total[s] \in Nat
             /\ flags[s] \subseteq {"partial", "oversize"} /\ verdict[s] \in Verdicts \cup {None}
             /\ \A d \in digests[s] : d.data = truth[d.time]
             /\ Len(errors[s]) <= MaxErrors /\ total[s] <= MaxTotalSize
             /\ verdict[s] = "complete" => errors[s] = <<>> /\ {d.leaf : d \in digests[s]} = listed[s]
             /\ verdict[s] \notin {"complete", None} => errors[s] # <<>>
  <2>0. TreeKnown(s)
    BY TreeKnownOf
  <2>1. \A d \in digests[s] : d.data = truth[d.time]
    BY <2>0 DEF TreeKnown, ScannerHonest, TrueRow
  <2>2. verdict[s] = "complete" => errors[s] = <<>> /\ {d.leaf : d \in digests[s]} = listed[s]
    BY <2>0, TreeAssumption DEF TreeKnown, ScannerExplains, AtEntry
  <2>3. verdict[s] \notin {"complete", None} => errors[s] # <<>>
    BY <2>0 DEF TreeKnown, ScannerExplains
  <2> QED
    BY <2>0, <2>1, <2>2, <2>3 DEF TreeKnown, PlacesShape, ResultShape, ScannerExplains
<1>3. TreeTypeOK
  BY <1>2 DEF TreeInv, FilesShape, TreeTypeOK, AnyInode, Verdicts
<1>4. DigestHonest /\ CompleteOrExplained
  BY <1>2 DEF DigestHonest, CompleteOrExplained
<1> QED
  BY <1>1, <1>3, <1>4

LEMMA TreeStepCaches == TreeInv /\ [TreeNext]_treeVars => OnlyCompleteCached
<1> SUFFICES ASSUME TreeInv, [TreeNext]_treeVars, NEW r \in cacheRows' \ cacheRows
             PROVE  r.used = 1 \/ \E s \in Scanners : verdict[s] = "complete" /\ [leaf |-> r.leaf, ino |-> r.ino, time |-> r.time, data |-> r.data] \in digests[s]
  BY DEF OnlyCompleteCached
<1>1. PICK s \in Scanners : StoreRows(s)
  BY DEF TreeNext, TreeStep, ListDirectory, StatEntry, OpenForCache, LookupLeaf, RecheckHit, OpenForHash, ReadBlock, CheckRead,
         RecordLeaf, EndWalk, Conclude, Expire, EditInPlace, ReplaceFile, ReplaceOther, treeVars
<1>2. CASE \E q \in cacheRows : r = [q EXCEPT !.used = 1]
  BY <1>2 DEF TreeInv, FilesShape, CachedLeaves
<1>3. ASSUME NEW w \in digests[s], verdict[s] = "complete",
             r = [leaf |-> w.leaf, ino |-> w.ino, time |-> w.time, data |-> w.data, used |-> 0]
      PROVE  [leaf |-> r.leaf, ino |-> r.ino, time |-> r.time, data |-> r.data] \in digests[s]
  <2>1. w \in LeafRows
    BY DEF TreeInv, ScannerOK, ResultShape
  <2>2. [leaf |-> r.leaf, ino |-> r.ino, time |-> r.time, data |-> r.data] = w
    BY <1>3, <2>1 DEF LeafRows
  <2> QED
    BY <2>2
<1> QED
  BY <1>1, <1>2, <1>3, StoredRows

-----------------------------------------------------------------------------
(* The ladder of drift *)

(* The rungs that hold of an asset. *)
RungsOf(a) == AssetRungs(a) \cup RecordRungs(a)
Telling == {x \in Added \cup Staying : RungsOf(x) # {}}
Deleted == {x \in Removed : ~Paired(IdentityOf[x])}

LadderInv ==
    /\ was \in Snapshots /\ is \in Snapshots
    /\ rows # None => rows = {Row(a, Highest(RungsOf(a))) : a \in Telling} \cup {Row(a, "REMOVED") : a \in Deleted}

LEMMA LadderInit == InitLadder => LadderInv
BY DEF InitLadder, LadderInv

LEMMA LadderNext == LadderInv /\ [NextLadder]_ladderVars => LadderInv'
<1> SUFFICES ASSUME LadderInv, [NextLadder]_ladderVars PROVE LadderInv'
  OBVIOUS
<1>1. CASE Classify
  <2>1. UNCHANGED <<was, is>>
    BY <1>1 DEF Classify
  <2>2. Telling' = Telling /\ Deleted' = Deleted /\ Added' = Added /\ Removed' = Removed
        /\ \A a : RungsOf(a)' = RungsOf(a) /\ \A r : Row(a, r)' = Row(a, r)
    BY <2>1 DEF Telling, Deleted, RungsOf, AssetRungs, RecordRungs, MovedOf, NewOrChanged, Gap, Added, Removed, Staying, Paired, Of, Row
  <2>3. rows' = {Row(a, Highest(RungsOf(a))) : a \in Telling} \cup {Row(a, "REMOVED") : a \in Deleted}
    BY <1>1 DEF Classify, Telling, Deleted, RungsOf
  <2> QED
    BY <2>1, <2>2, <2>3 DEF LadderInv
<1>2. CASE UNCHANGED ladderVars
  <2>1. UNCHANGED <<was, is, rows>>
    BY <1>2 DEF ladderVars
  <2>2. Telling' = Telling /\ Deleted' = Deleted /\ \A a : RungsOf(a)' = RungsOf(a) /\ \A r : Row(a, r)' = Row(a, r)
    BY <2>1 DEF Telling, Deleted, RungsOf, AssetRungs, RecordRungs, MovedOf, NewOrChanged, Gap, Added, Removed, Staying, Paired, Of, Row
  <2> QED
    BY <2>1, <2>2 DEF LadderInv
<1> QED
  BY <1>1, <1>2 DEF NextLadder

(* The highest of some rungs is one of them, and none of them is higher.   *)
LEMMA HighestIs ==
    ASSUME NEW rungs \in SUBSET DOMAIN Rung, rungs # {}
    PROVE  Highest(rungs) \in rungs /\ \A s \in rungs : Rung[Highest(rungs)] <= Rung[s]
<1>1. \E r \in rungs : \A s \in rungs : Rung[r] <= Rung[s]
  BY DEF Rung
<1> QED
  BY <1>1 DEF Highest

LEMMA RungsKnown ==
    ASSUME NEW a
    PROVE  /\ RungsOf(a) \in SUBSET {"NEW", "CHANGED", "UNVERIFIED", "UPGRADED"}
           /\ a \in Telling => Highest(RungsOf(a)) \in RungsOf(a)
                                 /\ \A s \in RungsOf(a) : Rung[Highest(RungsOf(a))] <= Rung[s]
<1>1. RungsOf(a) \in SUBSET {"NEW", "CHANGED", "UNVERIFIED", "UPGRADED"}
  BY DEF RungsOf, AssetRungs, RecordRungs
<1>2. {"NEW", "CHANGED", "UNVERIFIED", "UPGRADED"} \subseteq DOMAIN Rung
  BY DEF Rung
<1>3. a \in Telling => RungsOf(a) # {}
  BY DEF Telling
<1> QED
  BY <1>1, <1>2, <1>3, HighestIs

LEMMA AtMostOne ==
    ASSUME NEW S, S = {} \/ \E x : S = {x}
    PROVE  Cardinality(S) <= 1
<1>1. CASE S = {}
  BY <1>1, FS_EmptySet
<1>2. ASSUME NEW x, S = {x} PROVE Cardinality(S) <= 1
  <2>1. Cardinality({x}) = 1
    BY FS_Singleton
  <2> QED
    BY <1>2, <2>1
<1> QED
  BY <1>1, <1>2

(* A row is that of an asset that tells something, or of one that is gone. *)
LEMMA RowsOfOne ==
    ASSUME LadderInv, rows # None, NEW a \in LadderAssets
    PROVE  RowsOf(a) = (IF a \in Telling THEN {Row(a, Highest(RungsOf(a)))} ELSE {})
                       \cup (IF a \in Deleted THEN {Row(a, "REMOVED")} ELSE {})
<1>1. \A b, r : Row(b, r).key = b
  BY DEF Row
<1> QED
  BY <1>1 DEF LadderInv, RowsOf

(* What an asset that stays has to tell, or one that came. *)
LEMMA TellingIs ==
    ASSUME NEW a
    PROVE  /\ a \in Added => a \in Telling
           /\ a \in Staying => (a \in Telling <=> is.assets[a] # was.assets[a] \/ MovedOf(a) # {})
           /\ a \in Telling => a \in LadderAssets
<1>1. a \in Added => a \in Telling
  BY DEF Telling, RungsOf, AssetRungs
<1>2. ASSUME a \in Staying PROVE a \in Telling <=> is.assets[a] # was.assets[a] \/ MovedOf(a) # {}
  <2>1. a \notin Added
    BY <1>2 DEF Staying, Added
  <2>2. RecordRungs(a) # {} <=> MovedOf(a) # {}
    BY <2>1 DEF RecordRungs
  <2>3. AssetRungs(a) # {} <=> is.assets[a] # was.assets[a]
    BY <1>2, <2>1 DEF AssetRungs
  <2> QED
    BY <1>2, <2>2, <2>3 DEF Telling, RungsOf
<1> QED
  BY <1>1, <1>2 DEF Telling, Added, Staying

(* Of a pair, the one that came and the one that went are known. *)
LEMMA PairIs ==
    ASSUME NEW a, Paired(IdentityOf[a])
    PROVE  \E b, c : /\ Of(Added, IdentityOf[a]) = {b} /\ b \in Added /\ IdentityOf[b] = IdentityOf[a]
                     /\ Of(Removed, IdentityOf[a]) = {c} /\ c \in Removed /\ IdentityOf[c] = IdentityOf[a]
<1>1. IsFiniteSet(Of(Added, IdentityOf[a])) /\ IsFiniteSet(Of(Removed, IdentityOf[a]))
  BY LadderAssumption, FS_Subset DEF Of, Added, Removed
<1>2. PICK b : Of(Added, IdentityOf[a]) = {b}
  BY <1>1, FS_Singleton DEF Paired
<1>3. PICK c : Of(Removed, IdentityOf[a]) = {c}
  BY <1>1, FS_Singleton DEF Paired
<1> QED
  BY <1>2, <1>3 DEF Of

LEMMA LadderHidesNothing == LadderInv => NothingHidden
<1> SUFFICES ASSUME LadderInv, rows # None
             PROVE  /\ \A a \in LadderAssets : Cardinality(RowsOf(a)) <= 1
                    /\ \A a \in Staying :
                        RowsOf(a) # {} <=>
                            \/ is.assets[a] # was.assets[a]
                            \/ \E r \in LadderRecords : OwnerOf[r] = a /\ is.records[r] # None /\ is.records[r] # was.records[r]
                    /\ \A a \in Added : RowsOf(a) # {}
                    /\ \A a \in Removed :
                        \/ \E r \in RowsOf(a) : r.rung = "REMOVED"
                        \/ \E b \in Added : /\ Of(Added, IdentityOf[a]) = {b} /\ Of(Removed, IdentityOf[a]) = {a}
                                            /\ \E r \in RowsOf(b) : r.rung \in {"UNVERIFIED", "UPGRADED"}
  BY DEF NothingHidden
<1>1. ASSUME NEW a \in LadderAssets PROVE Cardinality(RowsOf(a)) <= 1
  <2>1. ~(a \in Telling /\ a \in Deleted)
    BY DEF Telling, Deleted, Added, Staying, Removed
  <2>2. RowsOf(a) = {} \/ \E r : RowsOf(a) = {r}
    BY <2>1, RowsOfOne
  <2> QED
    BY <2>2, AtMostOne
<1>2. ASSUME NEW a \in Staying
      PROVE  RowsOf(a) # {} <=>
                 \/ is.assets[a] # was.assets[a]
                 \/ \E r \in LadderRecords : OwnerOf[r] = a /\ is.records[r] # None /\ is.records[r] # was.records[r]
  <2>1. a \in LadderAssets /\ a \notin Deleted
    BY DEF Staying, Deleted, Removed
  <2>2. RowsOf(a) # {} <=> a \in Telling
    BY <2>1, RowsOfOne
  <2>3. MovedOf(a) # {} <=> \E r \in LadderRecords : OwnerOf[r] = a /\ is.records[r] # None /\ is.records[r] # was.records[r]
    BY DEF MovedOf, NewOrChanged
  <2> QED
    BY <2>2, <2>3, TellingIs
<1>3. ASSUME NEW a \in Added PROVE RowsOf(a) # {}
  BY TellingIs, RowsOfOne
<1>4. ASSUME NEW a \in Removed
      PROVE  \/ \E r \in RowsOf(a) : r.rung = "REMOVED"
             \/ \E b \in Added : /\ Of(Added, IdentityOf[a]) = {b} /\ Of(Removed, IdentityOf[a]) = {a}
                                 /\ \E r \in RowsOf(b) : r.rung \in {"UNVERIFIED", "UPGRADED"}
  <2>1. CASE a \in Deleted
    <3>1. Row(a, "REMOVED") \in RowsOf(a) /\ Row(a, "REMOVED").rung = "REMOVED"
      BY <2>1, RowsOfOne DEF Removed, Row
    <3> QED
      BY <3>1
  <2>2. CASE a \notin Deleted
    <3>1. Paired(IdentityOf[a])
      BY <2>2 DEF Deleted
    <3>2. PICK b, c : /\ Of(Added, IdentityOf[a]) = {b} /\ b \in Added /\ IdentityOf[b] = IdentityOf[a]
                      /\ Of(Removed, IdentityOf[a]) = {c}
      BY <3>1, PairIs
    <3>3. c = a
      BY <3>2 DEF Of
    <3>4. RungsOf(b) \subseteq {"UPGRADED", "UNVERIFIED"} /\ b \in Telling /\ b \in LadderAssets
      <4>1. AssetRungs(b) = {"UPGRADED"}
        BY <3>1, <3>2 DEF AssetRungs, Added, Staying
      <4>2. RecordRungs(b) \subseteq {"UNVERIFIED"}
        BY <3>2 DEF RecordRungs
      <4> QED
        BY <4>1, <4>2, <3>2, TellingIs DEF RungsOf
    <3>5. Row(b, Highest(RungsOf(b))) \in RowsOf(b) /\ Row(b, Highest(RungsOf(b))).rung \in {"UNVERIFIED", "UPGRADED"}
      BY <3>4, RungsKnown, RowsOfOne DEF Row
    <3> QED
      BY <3>2, <3>3, <3>5
  <2> QED
    BY <2>1, <2>2
<1> QED
  BY <1>1, <1>2, <1>3, <1>4

(* A record that moved belongs to an asset that is there. *)
LEMMA MovedArePresent ==
    ASSUME LadderInv, NEW a \in LadderAssets, MovedOf(a) # {}
    PROVE  is.assets[a] # None
<1>1. PICK r \in LadderRecords : OwnerOf[r] = a /\ is.records[r] # None
  BY DEF MovedOf, NewOrChanged
<1>2. is \in Snapshots /\ a # None
  BY LadderAssumption DEF LadderInv
<1> QED
  BY <1>1, <1>2, LadderAssumption

LEMMA LadderGapsSpeak == LadderInv => GapsSpeak
<1> SUFFICES ASSUME LadderInv, rows # None, NEW row \in rows,
                    NEW a, a = row.key,
                    NEW gap, gap = \E r \in MovedOf(a) : is.records[r].status \notin {"complete", "unsupported"},
                    NEW known, known = (is.assets[a] # was.assets[a] \/ \E r \in MovedOf(a) : is.records[r].status \in {"complete", "unsupported"})
             PROVE  /\ gap => row.rung \in {"NEW", "UNVERIFIED"} \/ (row.rung = "CHANGED" /\ known)
                    /\ row.rung = "UNVERIFIED" => gap
                    /\ row.rung = "CHANGED" => a \in Staying /\ known
                    /\ row.rung = "UPGRADED" =>
                        \E b \in Removed : Of(Removed, IdentityOf[a]) = {b} /\ Of(Added, IdentityOf[a]) = {a} /\ row.from = VersionOf[b]
  BY DEF GapsSpeak
<1>1. CASE \E x \in Deleted : row = Row(x, "REMOVED")
  <2>1. row.rung = "REMOVED" /\ a \in Removed
    BY <1>1 DEF Row, Deleted
  <2>2. ~gap
    BY <2>1, MovedArePresent DEF Removed
  <2> QED
    BY <2>1, <2>2
<1>2. CASE \E x \in Telling : row = Row(x, Highest(RungsOf(x)))
  <2>1. /\ a \in Telling /\ row = Row(a, Highest(RungsOf(a))) /\ row.rung = Highest(RungsOf(a))
        /\ row.rung \in RungsOf(a) /\ \A s \in RungsOf(a) : Rung[row.rung] <= Rung[s]
    BY <1>2, RungsKnown DEF Row
  <2>2. RungsOf(a) \in SUBSET {"NEW", "CHANGED", "UNVERIFIED", "UPGRADED"}
    BY RungsKnown
  <2>3. "UNVERIFIED" \in RecordRungs(a) <=> gap
    BY DEF RecordRungs, Gap
  <2>4. "UNVERIFIED" \notin AssetRungs(a)
    BY DEF AssetRungs
  <2>5. "CHANGED" \in RecordRungs(a) <=> a \notin Added /\ \E r \in MovedOf(a) : is.records[r].status \in {"complete", "unsupported"}
    BY DEF RecordRungs, Gap
  <2>6. "CHANGED" \in AssetRungs(a) <=> a \in Staying /\ is.assets[a] # was.assets[a]
    BY DEF AssetRungs
  <2>7. a \in Added \cup Staying /\ ~(a \in Added /\ a \in Staying)
    BY <2>1 DEF Telling, Added, Staying
  <2>8. "CHANGED" \in RungsOf(a) => a \in Staying /\ known
    BY <2>5, <2>6, <2>7 DEF RungsOf
  <2>9. gap => row.rung \in {"NEW", "UNVERIFIED", "CHANGED"}
    <3>1. ASSUME gap, row.rung = "UPGRADED" PROVE FALSE
      <4>1. Rung["UPGRADED"] <= Rung["UNVERIFIED"]
        BY <2>1, <2>3, <3>1 DEF RungsOf
      <4> QED
        BY <4>1 DEF Rung
    <3>2. row.rung \in {"NEW", "CHANGED", "UNVERIFIED", "UPGRADED"}
      BY <2>1, <2>2
    <3> QED
      BY <3>1, <3>2
  <2>10. row.rung = "UPGRADED" =>
             \E b \in Removed : Of(Removed, IdentityOf[a]) = {b} /\ Of(Added, IdentityOf[a]) = {a} /\ row.from = VersionOf[b]
    <3> SUFFICES ASSUME row.rung = "UPGRADED"
                 PROVE \E b \in Removed : Of(Removed, IdentityOf[a]) = {b} /\ Of(Added, IdentityOf[a]) = {a} /\ row.from = VersionOf[b]
      OBVIOUS
    <3>1. a \in Added /\ Paired(IdentityOf[a])
      BY <2>1 DEF RungsOf, AssetRungs, RecordRungs
    <3>2. PICK b, c : /\ Of(Added, IdentityOf[a]) = {b} /\ Of(Removed, IdentityOf[a]) = {c} /\ c \in Removed
      BY <3>1, PairIs
    <3>3. b = a
      BY <3>1, <3>2 DEF Of
    <3>4. row.from = VersionOf[c]
      BY <2>1, <3>2 DEF Row
    <3> QED
      BY <3>2, <3>3, <3>4
  <2> QED
    BY <2>1, <2>3, <2>4, <2>8, <2>9, <2>10 DEF RungsOf
<1> QED
  BY <1>1, <1>2 DEF LadderInv

-----------------------------------------------------------------------------
(* The runtime probes *)

RuntimeInv ==
    /\ DOMAIN statusOf = {"processes", "listeners"}
    /\ \A l \in listening : l = <<l[1], l[2]>>
    /\ \A s, t \in seen : s[1] = t[1] => s[2] = t[2]
    /\ \A s \in seen : s = <<s[1], s[2]>>
    /\ rpc \in {"begin", "processes"} => seen = {}
    /\ rpc \in {"begin", "processes", "listeners"} => heard = {} /\ links = {}
    /\ LinksHaveBothEnds

LEMMA RuntimeInit == InitRuntime => RuntimeInv
BY DEF InitRuntime, RuntimeInv, LinksHaveBothEnds

LEMMA RuntimeNext == RuntimeInv /\ [NextRuntime]_runtimeVars => RuntimeInv'
<1> USE DEF machine
<1>1. ASSUME RuntimeInv, BeginRuntime PROVE RuntimeInv'
  BY <1>1 DEF RuntimeInv, BeginRuntime, Collecting, LinksHaveBothEnds
<1>2. ASSUME RuntimeInv, ProbeProcesses PROVE RuntimeInv'
  <2>1. /\ DOMAIN statusOf' = {"processes", "listeners"} /\ rpc' = "listeners"
        /\ UNCHANGED <<listening, heard, links>> /\ heard = {} /\ links = {}
    BY <1>2 DEF RuntimeInv, ProbeProcesses
  <2>2. (\A s, t \in seen' : s[1] = t[1] => s[2] = t[2]) /\ (\A s \in seen' : s = <<s[1], s[2]>>)
    BY <1>2 DEF RuntimeInv, ProbeProcesses, ParsedProcesses
  <2>3. Broken(statusOf'["processes"]) => seen' = {}
    BY <1>2 DEF RuntimeInv, ProbeProcesses, Broken
  <2> QED
    BY <1>2, <2>1, <2>2, <2>3 DEF RuntimeInv, LinksHaveBothEnds
<1>3. ASSUME RuntimeInv, ProbeListeners PROVE RuntimeInv'
  <2>1. /\ DOMAIN statusOf' = {"processes", "listeners"} /\ rpc' = "done" /\ UNCHANGED <<listening, seen>>
        /\ heard = {} /\ links = {}
        /\ statusOf'["processes"] = statusOf["processes"]
    BY <1>3 DEF RuntimeInv, ProbeListeners
  <2>2. CASE UNCHANGED <<heard, links>>
    BY <1>3, <2>1, <2>2 DEF RuntimeInv, LinksHaveBothEnds
  <2>3. CASE /\ statusOf' = [statusOf EXCEPT !["listeners"] = "complete"] /\ heard' = listening
             /\ links' = UNION {{<<l[1], l[2], s[2]>> : s \in {x \in seen : x[1] = l[1]}} : l \in listening}
    <3>1. \A k \in links' : \E l \in listening : \E s \in seen : k = <<l[1], l[2], s[2]>> /\ s[1] = l[1]
      BY <2>3
    <3>2. \A k \in links' : <<k[1], k[2]>> \in heard' /\ <<k[1], k[3]>> \in seen
      BY <2>3, <3>1, <1>3 DEF RuntimeInv
    <3>3. ~Broken(statusOf'["listeners"])
      BY <1>3, <2>3 DEF RuntimeInv, Broken
    <3>4. Broken(statusOf["processes"]) => links' = {}
      BY <1>3, <3>2 DEF RuntimeInv, LinksHaveBothEnds
    <3>5. \A l, k \in links' : l[1] = k[1] => l[3] = k[3]
      BY <1>3, <3>2 DEF RuntimeInv
    <3> QED
      BY <1>3, <2>1, <3>2, <3>3, <3>4, <3>5 DEF RuntimeInv, LinksHaveBothEnds
  <2> QED
    BY <1>3, <2>2, <2>3 DEF ProbeListeners
<1>4. ASSUME RuntimeInv, AbortRuntime PROVE RuntimeInv'
  BY <1>4 DEF RuntimeInv, AbortRuntime, LinksHaveBothEnds
<1>5. ASSUME RuntimeInv, NEW p \in Pids, Fork(p) PROVE RuntimeInv'
  BY <1>5 DEF RuntimeInv, Fork, LinksHaveBothEnds
<1>6. ASSUME RuntimeInv, UNCHANGED runtimeVars PROVE RuntimeInv'
  BY <1>6 DEF RuntimeInv, runtimeVars, LinksHaveBothEnds
<1> QED
  BY <1>1, <1>2, <1>3, <1>4, <1>5, <1>6 DEF NextRuntime

-----------------------------------------------------------------------------
(* Versions and ranges *)

(* Three answers that agree on an order of a, b and c: x compares a with   *)
(* b, y compares b with c and z compares a with c.                         *)
Agree(x, y, z) == x <= 0 /\ y <= 0 => z <= 0 /\ (z = 0 <=> x = 0 /\ y = 0)

(* The first of the answers d[1], ..., d[n] that is not 0, or `tie`.       *)
FirstAnswer(r, d, n, tie) ==
    \/ (\A i \in 1 .. n : d[i] = 0) /\ r = tie
    \/ \E k \in 1 .. n : d[k] # 0 /\ (\A j \in 1 .. (k - 1) : d[j] = 0) /\ r = d[k]

Least(m, n) == IF m < n THEN m ELSE n

LEMMA SignAgrees ==
    ASSUME NEW a \in Int, NEW b \in Int, NEW c \in Int
    PROVE  Agree(Sign(a, b), Sign(b, c), Sign(a, c)) /\ Sign(a, b) \in Int /\ Sign(a, a) = 0 /\ Sign(a, b) = -Sign(b, a)
BY DEF Agree, Sign

(* Comparing place by place, and then by length, is an order if comparing  *)
(* at one place is.                                                        *)
LEMMA PlacesAgree ==
    ASSUME NEW m \in Nat, NEW n \in Nat, NEW o \in Nat,
           NEW ab \in [1 .. Least(m, n) -> Int], NEW bc \in [1 .. Least(n, o) -> Int], NEW ac \in [1 .. Least(m, o) -> Int],
           \A i \in 1 .. m : i <= n /\ i <= o => Agree(ab[i], bc[i], ac[i]),
           NEW x \in Int, NEW y \in Int, NEW z \in Int,
           FirstAnswer(x, ab, Least(m, n), Sign(m, n)), FirstAnswer(y, bc, Least(n, o), Sign(n, o)),
           FirstAnswer(z, ac, Least(m, o), Sign(m, o))
    PROVE  Agree(x, y, z)
<1> SUFFICES ASSUME x <= 0, y <= 0 PROVE z <= 0 /\ (z = 0 <=> x = 0 /\ y = 0)
  BY DEF Agree
<1>1. CASE (\A i \in 1 .. Least(m, n) : ab[i] = 0) /\ x = Sign(m, n) /\ (\A i \in 1 .. Least(n, o) : bc[i] = 0) /\ y = Sign(n, o)
  <2>1. m <= n /\ n <= o /\ Least(m, n) = m /\ Least(n, o) = n /\ Least(m, o) = m
    BY <1>1 DEF Sign, Least
  <2>2. \A i \in 1 .. m : ac[i] = 0
    <3> TAKE i \in 1 .. m
    <3>1. i \in 1 .. n /\ i <= n /\ i <= o /\ ab[i] = 0 /\ bc[i] = 0
      BY <1>1, <2>1
    <3>2. Agree(ab[i], bc[i], ac[i])
      BY <3>1
    <3> QED
      BY <3>1, <3>2 DEF Agree
  <2>3. z = Sign(m, o)
    BY <2>1, <2>2 DEF FirstAnswer
  <2> QED
    BY <1>1, <2>1, <2>3 DEF Sign
<1>2. ASSUME NEW k \in Nat, k >= 1, k <= m, k <= n, k <= o,
             \A i \in 1 .. k : ab[i] <= 0 /\ bc[i] <= 0, ab[k] # 0 \/ bc[k] # 0,
             x < 0 \/ y < 0
      PROVE  z < 0
  <2>1. \A i \in 1 .. k : ac[i] <= 0
    <3> TAKE i \in 1 .. k
    <3>1. Agree(ab[i], bc[i], ac[i]) /\ ab[i] <= 0 /\ bc[i] <= 0
      BY <1>2
    <3> QED
      BY <3>1 DEF Agree
  <2>2. ac[k] # 0
    <3>1. Agree(ab[k], bc[k], ac[k]) /\ ab[k] <= 0 /\ bc[k] <= 0
      BY <1>2
    <3> QED
      BY <1>2, <3>1 DEF Agree
  <2>3. k \in 1 .. Least(m, o)
    BY <1>2 DEF Least
  <2>4. PICK h \in 1 .. Least(m, o) : ac[h] # 0 /\ (\A j \in 1 .. (h - 1) : ac[j] = 0) /\ z = ac[h]
    BY <2>2, <2>3 DEF FirstAnswer
  <2>5. h \in Nat /\ h <= k
    <3>1. h \in Nat /\ Least(m, o) \in Nat
      BY DEF Least
    <3>2. CASE k < h
      BY <1>2, <2>2, <2>4, <3>1, <3>2
    <3> QED
      BY <1>2, <3>1, <3>2
  <2>6. h \in 1 .. k
    BY <1>2, <2>5
  <2>7. ac[h] \in Int
    BY <2>4
  <2> QED
    BY <2>1, <2>4, <2>6, <2>7
<1>3. ASSUME NEW k \in 1 .. Least(m, n), ab[k] # 0, \A j \in 1 .. (k - 1) : ab[j] = 0, x = ab[k]
      PROVE  z < 0 /\ x < 0
  <2>0. k \in Nat /\ k >= 1 /\ k <= m /\ k <= n /\ x < 0
    BY <1>3 DEF Least
  <2>1. CASE (\A i \in 1 .. Least(n, o) : bc[i] = 0) /\ y = Sign(n, o)
    <3>1. n <= o /\ Least(n, o) = n
      BY <2>1 DEF Sign, Least
    <3>2. \A i \in 1 .. k : ab[i] <= 0 /\ bc[i] <= 0
      BY <1>3, <2>0, <2>1, <3>1
    <3> QED
      BY <1>2, <1>3, <2>0, <3>1, <3>2
  <2>2. ASSUME NEW h \in 1 .. Least(n, o), bc[h] # 0, \A j \in 1 .. (h - 1) : bc[j] = 0, y = bc[h]
        PROVE  z < 0
    <3>1. h \in Nat /\ h >= 1 /\ h <= n /\ h <= o /\ y < 0
      BY <2>2 DEF Least
    <3>2. CASE h <= k
      <4>1. \A i \in 1 .. h : ab[i] <= 0 /\ bc[i] <= 0
        BY <1>3, <2>0, <2>2, <3>1, <3>2
      <4> QED
        BY <1>2, <2>0, <2>2, <3>1, <3>2, <4>1
    <3>3. CASE k < h
      <4>1. \A i \in 1 .. k : ab[i] <= 0 /\ bc[i] <= 0
        BY <1>3, <2>0, <2>2, <3>1, <3>3
      <4>2. k <= o
        BY <2>0, <3>1, <3>3
      <4> QED
        BY <1>2, <1>3, <2>0, <4>1, <4>2
    <3> QED
      BY <2>0, <3>1, <3>2, <3>3
  <2> QED
    BY <2>0, <2>1, <2>2 DEF FirstAnswer
<1>4. ASSUME \A i \in 1 .. Least(m, n) : ab[i] = 0, x = Sign(m, n),
             NEW h \in 1 .. Least(n, o), bc[h] # 0, \A j \in 1 .. (h - 1) : bc[j] = 0, y = bc[h]
      PROVE  z < 0 /\ y < 0
  <2>0. h \in Nat /\ h >= 1 /\ h <= n /\ h <= o /\ y < 0
    BY <1>4 DEF Least
  <2>1. m <= n /\ Least(m, n) = m
    BY <1>4 DEF Sign, Least
  <2>2. CASE h <= m
    <3>1. \A i \in 1 .. h : ab[i] <= 0 /\ bc[i] <= 0
      BY <1>4, <2>0, <2>1, <2>2
    <3> QED
      BY <1>2, <1>4, <2>0, <2>2, <3>1
  <2>3. CASE m < h
    <3>1. m < o /\ Least(m, o) = m
      BY <2>0, <2>3 DEF Least
    <3>2. \A i \in 1 .. m : ac[i] = 0
      <4> TAKE i \in 1 .. m
      <4>1. i <= n /\ i <= o /\ ab[i] = 0 /\ bc[i] = 0
        BY <1>4, <2>0, <2>1, <2>3, <3>1
      <4>2. Agree(ab[i], bc[i], ac[i])
        BY <4>1
      <4> QED
        BY <4>1, <4>2 DEF Agree
    <3>3. z = Sign(m, o)
      BY <3>1, <3>2 DEF FirstAnswer
    <3> QED
      BY <2>0, <3>1, <3>3 DEF Sign
  <2> QED
    BY <2>0, <2>2, <2>3
<1> QED
  BY <1>1, <1>3, <1>4 DEF FirstAnswer

(* The first place is there if any is, and what is decided is an answer.   *)
LEMMA FirstIsFirst ==
    ASSUME NEW n \in Nat, NEW d \in [1 .. n -> Int], NEW tie \in Int
    PROVE  FirstAnswer(FirstDifference(d, tie), d, n, tie) /\ FirstDifference(d, tie) \in Int
<1> DEFINE differ == {i \in 1 .. n : d[i] # 0}
           spot == CHOOSE i \in differ : \A j \in differ : i <= j
<1>1. FirstDifference(d, tie) = IF differ = {} THEN tie ELSE d[spot]
  BY DEF FirstDifference
<1>2. CASE differ = {}
  <2>1. \A i \in 1 .. n : d[i] = 0
    BY <1>2
  <2> QED
    BY <1>1, <1>2, <2>1 DEF FirstAnswer
<1>3. CASE differ # {}
  <2>1. differ \in SUBSET Nat
    OBVIOUS
  <2>2. \E i \in differ : \A j \in differ : i <= j
    <3> HIDE DEF differ
    <3> QED
      BY <1>3, <2>1, LeastOf
  <2>3. spot \in differ /\ \A j \in differ : spot <= j
    <3> HIDE DEF differ
    <3> QED
      BY <2>2
  <2> HIDE DEF spot
  <2>4. spot \in 1 .. n /\ d[spot] # 0 /\ \A j \in 1 .. (spot - 1) : d[j] = 0
    <3>1. spot \in 1 .. n /\ d[spot] # 0
      BY <2>3
    <3>2. \A j \in 1 .. (spot - 1) : j \in 1 .. n /\ ~(spot <= j)
      BY <3>1
    <3> QED
      BY <2>3, <3>1, <3>2
  <2>5. FirstDifference(d, tie) = d[spot]
    BY <1>1, <1>3
  <2> QED
    BY <2>4, <2>5 DEF FirstAnswer
<1> QED
  BY <1>2, <1>3

(* What is asked the other way round is answered the other way round.      *)
LEMMA AnswersReverse ==
    ASSUME NEW n \in Nat, NEW ab \in [1 .. n -> Int], NEW ba \in [1 .. n -> Int], \A i \in 1 .. n : ab[i] = -ba[i],
           NEW x, NEW y, NEW tie \in Int, NEW eit \in Int, tie = -eit, FirstAnswer(x, ab, n, tie), FirstAnswer(y, ba, n, eit)
    PROVE  x = -y
<1>1. \A i \in 1 .. n : (ab[i] = 0 <=> ba[i] = 0)
  <2> TAKE i \in 1 .. n
  <2>1. ab[i] \in Int /\ ba[i] \in Int /\ ab[i] = -ba[i]
    OBVIOUS
  <2> QED
    BY <2>1
<1>2. CASE \A i \in 1 .. n : ab[i] = 0
  BY <1>1, <1>2 DEF FirstAnswer
<1>3. ASSUME NEW k \in 1 .. n, ab[k] # 0, \A j \in 1 .. (k - 1) : ab[j] = 0, x = ab[k],
             NEW h \in 1 .. n, ba[h] # 0, \A j \in 1 .. (h - 1) : ba[j] = 0, y = ba[h]
      PROVE  x = -y
  <2>1. ~(k < h) /\ ~(h < k)
    BY <1>1, <1>3
  <2>2. k = h
    BY <2>1
  <2> QED
    BY <1>3, <2>2
<1> QED
  BY <1>1, <1>2, <1>3 DEF FirstAnswer

(* The two facts about comparing that PlacesAgree and AnswersReverse give, *)
(* for sequences of answers.  They are first-order: a comparison goes in   *)
(* as the function of its answers.                                         *)
LEMMA FirstsAgree ==
    ASSUME NEW m \in Nat, NEW n \in Nat, NEW o \in Nat,
           NEW ab \in [1 .. Least(m, n) -> Int], NEW bc \in [1 .. Least(n, o) -> Int], NEW ac \in [1 .. Least(m, o) -> Int],
           \A i \in 1 .. m : i <= n /\ i <= o => Agree(ab[i], bc[i], ac[i])
    PROVE  Agree(FirstDifference(ab, Sign(m, n)), FirstDifference(bc, Sign(n, o)), FirstDifference(ac, Sign(m, o)))
<1>1. Least(m, n) \in Nat /\ Least(n, o) \in Nat /\ Least(m, o) \in Nat
  BY DEF Least
<1>2. Sign(m, n) \in Int /\ Sign(n, o) \in Int /\ Sign(m, o) \in Int
  BY DEF Sign
<1>3. /\ FirstAnswer(FirstDifference(ab, Sign(m, n)), ab, Least(m, n), Sign(m, n))
      /\ FirstDifference(ab, Sign(m, n)) \in Int
  BY <1>1, <1>2, FirstIsFirst
<1>4. /\ FirstAnswer(FirstDifference(bc, Sign(n, o)), bc, Least(n, o), Sign(n, o))
      /\ FirstDifference(bc, Sign(n, o)) \in Int
  BY <1>1, <1>2, FirstIsFirst
<1>5. /\ FirstAnswer(FirstDifference(ac, Sign(m, o)), ac, Least(m, o), Sign(m, o))
      /\ FirstDifference(ac, Sign(m, o)) \in Int
  BY <1>1, <1>2, FirstIsFirst
<1> QED
  BY <1>3, <1>4, <1>5, PlacesAgree

LEMMA FirstsReverse ==
    ASSUME NEW n \in Nat, NEW ab \in [1 .. n -> Int], NEW ba \in [1 .. n -> Int], \A i \in 1 .. n : ab[i] = -ba[i],
           NEW tie \in Int, NEW eit \in Int, tie = -eit
    PROVE  FirstDifference(ab, tie) = -FirstDifference(ba, eit)
<1>1. FirstAnswer(FirstDifference(ab, tie), ab, n, tie) /\ FirstAnswer(FirstDifference(ba, eit), ba, n, eit)
  BY FirstIsFirst
<1> QED
  BY <1>1, AnswersReverse

LEMMA FirstOfNone ==
    ASSUME NEW n \in Nat, NEW d \in [1 .. n -> Int], \A i \in 1 .. n : d[i] = 0, NEW tie \in Int
    PROVE  FirstDifference(d, tie) = tie
BY FirstIsFirst DEF FirstAnswer

LEMMA LengthOf ==
    ASSUME NEW S, NEW l \in Seq(S)
    PROVE  Len(l) \in Nat /\ \A i \in 1 .. Len(l) : l[i] \in S
OBVIOUS

LEMMA LeastAgain ==
    ASSUME NEW m \in Nat, NEW n \in Nat
    PROVE  Least(m, n) = Least(n, m) /\ Least(m, m) = m /\ Least(m, n) \in Nat /\ \A i \in 1 .. Least(m, n) : i \in 1 .. m /\ i \in 1 .. n
BY DEF Least

LocalPart(a, b) == IF a.number = b.number THEN Sign(a.v, b.v) ELSE IF a.number THEN 1 ELSE -1
Numbers(s, t) == CompareSeq(s, t, Sign)
Words(s, t) == CompareSeq(s, t, CompareIdentifier)

LEMMA NumbersSigned ==
    ASSUME NEW a \in Nat, NEW b \in Nat, NEW c \in Nat
    PROVE  /\ Agree(Sign(a, b), Sign(b, c), Sign(a, c))
           /\ Sign(a, b) \in Int /\ Sign(a, a) = 0 /\ Sign(a, b) = -Sign(b, a)
BY DEF Agree, Sign

LEMMA IdentifiersAgree ==
    ASSUME NEW a \in Identifiers, NEW b \in Identifiers, NEW c \in Identifiers
    PROVE  /\ Agree(CompareIdentifier(a, b), CompareIdentifier(b, c), CompareIdentifier(a, c))
           /\ CompareIdentifier(a, b) \in Int
           /\ CompareIdentifier(a, a) = 0 /\ CompareIdentifier(a, b) = -CompareIdentifier(b, a)
BY DEF Agree, CompareIdentifier, Sign, Identifiers

LEMMA LocalPartsAgree ==
    ASSUME NEW a \in Identifiers, NEW b \in Identifiers, NEW c \in Identifiers
    PROVE  /\ Agree(LocalPart(a, b), LocalPart(b, c), LocalPart(a, c))
           /\ LocalPart(a, b) \in Int
           /\ LocalPart(a, a) = 0 /\ LocalPart(a, b) = -LocalPart(b, a)
BY DEF Agree, LocalPart, Sign, Identifiers

LEMMA NumbersAgree ==
    ASSUME NEW s \in Seq(Nat), NEW t \in Seq(Nat), NEW u \in Seq(Nat)
    PROVE  /\ Agree(Numbers(s, t), Numbers(t, u), Numbers(s, u))
           /\ Numbers(s, s) = 0 /\ Numbers(s, t) = -Numbers(t, s) /\ Numbers(s, t) \in Int
<1> DEFINE D(p, q) == [i \in 1 .. Shorter(p, q) |-> Sign(p[i], q[i])]
<1>1. ASSUME NEW p \in Seq(Nat), NEW q \in Seq(Nat)
      PROVE  /\ Numbers(p, q) = FirstDifference(D(p, q), Sign(Len(p), Len(q)))
             /\ Shorter(p, q) = Least(Len(p), Len(q)) /\ Len(p) \in Nat /\ Sign(Len(p), Len(q)) \in Int
             /\ Least(Len(p), Len(q)) \in Nat
             /\ D(p, q) \in [1 .. Least(Len(p), Len(q)) -> Int]
             /\ \A i \in 1 .. Least(Len(p), Len(q)) : D(p, q)[i] = Sign(p[i], q[i])
  <2>1. Len(p) \in Nat /\ Len(q) \in Nat
    BY LengthOf
  <2>2. Shorter(p, q) = Least(Len(p), Len(q)) /\ Least(Len(p), Len(q)) \in Nat
    BY <2>1 DEF Shorter, Least
  <2>3. ASSUME NEW i \in 1 .. Least(Len(p), Len(q)) PROVE Sign(p[i], q[i]) \in Int
    <3>1. p[i] \in Nat /\ q[i] \in Nat
      BY <2>1, LeastAgain, LengthOf
    <3> QED
      BY <3>1, NumbersSigned
  <2>4. Numbers(p, q) = FirstDifference(D(p, q), Sign(Len(p), Len(q)))
    BY DEF Numbers, CompareSeq
  <2>5. Sign(Len(p), Len(q)) \in Int
    BY <2>1 DEF Sign
  <2> QED
    BY <2>1, <2>2, <2>3, <2>4, <2>5
<1>2. ASSUME NEW i \in 1 .. Len(s), i <= Len(t), i <= Len(u) PROVE Agree(D(s, t)[i], D(t, u)[i], D(s, u)[i])
  <2>1. s[i] \in Nat /\ t[i] \in Nat /\ u[i] \in Nat
    BY <1>2, LengthOf
  <2>2. i \in 1 .. Least(Len(s), Len(t)) /\ i \in 1 .. Least(Len(t), Len(u)) /\ i \in 1 .. Least(Len(s), Len(u))
    BY <1>2, LengthOf DEF Least
  <2>3. D(s, t)[i] = Sign(s[i], t[i]) /\ D(t, u)[i] = Sign(t[i], u[i]) /\ D(s, u)[i] = Sign(s[i], u[i])
    BY <1>1, <2>2
  <2> HIDE DEF D
  <2> QED
    BY <2>1, <2>3, NumbersSigned
<1>3. ASSUME NEW i \in 1 .. Least(Len(s), Len(t)) PROVE D(s, t)[i] = -D(t, s)[i]
  <2>1. s[i] \in Nat /\ t[i] \in Nat /\ i \in 1 .. Least(Len(t), Len(s))
    BY LeastAgain, LengthOf
  <2>2. D(s, t)[i] = Sign(s[i], t[i]) /\ D(t, s)[i] = Sign(t[i], s[i])
    BY <1>1, <2>1
  <2> HIDE DEF D
  <2> QED
    BY <2>1, <2>2, NumbersSigned
<1>4. ASSUME NEW i \in 1 .. Least(Len(s), Len(s)) PROVE D(s, s)[i] = 0
  <2>1. s[i] \in Nat
    BY LeastAgain, LengthOf
  <2>2. D(s, s)[i] = Sign(s[i], s[i])
    BY <1>1
  <2> HIDE DEF D
  <2> QED
    BY <2>1, <2>2, NumbersSigned
<1> HIDE DEF D
<1>5. Agree(Numbers(s, t), Numbers(t, u), Numbers(s, u))
  <2> DEFINE ab == D(s, t)
             bc == D(t, u)
             ac == D(s, u)
  <2>1. /\ ab \in [1 .. Least(Len(s), Len(t)) -> Int] /\ bc \in [1 .. Least(Len(t), Len(u)) -> Int]
        /\ ac \in [1 .. Least(Len(s), Len(u)) -> Int] /\ Len(s) \in Nat /\ Len(t) \in Nat /\ Len(u) \in Nat
        /\ \A i \in 1 .. Len(s) : i <= Len(t) /\ i <= Len(u) => Agree(ab[i], bc[i], ac[i])
    BY <1>1, <1>2
  <2>2. /\ Numbers(s, t) = FirstDifference(ab, Sign(Len(s), Len(t))) /\ Numbers(t, u) = FirstDifference(bc, Sign(Len(t), Len(u)))
        /\ Numbers(s, u) = FirstDifference(ac, Sign(Len(s), Len(u)))
    BY <1>1
  <2> HIDE DEF ab, bc, ac
  <2>3. Agree(FirstDifference(ab, Sign(Len(s), Len(t))), FirstDifference(bc, Sign(Len(t), Len(u))),
              FirstDifference(ac, Sign(Len(s), Len(u))))
    BY <2>1, FirstsAgree
  <2> QED
    BY <2>2, <2>3
<1>6. Numbers(s, s) = 0
  <2>1. Sign(Len(s), Len(s)) = 0
    BY LengthOf DEF Sign
  <2> DEFINE n == Least(Len(s), Len(s))
             d == D(s, s)
  <2>2. n \in Nat /\ d \in [1 .. n -> Int] /\ (\A i \in 1 .. n : d[i] = 0) /\ Numbers(s, s) = FirstDifference(d, Sign(Len(s), Len(s)))
    BY <1>1, <1>4
  <2> HIDE DEF n, d
  <2>3. FirstDifference(d, 0) = 0
    BY <2>2, FirstOfNone
  <2> QED
    BY <2>1, <2>2, <2>3
<1>7. Numbers(s, t) = -Numbers(t, s)
  <2> DEFINE n == Least(Len(s), Len(t))
             ab == D(s, t)
             ba == D(t, s)
  <2>1. Least(Len(t), Len(s)) = n /\ n \in Nat
    BY LengthOf, LeastAgain
  <2>2. /\ ab \in [1 .. n -> Int] /\ ba \in [1 .. n -> Int] /\ \A i \in 1 .. n : ab[i] = -ba[i]
        /\ Numbers(s, t) = FirstDifference(ab, Sign(Len(s), Len(t))) /\ Numbers(t, s) = FirstDifference(ba, Sign(Len(t), Len(s)))
        /\ Sign(Len(s), Len(t)) \in Int /\ Sign(Len(t), Len(s)) \in Int
    BY <1>1, <1>3, <2>1
  <2>3. Sign(Len(s), Len(t)) = -Sign(Len(t), Len(s))
    BY LengthOf DEF Sign
  <2> HIDE DEF n, ab, ba
  <2>4. FirstDifference(ab, Sign(Len(s), Len(t))) = -FirstDifference(ba, Sign(Len(t), Len(s)))
    BY <2>1, <2>2, <2>3, FirstsReverse
  <2> QED
    BY <2>2, <2>4
<1>8. Numbers(s, t) \in Int
  <2> DEFINE n == Least(Len(s), Len(t))
             ab == D(s, t)
  <2>1. n \in Nat /\ ab \in [1 .. n -> Int] /\ Sign(Len(s), Len(t)) \in Int /\ Numbers(s, t) = FirstDifference(ab, Sign(Len(s), Len(t)))
    BY <1>1
  <2> HIDE DEF n, ab
  <2>2. FirstDifference(ab, Sign(Len(s), Len(t))) \in Int
    BY <2>1, FirstIsFirst
  <2> QED
    BY <2>1, <2>2
<1> QED
  BY <1>5, <1>6, <1>7, <1>8

LEMMA WordsAgree ==
    ASSUME NEW s \in Seq(Identifiers), NEW t \in Seq(Identifiers), NEW u \in Seq(Identifiers)
    PROVE  /\ Agree(Words(s, t), Words(t, u), Words(s, u))
           /\ Words(s, s) = 0 /\ Words(s, t) = -Words(t, s) /\ Words(s, t) \in Int
<1> DEFINE D(p, q) == [i \in 1 .. Shorter(p, q) |-> CompareIdentifier(p[i], q[i])]
<1>1. ASSUME NEW p \in Seq(Identifiers), NEW q \in Seq(Identifiers)
      PROVE  /\ Words(p, q) = FirstDifference(D(p, q), Sign(Len(p), Len(q)))
             /\ Shorter(p, q) = Least(Len(p), Len(q)) /\ Len(p) \in Nat /\ Sign(Len(p), Len(q)) \in Int
             /\ Least(Len(p), Len(q)) \in Nat
             /\ D(p, q) \in [1 .. Least(Len(p), Len(q)) -> Int]
             /\ \A i \in 1 .. Least(Len(p), Len(q)) : D(p, q)[i] = CompareIdentifier(p[i], q[i])
  <2>1. Len(p) \in Nat /\ Len(q) \in Nat
    BY LengthOf
  <2>2. Shorter(p, q) = Least(Len(p), Len(q)) /\ Least(Len(p), Len(q)) \in Nat
    BY <2>1 DEF Shorter, Least
  <2>3. ASSUME NEW i \in 1 .. Least(Len(p), Len(q)) PROVE CompareIdentifier(p[i], q[i]) \in Int
    <3>1. p[i] \in Identifiers /\ q[i] \in Identifiers
      BY <2>1, LeastAgain, LengthOf
    <3> QED
      BY <3>1, IdentifiersAgree
  <2>4. Words(p, q) = FirstDifference(D(p, q), Sign(Len(p), Len(q)))
    BY DEF Words, CompareSeq
  <2>5. Sign(Len(p), Len(q)) \in Int
    BY <2>1 DEF Sign
  <2> QED
    BY <2>1, <2>2, <2>3, <2>4, <2>5
<1>2. ASSUME NEW i \in 1 .. Len(s), i <= Len(t), i <= Len(u) PROVE Agree(D(s, t)[i], D(t, u)[i], D(s, u)[i])
  <2>1. s[i] \in Identifiers /\ t[i] \in Identifiers /\ u[i] \in Identifiers
    BY <1>2, LengthOf
  <2>2. i \in 1 .. Least(Len(s), Len(t)) /\ i \in 1 .. Least(Len(t), Len(u)) /\ i \in 1 .. Least(Len(s), Len(u))
    BY <1>2, LengthOf DEF Least
  <2>3. D(s, t)[i] = CompareIdentifier(s[i], t[i]) /\ D(t, u)[i] = CompareIdentifier(t[i], u[i]) /\ D(s, u)[i] = CompareIdentifier(s[i], u[i])
    BY <1>1, <2>2
  <2> HIDE DEF D
  <2> QED
    BY <2>1, <2>3, IdentifiersAgree
<1>3. ASSUME NEW i \in 1 .. Least(Len(s), Len(t)) PROVE D(s, t)[i] = -D(t, s)[i]
  <2>1. s[i] \in Identifiers /\ t[i] \in Identifiers /\ i \in 1 .. Least(Len(t), Len(s))
    BY LeastAgain, LengthOf
  <2>2. D(s, t)[i] = CompareIdentifier(s[i], t[i]) /\ D(t, s)[i] = CompareIdentifier(t[i], s[i])
    BY <1>1, <2>1
  <2> HIDE DEF D
  <2> QED
    BY <2>1, <2>2, IdentifiersAgree
<1>4. ASSUME NEW i \in 1 .. Least(Len(s), Len(s)) PROVE D(s, s)[i] = 0
  <2>1. s[i] \in Identifiers
    BY LeastAgain, LengthOf
  <2>2. D(s, s)[i] = CompareIdentifier(s[i], s[i])
    BY <1>1
  <2> HIDE DEF D
  <2> QED
    BY <2>1, <2>2, IdentifiersAgree
<1> HIDE DEF D
<1>5. Agree(Words(s, t), Words(t, u), Words(s, u))
  <2> DEFINE ab == D(s, t)
             bc == D(t, u)
             ac == D(s, u)
  <2>1. /\ ab \in [1 .. Least(Len(s), Len(t)) -> Int] /\ bc \in [1 .. Least(Len(t), Len(u)) -> Int]
        /\ ac \in [1 .. Least(Len(s), Len(u)) -> Int] /\ Len(s) \in Nat /\ Len(t) \in Nat /\ Len(u) \in Nat
        /\ \A i \in 1 .. Len(s) : i <= Len(t) /\ i <= Len(u) => Agree(ab[i], bc[i], ac[i])
    BY <1>1, <1>2
  <2>2. /\ Words(s, t) = FirstDifference(ab, Sign(Len(s), Len(t))) /\ Words(t, u) = FirstDifference(bc, Sign(Len(t), Len(u)))
        /\ Words(s, u) = FirstDifference(ac, Sign(Len(s), Len(u)))
    BY <1>1
  <2> HIDE DEF ab, bc, ac
  <2>3. Agree(FirstDifference(ab, Sign(Len(s), Len(t))), FirstDifference(bc, Sign(Len(t), Len(u))),
              FirstDifference(ac, Sign(Len(s), Len(u))))
    BY <2>1, FirstsAgree
  <2> QED
    BY <2>2, <2>3
<1>6. Words(s, s) = 0
  <2>1. Sign(Len(s), Len(s)) = 0
    BY LengthOf DEF Sign
  <2> DEFINE n == Least(Len(s), Len(s))
             d == D(s, s)
  <2>2. n \in Nat /\ d \in [1 .. n -> Int] /\ (\A i \in 1 .. n : d[i] = 0) /\ Words(s, s) = FirstDifference(d, Sign(Len(s), Len(s)))
    BY <1>1, <1>4
  <2> HIDE DEF n, d
  <2>3. FirstDifference(d, 0) = 0
    BY <2>2, FirstOfNone
  <2> QED
    BY <2>1, <2>2, <2>3
<1>7. Words(s, t) = -Words(t, s)
  <2> DEFINE n == Least(Len(s), Len(t))
             ab == D(s, t)
             ba == D(t, s)
  <2>1. Least(Len(t), Len(s)) = n /\ n \in Nat
    BY LengthOf, LeastAgain
  <2>2. /\ ab \in [1 .. n -> Int] /\ ba \in [1 .. n -> Int] /\ \A i \in 1 .. n : ab[i] = -ba[i]
        /\ Words(s, t) = FirstDifference(ab, Sign(Len(s), Len(t))) /\ Words(t, s) = FirstDifference(ba, Sign(Len(t), Len(s)))
        /\ Sign(Len(s), Len(t)) \in Int /\ Sign(Len(t), Len(s)) \in Int
    BY <1>1, <1>3, <2>1
  <2>3. Sign(Len(s), Len(t)) = -Sign(Len(t), Len(s))
    BY LengthOf DEF Sign
  <2> HIDE DEF n, ab, ba
  <2>4. FirstDifference(ab, Sign(Len(s), Len(t))) = -FirstDifference(ba, Sign(Len(t), Len(s)))
    BY <2>1, <2>2, <2>3, FirstsReverse
  <2> QED
    BY <2>2, <2>4
<1>8. Words(s, t) \in Int
  <2> DEFINE n == Least(Len(s), Len(t))
             ab == D(s, t)
  <2>1. n \in Nat /\ ab \in [1 .. n -> Int] /\ Sign(Len(s), Len(t)) \in Int /\ Words(s, t) = FirstDifference(ab, Sign(Len(s), Len(t)))
    BY <1>1
  <2> HIDE DEF n, ab
  <2>2. FirstDifference(ab, Sign(Len(s), Len(t))) \in Int
    BY <2>1, FirstIsFirst
  <2> QED
    BY <2>1, <2>2
<1> QED
  BY <1>5, <1>6, <1>7, <1>8

LEMMA CompareLocalAgree ==
    ASSUME NEW s \in Seq(Identifiers), NEW t \in Seq(Identifiers), NEW u \in Seq(Identifiers)
    PROVE  /\ Agree(CompareLocal(s, t), CompareLocal(t, u), CompareLocal(s, u))
           /\ CompareLocal(s, s) = 0 /\ CompareLocal(s, t) = -CompareLocal(t, s) /\ CompareLocal(s, t) \in Int
<1> DEFINE D(p, q) == [i \in 1 .. Shorter(p, q) |-> LocalPart(p[i], q[i])]
<1>1. ASSUME NEW p \in Seq(Identifiers), NEW q \in Seq(Identifiers)
      PROVE  /\ CompareLocal(p, q) = FirstDifference(D(p, q), Sign(Len(p), Len(q)))
             /\ Shorter(p, q) = Least(Len(p), Len(q)) /\ Len(p) \in Nat /\ Sign(Len(p), Len(q)) \in Int
             /\ Least(Len(p), Len(q)) \in Nat
             /\ D(p, q) \in [1 .. Least(Len(p), Len(q)) -> Int]
             /\ \A i \in 1 .. Least(Len(p), Len(q)) : D(p, q)[i] = LocalPart(p[i], q[i])
  <2>1. Len(p) \in Nat /\ Len(q) \in Nat
    BY LengthOf
  <2>2. Shorter(p, q) = Least(Len(p), Len(q)) /\ Least(Len(p), Len(q)) \in Nat
    BY <2>1 DEF Shorter, Least
  <2>3. ASSUME NEW i \in 1 .. Least(Len(p), Len(q)) PROVE LocalPart(p[i], q[i]) \in Int
    <3>1. p[i] \in Identifiers /\ q[i] \in Identifiers
      BY <2>1, LeastAgain, LengthOf
    <3> QED
      BY <3>1, LocalPartsAgree
  <2>4. CompareLocal(p, q) = FirstDifference(D(p, q), Sign(Len(p), Len(q)))
    BY DEF CompareLocal, CompareSeq, LocalPart
  <2>5. Sign(Len(p), Len(q)) \in Int
    BY <2>1 DEF Sign
  <2> QED
    BY <2>1, <2>2, <2>3, <2>4, <2>5
<1>2. ASSUME NEW i \in 1 .. Len(s), i <= Len(t), i <= Len(u) PROVE Agree(D(s, t)[i], D(t, u)[i], D(s, u)[i])
  <2>1. s[i] \in Identifiers /\ t[i] \in Identifiers /\ u[i] \in Identifiers
    BY <1>2, LengthOf
  <2>2. i \in 1 .. Least(Len(s), Len(t)) /\ i \in 1 .. Least(Len(t), Len(u)) /\ i \in 1 .. Least(Len(s), Len(u))
    BY <1>2, LengthOf DEF Least
  <2>3. D(s, t)[i] = LocalPart(s[i], t[i]) /\ D(t, u)[i] = LocalPart(t[i], u[i]) /\ D(s, u)[i] = LocalPart(s[i], u[i])
    BY <1>1, <2>2
  <2> HIDE DEF D
  <2> QED
    BY <2>1, <2>3, LocalPartsAgree
<1>3. ASSUME NEW i \in 1 .. Least(Len(s), Len(t)) PROVE D(s, t)[i] = -D(t, s)[i]
  <2>1. s[i] \in Identifiers /\ t[i] \in Identifiers /\ i \in 1 .. Least(Len(t), Len(s))
    BY LeastAgain, LengthOf
  <2>2. D(s, t)[i] = LocalPart(s[i], t[i]) /\ D(t, s)[i] = LocalPart(t[i], s[i])
    BY <1>1, <2>1
  <2> HIDE DEF D
  <2> QED
    BY <2>1, <2>2, LocalPartsAgree
<1>4. ASSUME NEW i \in 1 .. Least(Len(s), Len(s)) PROVE D(s, s)[i] = 0
  <2>1. s[i] \in Identifiers
    BY LeastAgain, LengthOf
  <2>2. D(s, s)[i] = LocalPart(s[i], s[i])
    BY <1>1
  <2> HIDE DEF D
  <2> QED
    BY <2>1, <2>2, LocalPartsAgree
<1> HIDE DEF D
<1>5. Agree(CompareLocal(s, t), CompareLocal(t, u), CompareLocal(s, u))
  <2> DEFINE ab == D(s, t)
             bc == D(t, u)
             ac == D(s, u)
  <2>1. /\ ab \in [1 .. Least(Len(s), Len(t)) -> Int] /\ bc \in [1 .. Least(Len(t), Len(u)) -> Int]
        /\ ac \in [1 .. Least(Len(s), Len(u)) -> Int] /\ Len(s) \in Nat /\ Len(t) \in Nat /\ Len(u) \in Nat
        /\ \A i \in 1 .. Len(s) : i <= Len(t) /\ i <= Len(u) => Agree(ab[i], bc[i], ac[i])
    BY <1>1, <1>2
  <2>2. /\ CompareLocal(s, t) = FirstDifference(ab, Sign(Len(s), Len(t))) /\ CompareLocal(t, u) = FirstDifference(bc, Sign(Len(t), Len(u)))
        /\ CompareLocal(s, u) = FirstDifference(ac, Sign(Len(s), Len(u)))
    BY <1>1
  <2> HIDE DEF ab, bc, ac
  <2>3. Agree(FirstDifference(ab, Sign(Len(s), Len(t))), FirstDifference(bc, Sign(Len(t), Len(u))),
              FirstDifference(ac, Sign(Len(s), Len(u))))
    BY <2>1, FirstsAgree
  <2> QED
    BY <2>2, <2>3
<1>6. CompareLocal(s, s) = 0
  <2>1. Sign(Len(s), Len(s)) = 0
    BY LengthOf DEF Sign
  <2> DEFINE n == Least(Len(s), Len(s))
             d == D(s, s)
  <2>2. n \in Nat /\ d \in [1 .. n -> Int] /\ (\A i \in 1 .. n : d[i] = 0) /\ CompareLocal(s, s) = FirstDifference(d, Sign(Len(s), Len(s)))
    BY <1>1, <1>4
  <2> HIDE DEF n, d
  <2>3. FirstDifference(d, 0) = 0
    BY <2>2, FirstOfNone
  <2> QED
    BY <2>1, <2>2, <2>3
<1>7. CompareLocal(s, t) = -CompareLocal(t, s)
  <2> DEFINE n == Least(Len(s), Len(t))
             ab == D(s, t)
             ba == D(t, s)
  <2>1. Least(Len(t), Len(s)) = n /\ n \in Nat
    BY LengthOf, LeastAgain
  <2>2. /\ ab \in [1 .. n -> Int] /\ ba \in [1 .. n -> Int] /\ \A i \in 1 .. n : ab[i] = -ba[i]
        /\ CompareLocal(s, t) = FirstDifference(ab, Sign(Len(s), Len(t))) /\ CompareLocal(t, s) = FirstDifference(ba, Sign(Len(t), Len(s)))
        /\ Sign(Len(s), Len(t)) \in Int /\ Sign(Len(t), Len(s)) \in Int
    BY <1>1, <1>3, <2>1
  <2>3. Sign(Len(s), Len(t)) = -Sign(Len(t), Len(s))
    BY LengthOf DEF Sign
  <2> HIDE DEF n, ab, ba
  <2>4. FirstDifference(ab, Sign(Len(s), Len(t))) = -FirstDifference(ba, Sign(Len(t), Len(s)))
    BY <2>1, <2>2, <2>3, FirstsReverse
  <2> QED
    BY <2>2, <2>4
<1>8. CompareLocal(s, t) \in Int
  <2> DEFINE n == Least(Len(s), Len(t))
             ab == D(s, t)
  <2>1. n \in Nat /\ ab \in [1 .. n -> Int] /\ Sign(Len(s), Len(t)) \in Int /\ CompareLocal(s, t) = FirstDifference(ab, Sign(Len(s), Len(t)))
    BY <1>1
  <2> HIDE DEF n, ab
  <2>2. FirstDifference(ab, Sign(Len(s), Len(t))) \in Int
    BY <2>1, FirstIsFirst
  <2> QED
    BY <2>1, <2>2
<1> QED
  BY <1>5, <1>6, <1>7, <1>8

-----------------------------------------------------------------------------
(* The order of versions *)
LEMMA FourNumbers ==
    ASSUME NEW v \in ParsedVersion
    PROVE  v.n \in Seq(Nat) /\ Len(v.n) = 4 /\ v.pre \in Seq(Identifiers) /\ \A i \in 1 .. 4 : v.n[i] \in Nat
<1>1. v.n \in [1 .. 4 -> 0 .. TopNumber] /\ v.pre \in Seq(Identifiers)
  BY DEF ParsedVersion
<1>2. v.n \in [1 .. 4 -> Nat]
  BY <1>1, VersionAssumption DEF VersionAssumption
<1>3. v.n \in Seq(Nat)
  BY <1>2, SeqDef
<1>4. Len(v.n) = 4
  BY <1>2, <1>3, LenProperties
<1> QED
  BY <1>1, <1>2, <1>3, <1>4

LEMMA VersionsAgree ==
    ASSUME NEW a \in ParsedVersion, NEW b \in ParsedVersion, NEW c \in ParsedVersion
    PROVE  /\ Agree(Compare(a, b), Compare(b, c), Compare(a, c))
           /\ Compare(a, a) = 0 /\ Compare(a, b) = -Compare(b, a) /\ Compare(a, b) \in Int
<1> DEFINE Made(p, q) == IF Numbers(p.n, q.n) # 0 THEN Numbers(p.n, q.n)
                         ELSE IF p.pre = <<>> /\ q.pre # <<>> THEN 1
                         ELSE IF p.pre # <<>> /\ q.pre = <<>> THEN -1
                         ELSE Words(p.pre, q.pre)
<1>1. \A p, q : Compare(p, q) = Made(p, q)
  BY DEF Compare, Numbers, Words
<1>2. /\ a.n \in Seq(Nat) /\ b.n \in Seq(Nat) /\ c.n \in Seq(Nat)
      /\ a.pre \in Seq(Identifiers) /\ b.pre \in Seq(Identifiers) /\ c.pre \in Seq(Identifiers)
  BY FourNumbers
<1>3. /\ Agree(Numbers(a.n, b.n), Numbers(b.n, c.n), Numbers(a.n, c.n))
      /\ Numbers(a.n, a.n) = 0 /\ Numbers(a.n, b.n) = -Numbers(b.n, a.n) /\ Numbers(a.n, b.n) \in Int
  BY <1>2, NumbersAgree
<1>4. Numbers(b.n, c.n) \in Int /\ Numbers(a.n, c.n) \in Int /\ Numbers(b.n, a.n) \in Int
  BY <1>2, NumbersAgree
<1>5. /\ Agree(Words(a.pre, b.pre), Words(b.pre, c.pre), Words(a.pre, c.pre))
      /\ Words(a.pre, a.pre) = 0 /\ Words(a.pre, b.pre) = -Words(b.pre, a.pre) /\ Words(a.pre, b.pre) \in Int
  BY <1>2, WordsAgree
<1>6. Words(b.pre, c.pre) \in Int /\ Words(a.pre, c.pre) \in Int /\ Words(b.pre, a.pre) \in Int
  BY <1>2, WordsAgree
<1>7. Agree(Made(a, b), Made(b, c), Made(a, c))
  BY <1>3, <1>4, <1>5, <1>6 DEF Agree
<1>8. Made(a, a) = 0 /\ Made(a, b) = -Made(b, a) /\ Made(a, b) \in Int
  BY <1>3, <1>4, <1>5, <1>6
<1> QED
  BY <1>1, <1>7, <1>8

(* Where nothing is left to decide: what remains is equal.                 *)
LEMMA FirstOrEqual ==
    ASSUME NEW n \in Nat, NEW d \in [1 .. n -> Int]
    PROVE  /\ FirstAnswer(FirstDifference(d, 0), d, n, 0) /\ FirstDifference(d, 0) \in Int
           /\ (\A i \in 1 .. n : d[i] = 0) => FirstDifference(d, 0) = 0
<1>1. PICK z \in Int : z = 0
  OBVIOUS
<1>2. FirstAnswer(FirstDifference(d, z), d, n, z) /\ FirstDifference(d, z) \in Int
  BY FirstIsFirst
<1>3. (\A i \in 1 .. n : d[i] = 0) => FirstDifference(d, z) = z
  BY FirstOfNone
<1> QED
  BY <1>1, <1>2, <1>3

LEMMA EqualsReverse ==
    ASSUME NEW n \in Nat, NEW ab \in [1 .. n -> Int], NEW ba \in [1 .. n -> Int], \A i \in 1 .. n : ab[i] = -ba[i]
    PROVE  FirstDifference(ab, 0) = -FirstDifference(ba, 0)
<1>1. Sign(n, n) = 0 /\ Sign(n, n) = -Sign(n, n) /\ Sign(n, n) \in Int
  BY NumbersSigned
<1> DEFINE z == Sign(n, n)
<1> HIDE DEF z
<1>2. z \in Int /\ z = -z /\ z = 0
  BY <1>1 DEF z
<1>3. FirstDifference(ab, z) = -FirstDifference(ba, z)
  BY <1>2, FirstsReverse
<1> QED
  BY <1>2, <1>3

(* Zeros behind the end change no comparison of releases.                  *)
LEMMA Padded ==
    ASSUME NEW n \in Nat, NEW w \in Nat, n <= w, NEW e \in [1 .. n -> Int], NEW d \in [1 .. w -> Int],
           \A i \in 1 .. n : e[i] = d[i], \A i \in 1 .. w : i > n => d[i] = 0
    PROVE  FirstDifference(e, 0) = FirstDifference(d, 0)
<1>1. FirstAnswer(FirstDifference(e, 0), e, n, 0)
  BY FirstOrEqual
<1>2. FirstAnswer(FirstDifference(d, 0), d, w, 0)
  BY FirstOrEqual
<1>3. CASE \A i \in 1 .. n : e[i] = 0
  <2>1. \A i \in 1 .. w : d[i] = 0
    <3> TAKE i \in 1 .. w
    <3>1. CASE i <= n
      BY <1>3, <3>1
    <3>2. CASE i > n
      BY <3>2
    <3> QED
      BY <3>1, <3>2
  <2> QED
    BY <1>1, <1>2, <1>3, <2>1 DEF FirstAnswer
<1>4. ASSUME NEW k \in 1 .. n, e[k] # 0, \A j \in 1 .. (k - 1) : e[j] = 0, FirstDifference(e, 0) = e[k]
      PROVE  FirstDifference(e, 0) = FirstDifference(d, 0)
  <2>1. k \in 1 .. w /\ d[k] = e[k] /\ \A j \in 1 .. (k - 1) : d[j] = 0
    BY <1>4
  <2>2. PICK h \in 1 .. w : d[h] # 0 /\ (\A j \in 1 .. (h - 1) : d[j] = 0) /\ FirstDifference(d, 0) = d[h]
    BY <1>2, <1>4, <2>1 DEF FirstAnswer
  <2>3. ~(h < k) /\ ~(k < h)
    BY <1>4, <2>1, <2>2
  <2>4. h = k
    BY <2>3
  <2> QED
    BY <1>4, <2>1, <2>2, <2>4
<1> QED
  BY <1>1, <1>3, <1>4 DEF FirstAnswer

LEMMA ReleasesAgree ==
    ASSUME NEW a \in ParsedPython, NEW b \in ParsedPython, NEW c \in ParsedPython
    PROVE  /\ Agree(CompareRelease(a, b), CompareRelease(b, c), CompareRelease(a, c))
           /\ CompareRelease(a, a) = 0 /\ CompareRelease(a, b) = -CompareRelease(b, a) /\ CompareRelease(a, b) \in Int
<1>1. Len(a.release) \in Nat /\ Len(b.release) \in Nat /\ Len(c.release) \in Nat
  <2>1. a.release \in Seq(Nat) /\ b.release \in Seq(Nat) /\ c.release \in Seq(Nat)
    BY DEF ParsedPython
  <2> QED
    BY <2>1, LengthOf
<1>2. ASSUME NEW p \in ParsedPython, NEW i \in Nat, i >= 1
      PROVE  ReleaseAt(p, i) \in Nat /\ (i > Len(p.release) => ReleaseAt(p, i) = 0)
  <2>1. p.release \in Seq(Nat)
    BY DEF ParsedPython
  <2>2. Len(p.release) \in Nat /\ \A j \in 1 .. Len(p.release) : p.release[j] \in Nat
    BY <2>1, LengthOf
  <2> QED
    BY <1>2, <2>2 DEF ReleaseAt
<1>3. PICK w \in Nat : w >= Len(a.release) /\ w >= Len(b.release) /\ w >= Len(c.release)
  <2>1. ASSUME NEW x \in Nat, NEW y \in Nat, NEW z \in Nat PROVE \E v \in Nat : v >= x /\ v >= y /\ v >= z
    <3>1. x + y + z \in Nat /\ x + y + z >= x /\ x + y + z >= y /\ x + y + z >= z
      OBVIOUS
    <3> QED
      BY <3>1
  <2> QED
    BY <1>1, <2>1
<1> DEFINE D(p, q) == [i \in 1 .. w |-> Sign(ReleaseAt(p, i), ReleaseAt(q, i))]
<1>4. ASSUME NEW p \in ParsedPython, NEW q \in ParsedPython, w >= Len(p.release), w >= Len(q.release)
      PROVE  /\ CompareRelease(p, q) = FirstDifference(D(p, q), 0) /\ D(p, q) \in [1 .. w -> Int]
             /\ \A i \in 1 .. w : D(p, q)[i] = Sign(ReleaseAt(p, i), ReleaseAt(q, i))
  <2> DEFINE n == Longer(p, q)
             e == [i \in 1 .. n |-> Sign(ReleaseAt(p, i), ReleaseAt(q, i))]
  <2>1. Len(p.release) \in Nat /\ Len(q.release) \in Nat
    <3>1. p.release \in Seq(Nat) /\ q.release \in Seq(Nat)
      BY DEF ParsedPython
    <3> QED
      BY <3>1, LengthOf
  <2>2. n \in Nat /\ n <= w /\ n >= Len(p.release) /\ n >= Len(q.release)
    BY <1>4, <2>1 DEF Longer
  <2>3. ASSUME NEW i \in 1 .. w
        PROVE  /\ Sign(ReleaseAt(p, i), ReleaseAt(q, i)) \in Int
               /\ i > n => Sign(ReleaseAt(p, i), ReleaseAt(q, i)) = 0
    <3>1. ReleaseAt(p, i) \in Nat /\ ReleaseAt(q, i) \in Nat
      BY <1>2
    <3>2. i > n => ReleaseAt(p, i) = 0 /\ ReleaseAt(q, i) = 0
      <4>1. i > n => i > Len(p.release) /\ i > Len(q.release)
        BY <2>1, <2>2
      <4> QED
        BY <1>2, <4>1
    <3> HIDE DEF n
    <3> QED
      BY <3>1, <3>2 DEF Sign
  <2>4. CompareRelease(p, q) = FirstDifference(e, 0)
    BY DEF CompareRelease
  <2>5. D(p, q) \in [1 .. w -> Int] /\ \A i \in 1 .. w : D(p, q)[i] = Sign(ReleaseAt(p, i), ReleaseAt(q, i))
    BY <2>3
  <2>6. \A i \in 1 .. w : i > n => D(p, q)[i] = 0
    BY <2>3
  <2>7. e \in [1 .. n -> Int] /\ \A i \in 1 .. n : e[i] = D(p, q)[i]
    <3> HIDE DEF n
    <3> QED
      BY <2>2, <2>3
  <2> HIDE DEF n, e, D
  <2>8. FirstDifference(e, 0) = FirstDifference(D(p, q), 0)
    BY <2>2, <2>5, <2>6, <2>7, Padded
  <2> QED
    BY <2>4, <2>5, <2>8
<1> DEFINE ab == D(a, b)
           bc == D(b, c)
           ac == D(a, c)
           ba == D(b, a)
           aa == D(a, a)
<1>5. /\ CompareRelease(a, b) = FirstDifference(ab, 0) /\ CompareRelease(b, c) = FirstDifference(bc, 0)
      /\ CompareRelease(a, c) = FirstDifference(ac, 0) /\ CompareRelease(b, a) = FirstDifference(ba, 0)
      /\ CompareRelease(a, a) = FirstDifference(aa, 0)
      /\ ab \in [1 .. w -> Int] /\ bc \in [1 .. w -> Int] /\ ac \in [1 .. w -> Int] /\ ba \in [1 .. w -> Int] /\ aa \in [1 .. w -> Int]
  <2> HIDE DEF D
  <2> QED
    BY <1>3, <1>4
<1>6. ASSUME NEW i \in 1 .. w PROVE Agree(ab[i], bc[i], ac[i]) /\ ab[i] = -ba[i] /\ aa[i] = 0
  <2>1. ReleaseAt(a, i) \in Nat /\ ReleaseAt(b, i) \in Nat /\ ReleaseAt(c, i) \in Nat
    BY <1>2
  <2> DEFINE x == ReleaseAt(a, i)
             y == ReleaseAt(b, i)
             z == ReleaseAt(c, i)
  <2>2. ab[i] = Sign(x, y) /\ bc[i] = Sign(y, z) /\ ac[i] = Sign(x, z) /\ ba[i] = Sign(y, x) /\ aa[i] = Sign(x, x)
    BY <1>3, <1>4
  <2> HIDE DEF x, y, z, ab, bc, ac, ba, aa
  <2>3. x \in Nat /\ y \in Nat /\ z \in Nat
    BY <2>1 DEF x, y, z
  <2> QED
    BY <2>2, <2>3, NumbersSigned
<1> HIDE DEF ab, bc, ac, ba, aa, D
<1>7. Sign(w, w) = 0 /\ Least(w, w) = w
  BY DEF Sign, Least
<1>8. Agree(FirstDifference(ab, 0), FirstDifference(bc, 0), FirstDifference(ac, 0))
  <2>1. \A i \in 1 .. w : i <= w /\ i <= w => Agree(ab[i], bc[i], ac[i])
    BY <1>6
  <2>2. Agree(FirstDifference(ab, Sign(w, w)), FirstDifference(bc, Sign(w, w)), FirstDifference(ac, Sign(w, w)))
    BY <1>5, <1>7, <2>1, FirstsAgree
  <2> QED
    BY <1>7, <2>2
<1>9. FirstDifference(ab, 0) = -FirstDifference(ba, 0)
  <2>1. \A i \in 1 .. w : ab[i] = -ba[i]
    BY <1>6
  <2> QED
    BY <1>5, <2>1, EqualsReverse
<1>10. FirstDifference(aa, 0) = 0
  BY <1>5, <1>6, FirstOrEqual
<1>11. FirstDifference(ab, 0) \in Int
  BY <1>5, FirstOrEqual
<1> QED
  BY <1>5, <1>8, <1>9, <1>10, <1>11

LEMMA PresAgree ==
    ASSUME NEW a \in ParsedPython, NEW b \in ParsedPython, NEW c \in ParsedPython
    PROVE  /\ Agree(ComparePre(a, b), ComparePre(b, c), ComparePre(a, c))
           /\ ComparePre(a, a) = 0 /\ ComparePre(a, b) = -ComparePre(b, a) /\ ComparePre(a, b) \in Int
<1>1. ASSUME NEW p \in ParsedPython
      PROVE  /\ PreRank(p) \in {-1, 0, 1} /\ (PreRank(p) = 0 <=> p.pre # None)
             /\ p.pre # None => p.pre.kind \in Nat /\ p.pre.number \in Nat
  <2>1. p.pre \in {None} \cup [kind : 0 .. 2, number : Nat]
    BY DEF ParsedPython
  <2>2. p.pre # None => p.pre.kind \in Nat /\ p.pre.number \in Nat
    BY <2>1
  <2> QED
    BY <2>2 DEF PreRank
<1> DEFINE ra == PreRank(a)
           rb == PreRank(b)
           rc == PreRank(c)
<1>2. /\ ra \in {-1, 0, 1} /\ rb \in {-1, 0, 1} /\ rc \in {-1, 0, 1}
      /\ (ra = 0 <=> a.pre # None) /\ (rb = 0 <=> b.pre # None) /\ (rc = 0 <=> c.pre # None)
  BY <1>1
<1>3. /\ ra = 0 => a.pre.kind \in Nat /\ a.pre.number \in Nat
      /\ rb = 0 => b.pre.kind \in Nat /\ b.pre.number \in Nat
      /\ rc = 0 => c.pre.kind \in Nat /\ c.pre.number \in Nat
  BY <1>1
<1> HIDE DEF ra, rb, rc
<1>4. ASSUME NEW p \in {a, b, c}, NEW q \in {a, b, c}
      PROVE  ComparePre(p, q) = IF PreRank(p) # PreRank(q) THEN Sign(PreRank(p), PreRank(q))
                                ELSE IF PreRank(p) # 0 THEN 0
                                ELSE IF p.pre.kind # q.pre.kind THEN Sign(p.pre.kind, q.pre.kind)
                                ELSE Sign(p.pre.number, q.pre.number)
  <2>1. p \in ParsedPython /\ q \in ParsedPython
    OBVIOUS
  <2> QED
    BY <1>1, <2>1 DEF ComparePre
<1> DEFINE Made(x, y, k, l, m, n) == IF x # y THEN Sign(x, y) ELSE IF x # 0 THEN 0 ELSE IF k # l THEN Sign(k, l) ELSE Sign(m, n)
<1>5. /\ ComparePre(a, b) = Made(ra, rb, a.pre.kind, b.pre.kind, a.pre.number, b.pre.number)
      /\ ComparePre(b, c) = Made(rb, rc, b.pre.kind, c.pre.kind, b.pre.number, c.pre.number)
      /\ ComparePre(a, c) = Made(ra, rc, a.pre.kind, c.pre.kind, a.pre.number, c.pre.number)
      /\ ComparePre(b, a) = Made(rb, ra, b.pre.kind, a.pre.kind, b.pre.number, a.pre.number)
      /\ ComparePre(a, a) = Made(ra, ra, a.pre.kind, a.pre.kind, a.pre.number, a.pre.number)
  BY <1>4 DEF ra, rb, rc
<1>6. ASSUME NEW x \in {-1, 0, 1}, NEW y \in {-1, 0, 1}, NEW z \in {-1, 0, 1}, NEW k, NEW l, NEW m, NEW kk, NEW ll, NEW mm,
             x = 0 => k \in Nat /\ kk \in Nat, y = 0 => l \in Nat /\ ll \in Nat, z = 0 => m \in Nat /\ mm \in Nat
      PROVE  /\ Agree(Made(x, y, k, l, kk, ll), Made(y, z, l, m, ll, mm), Made(x, z, k, m, kk, mm))
             /\ Made(x, x, k, k, kk, kk) = 0 /\ Made(x, y, k, l, kk, ll) = -Made(y, x, l, k, ll, kk)
             /\ Made(x, y, k, l, kk, ll) \in Int
  BY <1>6 DEF Agree, Sign
<1> HIDE DEF Made
<1> QED
  BY <1>2, <1>3, <1>5, <1>6

LEMMA OptionalsAgree ==
    ASSUME NEW a \in {None} \cup Nat, NEW b \in {None} \cup Nat, NEW c \in {None} \cup Nat, NEW absent \in {-1, 1}
    PROVE  /\ Agree(CompareOptional(a, b, absent), CompareOptional(b, c, absent), CompareOptional(a, c, absent))
           /\ CompareOptional(a, a, absent) = 0 /\ CompareOptional(a, b, absent) = -CompareOptional(b, a, absent)
           /\ CompareOptional(a, b, absent) \in Int
BY DEF Agree, CompareOptional, Sign

LEMMA PythonsAgree ==
    ASSUME NEW a \in ParsedPython, NEW b \in ParsedPython, NEW c \in ParsedPython
    PROVE  /\ Agree(ComparePython(a, b), ComparePython(b, c), ComparePython(a, c))
           /\ ComparePython(a, a) = 0 /\ ComparePython(a, b) = -ComparePython(b, a) /\ ComparePython(a, b) \in Int
<1> DEFINE D(p, q) == <<Sign(p.epoch, q.epoch), CompareRelease(p, q), ComparePre(p, q),
                        CompareOptional(p.post, q.post, -1), CompareOptional(p.dev, q.dev, 1), CompareLocal(p.local, q.local)>>
<1>1. \A p, q : ComparePython(p, q) = FirstDifference(D(p, q), 0)
  BY DEF ComparePython
<1>2. ASSUME NEW p \in ParsedPython, NEW q \in ParsedPython, NEW r \in ParsedPython
      PROVE  /\ D(p, q) \in [1 .. 6 -> Int]
             /\ \A i \in 1 .. 6 : Agree(D(p, q)[i], D(q, r)[i], D(p, r)[i]) /\ D(p, p)[i] = 0 /\ D(p, q)[i] = -D(q, p)[i]
  <2>1. /\ Agree(Sign(p.epoch, q.epoch), Sign(q.epoch, r.epoch), Sign(p.epoch, r.epoch))
        /\ Sign(p.epoch, q.epoch) \in Int /\ Sign(p.epoch, p.epoch) = 0 /\ Sign(p.epoch, q.epoch) = -Sign(q.epoch, p.epoch)
    <3>1. p.epoch \in Nat /\ q.epoch \in Nat /\ r.epoch \in Nat
      BY DEF ParsedPython
    <3> QED
      BY <3>1, NumbersSigned
  <2>2. /\ Agree(CompareRelease(p, q), CompareRelease(q, r), CompareRelease(p, r))
        /\ CompareRelease(p, p) = 0 /\ CompareRelease(p, q) = -CompareRelease(q, p) /\ CompareRelease(p, q) \in Int
    BY ReleasesAgree
  <2>3. /\ Agree(ComparePre(p, q), ComparePre(q, r), ComparePre(p, r))
        /\ ComparePre(p, p) = 0 /\ ComparePre(p, q) = -ComparePre(q, p) /\ ComparePre(p, q) \in Int
    BY PresAgree
  <2>4. /\ Agree(CompareOptional(p.post, q.post, -1), CompareOptional(q.post, r.post, -1), CompareOptional(p.post, r.post, -1))
        /\ CompareOptional(p.post, p.post, -1) = 0 /\ CompareOptional(p.post, q.post, -1) = -CompareOptional(q.post, p.post, -1)
        /\ CompareOptional(p.post, q.post, -1) \in Int
    <3>1. p.post \in {None} \cup Nat /\ q.post \in {None} \cup Nat /\ r.post \in {None} \cup Nat
      BY DEF ParsedPython
    <3> QED
      BY <3>1, OptionalsAgree
  <2>5. /\ Agree(CompareOptional(p.dev, q.dev, 1), CompareOptional(q.dev, r.dev, 1), CompareOptional(p.dev, r.dev, 1))
        /\ CompareOptional(p.dev, p.dev, 1) = 0 /\ CompareOptional(p.dev, q.dev, 1) = -CompareOptional(q.dev, p.dev, 1)
        /\ CompareOptional(p.dev, q.dev, 1) \in Int
    <3>1. p.dev \in {None} \cup Nat /\ q.dev \in {None} \cup Nat /\ r.dev \in {None} \cup Nat
      BY DEF ParsedPython
    <3> QED
      BY <3>1, OptionalsAgree
  <2>6. /\ Agree(CompareLocal(p.local, q.local), CompareLocal(q.local, r.local), CompareLocal(p.local, r.local))
        /\ CompareLocal(p.local, p.local) = 0 /\ CompareLocal(p.local, q.local) = -CompareLocal(q.local, p.local)
        /\ CompareLocal(p.local, q.local) \in Int
    <3>1. p.local \in Seq(Identifiers) /\ q.local \in Seq(Identifiers) /\ r.local \in Seq(Identifiers)
      BY DEF ParsedPython
    <3> QED
      BY <3>1, CompareLocalAgree
  <2>7. D(p, q) \in [1 .. 6 -> Int]
    BY <2>1, <2>2, <2>3, <2>4, <2>5, <2>6
  <2>8. ASSUME NEW i \in 1 .. 6 PROVE Agree(D(p, q)[i], D(q, r)[i], D(p, r)[i]) /\ D(p, p)[i] = 0 /\ D(p, q)[i] = -D(q, p)[i]
    <3>1. i = 1 \/ i = 2 \/ i = 3 \/ i = 4 \/ i = 5 \/ i = 6
      OBVIOUS
    <3> QED
      BY <2>1, <2>2, <2>3, <2>4, <2>5, <2>6, <3>1
  <2> HIDE DEF D
  <2> QED
    BY <2>7, <2>8
<1> DEFINE ab == D(a, b)
           bc == D(b, c)
           ac == D(a, c)
           ba == D(b, a)
           aa == D(a, a)
<1> HIDE DEF D
<1>3. /\ ab \in [1 .. 6 -> Int] /\ bc \in [1 .. 6 -> Int] /\ ac \in [1 .. 6 -> Int] /\ ba \in [1 .. 6 -> Int] /\ aa \in [1 .. 6 -> Int]
      /\ \A i \in 1 .. 6 : Agree(ab[i], bc[i], ac[i]) /\ aa[i] = 0 /\ ab[i] = -ba[i]
  BY <1>2
<1>4. /\ ComparePython(a, b) = FirstDifference(ab, 0) /\ ComparePython(b, c) = FirstDifference(bc, 0)
      /\ ComparePython(a, c) = FirstDifference(ac, 0) /\ ComparePython(b, a) = FirstDifference(ba, 0)
      /\ ComparePython(a, a) = FirstDifference(aa, 0)
  BY <1>1
<1> HIDE DEF ab, bc, ac, ba, aa
<1>5. Sign(6, 6) = 0 /\ Least(6, 6) = 6
  BY DEF Sign, Least
<1>6. Agree(FirstDifference(ab, 0), FirstDifference(bc, 0), FirstDifference(ac, 0))
  <2>1. Agree(FirstDifference(ab, Sign(6, 6)), FirstDifference(bc, Sign(6, 6)), FirstDifference(ac, Sign(6, 6)))
    BY <1>3, <1>5, FirstsAgree
  <2> QED
    BY <1>5, <2>1
<1>7. FirstDifference(ab, 0) = -FirstDifference(ba, 0)
  <2>1. ab \in [1 .. 6 -> Int] /\ ba \in [1 .. 6 -> Int] /\ 6 \in Nat /\ \A i \in 1 .. 6 : ab[i] = -ba[i]
    BY <1>3
  <2> QED
    BY <2>1, EqualsReverse
<1>8. FirstDifference(aa, 0) = 0
  BY <1>3, FirstOrEqual
<1>9. FirstDifference(ab, 0) \in Int
  BY <1>3, FirstOrEqual
<1> QED
  BY <1>4, <1>6, <1>7, <1>8, <1>9

LEMMA LowerKept ==
    ASSUME NEW u \in ParsedVersion, NEW v \in ParsedVersion, NEW x \in ParsedVersion, Compare(u, v) <= 0, Compare(u, x) >= 0
    PROVE  Compare(v, x) >= 0 /\ (Compare(u, x) > 0 => Compare(v, x) > 0)
<1>1. Compare(u, x) = -Compare(x, u) /\ Compare(u, x) \in Int /\ Compare(x, u) \in Int
  BY VersionsAgree
<1>2. Compare(v, x) = -Compare(x, v) /\ Compare(v, x) \in Int /\ Compare(x, v) \in Int /\ Compare(u, v) \in Int
  BY VersionsAgree
<1>3. Agree(Compare(x, u), Compare(u, v), Compare(x, v))
  BY VersionsAgree
<1> QED
  BY <1>1, <1>2, <1>3 DEF Agree

LEMMA UpperKept ==
    ASSUME NEW v \in ParsedVersion, NEW w \in ParsedVersion, NEW x \in ParsedVersion, Compare(v, w) <= 0, Compare(w, x) <= 0
    PROVE  Compare(v, x) <= 0 /\ (Compare(w, x) < 0 => Compare(v, x) < 0)
<1>1. Compare(v, w) \in Int /\ Compare(w, x) \in Int /\ Compare(v, x) \in Int
  BY VersionsAgree
<1>2. Agree(Compare(v, w), Compare(w, x), Compare(v, x))
  BY VersionsAgree
<1> QED
  BY <1>1, <1>2 DEF Agree

(* What the comparison says of the numbers, and what they say of it.       *)
DecidedAt(a, b, k) == a.n[k] < b.n[k] /\ \A j \in 1 .. (k - 1) : a.n[j] = b.n[j]
LEMMA NumbersTell ==
    ASSUME NEW a \in ParsedVersion, NEW b \in ParsedVersion
    PROVE  /\ Compare(a, b) <= 0 => (\A i \in 1 .. 4 : a.n[i] = b.n[i]) \/ (\E k \in 1 .. 4 : DecidedAt(a, b, k))
           /\ (\E k \in 1 .. 4 : DecidedAt(a, b, k)) => Compare(a, b) < 0
<1> DEFINE d == [i \in 1 .. 4 |-> Sign(a.n[i], b.n[i])]
<1>1. /\ a.n \in Seq(Nat) /\ Len(a.n) = 4 /\ b.n \in Seq(Nat) /\ Len(b.n) = 4
      /\ \A i \in 1 .. 4 : a.n[i] \in Nat /\ b.n[i] \in Nat
  BY FourNumbers
<1>2. d \in [1 .. 4 -> Int] /\ \A i \in 1 .. 4 : d[i] = Sign(a.n[i], b.n[i])
  BY <1>1 DEF Sign
<1>3. Numbers(a.n, b.n) = FirstDifference(d, 0)
  <2>1. Shorter(a.n, b.n) = 4 /\ Sign(Len(a.n), Len(b.n)) = 0
    BY <1>1 DEF Shorter, Sign
  <2> QED
    BY <2>1 DEF Numbers, CompareSeq
<1>4. Numbers(a.n, b.n) # 0 => Compare(a, b) = Numbers(a.n, b.n)
  BY DEF Compare, Numbers, Words
<1>5. FirstAnswer(FirstDifference(d, 0), d, 4, 0)
  BY <1>2, FirstOrEqual
<1>6. ASSUME NEW i \in 1 .. 4 PROVE (d[i] = 0 <=> a.n[i] = b.n[i]) /\ (d[i] < 0 <=> a.n[i] < b.n[i]) /\ d[i] \in Int
  <2>1. d[i] = Sign(a.n[i], b.n[i])
    BY <1>2
  <2>2. a.n[i] \in Nat /\ b.n[i] \in Nat
    BY <1>1
  <2> HIDE DEF d
  <2> QED
    BY <2>1, <2>2 DEF Sign
<1> HIDE DEF d
<1>7. ASSUME Compare(a, b) <= 0 PROVE (\A i \in 1 .. 4 : a.n[i] = b.n[i]) \/ (\E k \in 1 .. 4 : DecidedAt(a, b, k))
  <2>1. CASE \A i \in 1 .. 4 : d[i] = 0
    BY <1>6, <2>1
  <2>2. ASSUME NEW k \in 1 .. 4, d[k] # 0, \A j \in 1 .. (k - 1) : d[j] = 0, FirstDifference(d, 0) = d[k]
        PROVE  \E h \in 1 .. 4 : DecidedAt(a, b, h)
    <3>1. \A j \in 1 .. (k - 1) : j \in 1 .. 4
      OBVIOUS
    <3>2. d[k] < 0
      BY <1>3, <1>4, <1>6, <1>7, <2>2
    <3>3. DecidedAt(a, b, k)
      BY <1>6, <2>2, <3>1, <3>2 DEF DecidedAt
    <3> QED
      BY <3>3
  <2> QED
    BY <1>5, <2>1, <2>2 DEF FirstAnswer
<1>8. ASSUME NEW k \in 1 .. 4, DecidedAt(a, b, k) PROVE Compare(a, b) < 0
  <2>1. \A j \in 1 .. (k - 1) : j \in 1 .. 4
    OBVIOUS
  <2>2. d[k] < 0 /\ d[k] # 0 /\ \A j \in 1 .. (k - 1) : d[j] = 0
    BY <1>6, <1>8, <2>1 DEF DecidedAt
  <2>3. PICK h \in 1 .. 4 : d[h] # 0 /\ (\A j \in 1 .. (h - 1) : d[j] = 0) /\ FirstDifference(d, 0) = d[h]
    BY <1>5, <2>2 DEF FirstAnswer
  <2>4. ~(h < k) /\ ~(k < h)
    BY <2>2, <2>3
  <2>5. h = k
    BY <2>4
  <2> QED
    BY <1>3, <1>4, <2>2, <2>3, <2>5
<1> QED
  BY <1>7, <1>8

LEMMA PrefixConvex ==
    ASSUME NEW u \in ParsedVersion, NEW v \in ParsedVersion, NEW w \in ParsedVersion, NEW x \in ParsedVersion,
           Compare(u, v) <= 0, Compare(v, w) <= 0, NEW p \in 1 .. 4,
           \A i \in 1 .. p : u.n[i] = x.n[i], \A i \in 1 .. p : w.n[i] = x.n[i]
    PROVE  \A i \in 1 .. p : v.n[i] = x.n[i]
<1>0. \A i \in 1 .. 4 : u.n[i] \in Nat /\ v.n[i] \in Nat /\ w.n[i] \in Nat
  BY FourNumbers
<1>1. (\A i \in 1 .. 4 : u.n[i] = v.n[i]) \/ (\E k \in 1 .. 4 : DecidedAt(u, v, k))
  BY NumbersTell
<1>2. (\A i \in 1 .. 4 : v.n[i] = w.n[i]) \/ (\E k \in 1 .. 4 : DecidedAt(v, w, k))
  BY NumbersTell
<1>3. CASE (\A i \in 1 .. 4 : u.n[i] = v.n[i]) \/ (\A i \in 1 .. 4 : v.n[i] = w.n[i])
  <2>1. \A i \in 1 .. p : i \in 1 .. 4
    OBVIOUS
  <2> QED
    BY <1>3, <2>1
<1>4. ASSUME NEW k \in 1 .. 4, DecidedAt(u, v, k), NEW h \in 1 .. 4, DecidedAt(v, w, h)
      PROVE  \A i \in 1 .. p : v.n[i] = x.n[i]
  <2> TAKE i \in 1 .. p
  <2>1. CASE i < k
    <3>1. u.n[i] = v.n[i]
      BY <1>4, <2>1 DEF DecidedAt
    <3> QED
      BY <3>1
  <2>2. CASE i < h
    <3>1. v.n[i] = w.n[i]
      BY <1>4, <2>2 DEF DecidedAt
    <3> QED
      BY <3>1
  <2>3. CASE k <= i /\ h <= i
    <3>1. k \in 1 .. p /\ h \in 1 .. p
      BY <2>3
    <3>2. u.n[k] = w.n[k] /\ u.n[h] = w.n[h]
      BY <3>1
    <3>3. u.n[k] < v.n[k] /\ v.n[h] < w.n[h]
      BY <1>4 DEF DecidedAt
    <3>4. CASE k < h
      <4>1. v.n[k] = w.n[k]
        BY <1>4, <3>4 DEF DecidedAt
      <4> QED
        BY <1>0, <3>2, <3>3, <4>1
    <3>5. CASE h < k
      <4>1. u.n[h] = v.n[h]
        BY <1>4, <3>5 DEF DecidedAt
      <4> QED
        BY <1>0, <3>2, <3>3, <4>1
    <3>6. CASE h = k
      BY <1>0, <3>2, <3>3, <3>6
    <3> QED
      BY <3>4, <3>5, <3>6
  <2> QED
    BY <2>1, <2>2, <2>3
<1> QED
  BY <1>1, <1>2, <1>3, <1>4

LEMMA WindowEnds ==
    ASSUME NEW v \in ParsedVersion
    PROVE  CaretEnd(v) \in ParsedVersion /\ TildeEnd(v) \in ParsedVersion
<1>1. TopNumber \in Nat /\ \A i \in 1 .. 4 : v.n[i] \in 0 .. TopNumber
  BY VersionAssumption DEF VersionAssumption, ParsedVersion
<1>2. \A x \in 0 .. TopNumber : Plus1(x) \in 0 .. TopNumber
  BY <1>1 DEF Plus1
<1>3. \A a, b, c, d \in 0 .. TopNumber : <<a, b, c, d>> \in [1 .. 4 -> 0 .. TopNumber]
  OBVIOUS
<1>4. 0 \in 0 .. TopNumber
  BY <1>1
<1>5. <<>> \in Seq(Identifiers) /\ v.precision \in 1 .. 4
  BY DEF ParsedVersion
<1>6. ASSUME NEW m \in [1 .. 4 -> 0 .. TopNumber] PROVE [v EXCEPT !.pre = <<>>, !.n = m] \in ParsedVersion
  BY <1>5 DEF ParsedVersion
<1>7. v.n[1] \in 0 .. TopNumber /\ v.n[2] \in 0 .. TopNumber /\ v.n[3] \in 0 .. TopNumber
  BY <1>1
<1>8. CaretEnd(v) \in ParsedVersion
  <2> DEFINE m == CASE v.n[1] > 0 -> <<Plus1(v.n[1]), 0, 0, 0>>
                    [] v.n[1] = 0 /\ v.n[2] > 0 -> <<0, Plus1(v.n[2]), 0, 0>>
                    [] OTHER -> <<0, 0, Plus1(v.n[3]), 0>>
  <2>1. m \in {<<Plus1(v.n[1]), 0, 0, 0>>, <<0, Plus1(v.n[2]), 0, 0>>, <<0, 0, Plus1(v.n[3]), 0>>}
    OBVIOUS
  <2>2. m \in [1 .. 4 -> 0 .. TopNumber]
    <3> HIDE DEF m
    <3> QED
      BY <1>2, <1>3, <1>4, <1>7, <2>1
  <2>3. CaretEnd(v) = [v EXCEPT !.pre = <<>>, !.n = m]
    BY DEF CaretEnd
  <2> HIDE DEF m
  <2> QED
    BY <1>6, <2>2, <2>3
<1>9. TildeEnd(v) \in ParsedVersion
  <2> DEFINE m == IF v.precision < 2 THEN <<Plus1(v.n[1]), 0, 0, 0>> ELSE <<v.n[1], Plus1(v.n[2]), 0, 0>>
  <2>1. m \in {<<Plus1(v.n[1]), 0, 0, 0>>, <<v.n[1], Plus1(v.n[2]), 0, 0>>}
    OBVIOUS
  <2>2. m \in [1 .. 4 -> 0 .. TopNumber]
    <3> HIDE DEF m
    <3> QED
      BY <1>2, <1>3, <1>4, <1>7, <2>1
  <2>3. TildeEnd(v) = [v EXCEPT !.pre = <<>>, !.n = m]
    BY DEF TildeEnd
  <2> HIDE DEF m
  <2> QED
    BY <1>6, <2>2, <2>3
<1> QED
  BY <1>8, <1>9

(* A window whose component can be counted up holds the version it is      *)
(* drawn from.                                                             *)
LEMMA WindowHoldsOwn ==
    ASSUME NEW v \in ParsedVersion, \A i \in 1 .. 4 : v.n[i] < TopNumber
    PROVE  InWindow(v, v, CaretEnd(v)) /\ InWindow(v, v, TildeEnd(v))
<1>1. \A i \in 1 .. 4 : v.n[i] \in Nat /\ Plus1(v.n[i]) > v.n[i]
  <2>1. \A i \in 1 .. 4 : v.n[i] \in Nat
    BY FourNumbers
  <2> QED
    BY <2>1, VersionAssumption DEF Plus1, VersionAssumption
<1>2. v.n[1] \in Nat /\ v.n[2] \in Nat /\ v.n[3] \in Nat /\ Plus1(v.n[1]) > v.n[1] /\ Plus1(v.n[2]) > v.n[2] /\ Plus1(v.n[3]) > v.n[3]
  BY <1>1
<1>3. Compare(v, v) >= 0
  BY VersionsAgree
<1>4. v = [n |-> v.n, precision |-> v.precision, pre |-> v.pre]
  BY DEF ParsedVersion
<1>5. \E k \in 1 .. 4 : DecidedAt(v, CaretEnd(v), k)
  <2>1. CASE v.n[1] > 0
    <3>1. CaretEnd(v).n[1] = Plus1(v.n[1])
      BY <1>4, <2>1 DEF CaretEnd
    <3>2. DecidedAt(v, CaretEnd(v), 1)
      BY <1>2, <3>1 DEF DecidedAt
    <3> QED
      BY <3>2
  <2>2. CASE v.n[1] = 0 /\ v.n[2] > 0
    <3>1. CaretEnd(v).n[1] = 0 /\ CaretEnd(v).n[2] = Plus1(v.n[2])
      BY <1>4, <2>2 DEF CaretEnd
    <3>2. DecidedAt(v, CaretEnd(v), 2)
      BY <1>2, <2>2, <3>1 DEF DecidedAt
    <3> QED
      BY <3>2
  <2>3. CASE v.n[1] = 0 /\ v.n[2] = 0
    <3>1. CaretEnd(v).n[1] = 0 /\ CaretEnd(v).n[2] = 0 /\ CaretEnd(v).n[3] = Plus1(v.n[3])
      BY <1>4, <2>3 DEF CaretEnd
    <3>2. \A j \in 1 .. (3 - 1) : v.n[j] = CaretEnd(v).n[j]
      <4>1. \A j \in 1 .. (3 - 1) : j = 1 \/ j = 2
        OBVIOUS
      <4> QED
        BY <2>3, <3>1, <4>1
    <3>3. DecidedAt(v, CaretEnd(v), 3)
      BY <1>2, <3>1, <3>2 DEF DecidedAt
    <3> QED
      BY <3>3
  <2> QED
    BY <1>2, <2>1, <2>2, <2>3
<1>6. \E k \in 1 .. 4 : DecidedAt(v, TildeEnd(v), k)
  <2>1. CASE v.precision < 2
    <3>1. TildeEnd(v).n[1] = Plus1(v.n[1])
      BY <1>4, <2>1 DEF TildeEnd
    <3>2. DecidedAt(v, TildeEnd(v), 1)
      BY <1>2, <3>1 DEF DecidedAt
    <3> QED
      BY <3>2
  <2>2. CASE ~(v.precision < 2)
    <3>1. TildeEnd(v).n[1] = v.n[1] /\ TildeEnd(v).n[2] = Plus1(v.n[2])
      BY <1>4, <2>2 DEF TildeEnd
    <3>2. DecidedAt(v, TildeEnd(v), 2)
      BY <1>2, <3>1 DEF DecidedAt
    <3> QED
      BY <3>2
  <2> QED
    BY <2>1, <2>2
<1>7. Compare(v, CaretEnd(v)) < 0 /\ Compare(v, TildeEnd(v)) < 0
  BY <1>5, <1>6, WindowEnds, NumbersTell
<1> QED
  BY <1>3, <1>7 DEF InWindow

LEMMA ComparatorConvex ==
    ASSUME NEW c \in ParsedComparator, NEW u \in ParsedVersion, NEW v \in ParsedVersion, NEW w \in ParsedVersion,
           Between(u, v, w), Satisfies(u, c), Satisfies(w, c)
    PROVE  Satisfies(v, c)
<1>1. Compare(u, v) <= 0 /\ Compare(v, w) <= 0
  BY DEF Between
<1>2. c.op # "bad"
  BY DEF Satisfies
<1>3. c.op \in {"^", "~", "x", "=", ">=", "<=", ">", "<"} /\ c.v \in ParsedVersion
  BY <1>2 DEF ParsedComparator
<1>4. ASSUME NEW e \in ParsedVersion, InWindow(u, c.v, e), InWindow(w, c.v, e) PROVE InWindow(v, c.v, e)
  <2>1. Compare(v, c.v) >= 0
    BY <1>1, <1>3, <1>4, LowerKept DEF InWindow
  <2>2. Compare(w, e) <= 0
    BY <1>4, VersionsAgree DEF InWindow
  <2>3. Compare(v, e) < 0
    BY <1>1, <1>4, <2>2, UpperKept DEF InWindow
  <2> QED
    BY <2>1, <2>3 DEF InWindow
<1>5. CASE c.op = "^"
  BY <1>3, <1>4, <1>5, WindowEnds DEF Satisfies
<1>6. CASE c.op = "~"
  BY <1>3, <1>4, <1>6, WindowEnds DEF Satisfies
<1>7. CASE c.op = "x"
  <2>1. c.v.precision \in 1 .. 4
    BY <1>3 DEF ParsedVersion
  <2>2. (\A i \in 1 .. c.v.precision : u.n[i] = c.v.n[i]) /\ (\A i \in 1 .. c.v.precision : w.n[i] = c.v.n[i])
    BY <1>7 DEF Satisfies
  <2> DEFINE x == c.v
             p == x.precision
  <2>3. /\ x \in ParsedVersion /\ p \in 1 .. 4
        /\ (\A i \in 1 .. p : u.n[i] = x.n[i]) /\ (\A i \in 1 .. p : w.n[i] = x.n[i])
    BY <1>3, <2>1, <2>2
  <2> HIDE DEF x, p
  <2>4. \A i \in 1 .. p : v.n[i] = x.n[i]
    BY <1>1, <2>3, PrefixConvex
  <2> QED
    BY <1>7, <2>4 DEF Satisfies, x, p
<1>8. Compare(u, c.v) \in Int /\ Compare(v, c.v) \in Int /\ Compare(w, c.v) \in Int
  BY <1>3, VersionsAgree
<1>9. Compare(u, c.v) >= 0 => Compare(v, c.v) >= 0 /\ (Compare(u, c.v) > 0 => Compare(v, c.v) > 0)
  BY <1>1, <1>3, LowerKept
<1>10. Compare(w, c.v) <= 0 => Compare(v, c.v) <= 0 /\ (Compare(w, c.v) < 0 => Compare(v, c.v) < 0)
  BY <1>1, <1>3, UpperKept
<1>11. CASE c.op = "="
  BY <1>8, <1>9, <1>10, <1>11 DEF Satisfies
<1>12. CASE c.op = ">="
  BY <1>8, <1>9, <1>12 DEF Satisfies
<1>13. CASE c.op = "<="
  BY <1>8, <1>10, <1>13 DEF Satisfies
<1>14. CASE c.op = ">"
  BY <1>8, <1>9, <1>14 DEF Satisfies
<1>15. CASE c.op = "<"
  BY <1>8, <1>10, <1>15 DEF Satisfies
<1> QED
  BY <1>3, <1>5, <1>6, <1>7, <1>11, <1>12, <1>13, <1>14, <1>15

(* A range of one alternative matches what satisfies all its comparators.  *)
LEMMA MatchedMeans ==
    ASSUME NEW v, NEW range \in Seq(Seq(ParsedComparator)), Len(range) = 1
    PROVE  Match(v, range).matched <=> range[1] # <<>> /\ \A i \in DOMAIN range[1] : Satisfies(v, range[1][i])
<1> DEFINE alternative == range[1]
           failing == {i \in DOMAIN alternative : ~Satisfies(v, alternative[i])}
           one == MatchAlternative(v, alternative)
           fits == alternative # <<>> /\ \A i \in DOMAIN alternative : Satisfies(v, alternative[i])
<1>1. one = Answer(TRUE, TRUE) \/ \E s : one = Answer(FALSE, s)
  BY DEF MatchAlternative
<1>2. fits => one = Answer(TRUE, TRUE)
  BY DEF MatchAlternative
<1>3. ~fits => \E s : one = Answer(FALSE, s)
  <2>1. CASE alternative = <<>>
    BY <2>1 DEF MatchAlternative
  <2>2. CASE alternative # <<>> /\ failing # {}
    BY <2>2 DEF MatchAlternative
  <2> QED
    BY <2>1, <2>2
<1>4. DOMAIN range = {1}
  BY LengthOf
<1> HIDE DEF one, fits
<1> DEFINE parts == [i \in DOMAIN range |-> MatchAlternative(v, range[i])]
<1>5. DOMAIN parts = {1} /\ parts[1] = one
  BY <1>4 DEF one
<1>6. Match(v, range).matched <=> fits
  <2>0. Match(v, range) = IF \E i \in DOMAIN parts : ~parts[i].supported THEN Answer(FALSE, FALSE)
                          ELSE Answer(\E i \in DOMAIN parts : parts[i].matched, TRUE)
    BY DEF Match
  <2> HIDE DEF parts
  <2>1. CASE fits
    <3>1. one.supported /\ one.matched
      BY <1>2, <2>1 DEF Answer
    <3> QED
      BY <1>5, <2>0, <2>1, <3>1 DEF Answer
  <2>2. CASE ~fits
    <3>1. ~one.matched
      BY <1>3, <2>2 DEF Answer
    <3> QED
      BY <1>5, <2>0, <2>2, <3>1 DEF Answer
  <2> QED
    BY <2>1, <2>2
<1> QED
  BY <1>6 DEF fits

-----------------------------------------------------------------------------
(* What is asked, and that the answers are those of the functions. *)
VersionInv ==
    /\ \/ ask.kind = "range" /\ ask.of \in Ranges
       \/ ask.kind = "selector" /\ ask.of \in Selectors
       \/ ask.kind = "order" /\ ask.of \in Versions \X Versions \X Versions
       \/ ask.kind = "python" /\ ask.of \in Pythons \X Pythons \X Pythons
    /\ answers # None /\ ask.kind = "range" => \A v \in Versions : answers[v] = Match(v, ask.of)
    /\ answers # None /\ ask.kind = "selector" => \A v \in Versions : answers[v] = MatchSelector(v, ask.of)

LEMMA VersionInit == InitVersions => VersionInv
BY DEF InitVersions, VersionInv

LEMMA VersionNext == VersionInv /\ [NextVersions]_versionVars => VersionInv'
<1>1. ASSUME VersionInv, Ask PROVE VersionInv'
  <2>1. UNCHANGED ask
    BY <1>1 DEF Ask
  <2>2. ask.kind = "range" => \A v \in Versions : answers'[v] = Match(v, ask.of)
    <3>1. ask.kind = "range" => answers' = [v \in Versions \cup {None} |-> IF v = None THEN Answer(FALSE, FALSE) ELSE Match(v, ask.of)]
      BY <1>1 DEF Ask, Asked
    <3> QED
      BY <3>1, VersionAssumption DEF VersionAssumption
  <2>3. ask.kind = "selector" => \A v \in Versions : answers'[v] = MatchSelector(v, ask.of)
    <3>1. ask.kind = "selector" => answers' = [v \in Versions \cup {None} |-> IF v = None THEN Answer(FALSE, FALSE) ELSE MatchSelector(v, ask.of)]
      BY <1>1 DEF Ask, Asked
    <3> QED
      BY <3>1, VersionAssumption DEF VersionAssumption
  <2> QED
    BY <1>1, <2>1, <2>2, <2>3 DEF VersionInv
<1>2. ASSUME VersionInv, UNCHANGED versionVars PROVE VersionInv'
  BY <1>2 DEF VersionInv, versionVars
<1> QED
  BY <1>1, <1>2 DEF NextVersions

LEMMA OrdersSound == VersionInv => VersionsAreOrdered
<1>1. ASSUME NEW a \in ParsedVersion, NEW b \in ParsedVersion, NEW c \in ParsedVersion PROVE Ordered(a, b, c, Compare)
  <2>1. /\ Agree(Compare(a, b), Compare(b, c), Compare(a, c))
        /\ Compare(a, a) = 0 /\ Compare(a, b) = -Compare(b, a)
    BY VersionsAgree
  <2> QED
    BY <2>1 DEF Agree, Ordered
<1>2. ASSUME NEW a \in ParsedPython, NEW b \in ParsedPython, NEW c \in ParsedPython PROVE Ordered(a, b, c, ComparePython)
  <2>1. /\ Agree(ComparePython(a, b), ComparePython(b, c), ComparePython(a, c))
        /\ ComparePython(a, a) = 0 /\ ComparePython(a, b) = -ComparePython(b, a)
    BY PythonsAgree
  <2> QED
    BY <2>1 DEF Agree, Ordered
<1>3. ASSUME VersionInv, ask.kind = "order" PROVE Ordered(ask.of[1], ask.of[2], ask.of[3], Compare)
  <2>1. ask.of \in Versions \X Versions \X Versions
    BY <1>3 DEF VersionInv
  <2>2. ask.of[1] \in ParsedVersion /\ ask.of[2] \in ParsedVersion /\ ask.of[3] \in ParsedVersion
    BY <2>1, VersionAssumption DEF VersionAssumption
  <2> QED
    BY <1>1, <2>2
<1>4. ASSUME VersionInv, ask.kind = "python" PROVE Ordered(ask.of[1], ask.of[2], ask.of[3], ComparePython)
  <2>1. ask.of \in Pythons \X Pythons \X Pythons
    BY <1>4 DEF VersionInv
  <2>2. ask.of[1] \in ParsedPython /\ ask.of[2] \in ParsedPython /\ ask.of[3] \in ParsedPython
    BY <2>1, VersionAssumption DEF VersionAssumption
  <2> QED
    BY <1>2, <2>2
<1> QED
  BY <1>3, <1>4 DEF VersionsAreOrdered

LEMMA IntervalsSound == VersionInv => RangesAreIntervals
<1> SUFFICES ASSUME VersionInv, answers # None
             PROVE  /\ ask.kind = "range" /\ Len(ask.of) = 1 =>
                        \A u, v, w \in Versions :
                            answers[u].matched /\ answers[w].matched /\ Between(u, v, w) => answers[v].matched
                    /\ ask.kind = "range" /\ Len(ask.of) = 1 =>
                        \A c \in {ask.of[1][i] : i \in DOMAIN ask.of[1]} :
                            c.op \in {"^", "~"} /\ Len(ask.of[1]) = 1 /\ c.v \in Versions
                                /\ (\A i \in 1 .. 4 : c.v.n[i] < TopNumber)
                            => answers[c.v].matched
                    /\ ask.kind = "selector" => \A u, v \in Versions : answers[u].supported = answers[v].supported
  BY DEF RangesAreIntervals
<1>1. ask.kind = "range" => ask.of \in Seq(Seq(ParsedComparator)) /\ \A v \in Versions : answers[v] = Match(v, ask.of)
  BY VersionAssumption DEF VersionInv, VersionAssumption
<1>2. \A v \in Versions : v \in ParsedVersion
  BY VersionAssumption DEF VersionAssumption
<1>3. ASSUME ask.kind = "range", Len(ask.of) = 1, NEW u \in Versions, NEW v \in Versions, NEW w \in Versions,
             answers[u].matched, answers[w].matched, Between(u, v, w)
      PROVE  answers[v].matched
  <2> DEFINE a == ask.of[1]
  <2>1. a \in Seq(ParsedComparator) /\ Len(a) \in Nat /\ DOMAIN a = 1 .. Len(a) /\ \A i \in 1 .. Len(a) : a[i] \in ParsedComparator
    <3>1. a \in Seq(ParsedComparator)
      BY <1>1, <1>3, LengthOf
    <3> HIDE DEF a
    <3> QED
      BY <3>1, LengthOf
  <2>2. a # <<>> /\ (\A i \in DOMAIN a : Satisfies(u, a[i])) /\ (\A i \in DOMAIN a : Satisfies(w, a[i]))
    BY <1>1, <1>3, MatchedMeans
  <2>3. \A i \in DOMAIN a : Satisfies(v, a[i])
    <3> HIDE DEF a
    <3> TAKE i \in DOMAIN a
    <3>1. a[i] \in ParsedComparator
      BY <2>1
    <3> QED
      BY <1>2, <1>3, <2>2, <3>1, ComparatorConvex
  <2> QED
    BY <1>1, <1>3, <2>2, <2>3, MatchedMeans
<1>4. ASSUME ask.kind = "range", Len(ask.of) = 1, NEW i \in DOMAIN ask.of[1], ask.of[1][i].op \in {"^", "~"}, Len(ask.of[1]) = 1,
             ask.of[1][i].v \in Versions, \A j \in 1 .. 4 : ask.of[1][i].v.n[j] < TopNumber
      PROVE  answers[ask.of[1][i].v].matched
  <2> DEFINE a == ask.of[1]
             x == a[i].v
  <2>1. a \in Seq(ParsedComparator)
    BY <1>1, <1>4, LengthOf
  <2>2. DOMAIN a = {i} /\ a # <<>>
    BY <1>4, <2>1
  <2>3. x \in ParsedVersion /\ InWindow(x, x, CaretEnd(x)) /\ InWindow(x, x, TildeEnd(x))
    BY <1>2, <1>4, WindowHoldsOwn
  <2>4. Satisfies(x, a[i])
    BY <1>4, <2>3 DEF Satisfies
  <2>5. a # <<>> /\ \A j \in DOMAIN a : Satisfies(x, a[j])
    BY <2>2, <2>4
  <2>6. Match(x, ask.of).matched
    <3> HIDE DEF x
    <3> QED
      BY <1>1, <1>4, <2>5, MatchedMeans
  <2> QED
    BY <1>1, <1>4, <2>6
<1>5. ASSUME ask.kind = "selector", NEW u \in Versions, NEW v \in Versions PROVE answers[u].supported = answers[v].supported
  <2>1. answers[u] = MatchSelector(u, ask.of) /\ answers[v] = MatchSelector(v, ask.of)
    BY <1>5 DEF VersionInv
  <2> QED
    BY <2>1 DEF MatchSelector, Answer
<1> QED
  BY <1>3, <1>4, <1>5

=============================================================================
