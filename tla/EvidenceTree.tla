---------------------------- MODULE EvidenceTree ----------------------------
(***************************************************************************)
(* One tree target of the evidence engine (internal/evidence/tree.go,      *)
(* file.go, session.go) over a directory that changes while it is read,    *)
(* with the persistent cache of leaf digests (store/content_cache.go).     *)
(*                                                                         *)
(* A scanner lists the directory, then takes the entries one by one: look  *)
(* up the name, ask the cache, hash what the descriptor yields and check   *)
(* the identity again.  An editor works at the same time: it changes files *)
(* in place, replaces them and removes them.  Every change gives the inode *)
(* a change time it never had before; a digest stands for the bytes.       *)
(***************************************************************************)
EXTENDS Shared, FiniteSets, Sequences, Integers, FiniteSetsExt

CONSTANTS
    Scanners,
    Leaves,        \* names of directory entries, in their order: 1..n
    Inodes,
    Data,          \* contents: sequences of blocks
    MaxEntries, MaxFileSize, MaxTotalSize, MaxErrors,   \* TreeLimits
    CacheRows,     \* contentCacheRowLimit
    MaxEdits       \* bound: changes by the editor

Blocks == UNION {{d[i] : i \in DOMAIN d} : d \in Data}

ASSUME TreeAssumption ==
    /\ Leaves \subseteq Nat /\ Inodes \subseteq Nat /\ Data \subseteq Seq(Blocks)
    /\ {MaxEntries, MaxFileSize, MaxTotalSize, MaxErrors, CacheRows, MaxEdits} \subseteq Nat
    /\ MaxErrors > 0 /\ None \notin {"complete", "partial", "oversize", "unavailable"}

VARIABLES
    entry,      \* per name: [kind, ino]; kind "none", "file", "link" or "deep"
    inode,      \* per inode: [data, time]
    edits,      \* the last change time given out
    truth,      \* history: the data an inode held at each change time
    cacheRows,  \* cached rows: [leaf, ino, time, data, used]
    tpc, todo, leaf, first, fd, read,  \* the scanner's place and what it looked at
    listed,     \* history: the names the directory listing returned
    total, errors, flags, digests, writes, verdict  \* treeState

files == <<entry, inode, edits, truth>>
placeOf == <<tpc, todo, leaf, first, fd, read, listed>>
state == <<total, errors, flags, digests, writes, verdict>>
treeVars == <<files, cacheRows, placeOf, state>>

Gone == [kind |-> "none", ino |-> 0]
NoStamp == [ino |-> 0, time |-> 0]

(* platform.Fingerprint: device, inode, size and times; the change time    *)
(* stands for them all.                                                    *)
Stamp(i) == [ino |-> i, time |-> inode[i].time]
TreeGoto(s, label) == tpc' = [tpc EXCEPT ![s] = label]

-----------------------------------------------------------------------------
(* addError and its callers.  A full list stops the walk as oversize; an   *)
(* oversize error stops it as well.                                        *)
AddError(s, code, oversize) ==
    LET full == Len(errors[s]) >= MaxErrors
    IN  /\ errors' = [errors EXCEPT ![s] = IF full THEN @ ELSE Append(@, code)]
        /\ flags' = [flags EXCEPT ![s] = @ \cup IF full \/ oversize THEN {"oversize"} ELSE {"partial"}]
        /\ TreeGoto(s, IF full \/ oversize THEN "result" ELSE "next")

(* markTimeLimit: the deadline is always on the list, in place of the last *)
(* error when it is full.                                                  *)
TimeLimit(list) ==
    IF \E i \in DOMAIN list : list[i] = "time_limit" THEN list
    ELSE IF Len(list) < MaxErrors THEN Append(list, "time_limit")
    ELSE [list EXCEPT ![Len(list)] = "time_limit"]

kept == <<total, digests, writes, verdict>>   \* what a failed entry leaves alone

-----------------------------------------------------------------------------
(* walk and readDirectory: the names that are there now, sorted. *)
ListDirectory(s) ==
    /\ tpc[s] = "list"
    /\ LET names == {l \in Leaves : entry[l].kind # "none"}
       IN  IF Cardinality(names) > MaxEntries
           THEN AddError(s, "file_limit", TRUE) /\ UNCHANGED <<todo, listed>>
           ELSE todo' = [todo EXCEPT ![s] = names] /\ listed' = [listed EXCEPT ![s] = names] /\ TreeGoto(s, "next") /\ UNCHANGED <<errors, flags>>
    /\ UNCHANGED <<files, cacheRows, leaf, first, fd, read, kept>>

(* Mutant: a name that vanished is passed over. *)
BugSkipsVanished(s) ==
    /\ tpc[s] = "next" /\ todo[s] # {}
    /\ leaf' = [leaf EXCEPT ![s] = Min(todo[s])]
    /\ todo' = [todo EXCEPT ![s] = @ \ {Min(todo[s])}]
    /\ LET e == entry[Min(todo[s])]
       IN  IF e.kind = "file"
           THEN first' = [first EXCEPT ![s] = Stamp(e.ino)] /\ TreeGoto(s, "cache")
           ELSE UNCHANGED <<first, tpc>>
    /\ UNCHANGED <<files, cacheRows, listed, fd, read, errors, flags, kept>>

(* digestEntry up to the cache: what stands under the name by now. *)
StatEntry(s) ==
    /\ tpc[s] = "next" /\ todo[s] # {}
    /\ leaf' = [leaf EXCEPT ![s] = Min(todo[s])]
    /\ todo' = [todo EXCEPT ![s] = @ \ {Min(todo[s])}]
    /\ LET e == entry[Min(todo[s])]
           size == Len(inode[e.ino].data)
       IN  \/ e.kind = "none" /\ AddError(s, "read_unavailable", FALSE) /\ UNCHANGED first
           \/ e.kind = "link" /\ AddError(s, "symlink_rejected", FALSE) /\ UNCHANGED first
           \/ e.kind = "deep" /\ AddError(s, "depth_limit", TRUE) /\ UNCHANGED first
           \/ /\ e.kind = "file" /\ (size > MaxFileSize \/ size > MaxTotalSize - total[s])
              /\ AddError(s, "byte_limit", TRUE) /\ UNCHANGED first
           \/ /\ e.kind = "file" /\ size <= MaxFileSize /\ size <= MaxTotalSize - total[s]
              /\ first' = [first EXCEPT ![s] = Stamp(e.ino)]
              /\ TreeGoto(s, "cache")
              /\ UNCHANGED <<errors, flags>>
    /\ UNCHANGED <<files, cacheRows, listed, fd, read, kept>>

(* cachedLeaf opens the file and only asks the cache about the file it saw *)
(* under the name.  A file on a remote volume, or one that changed, is not *)
(* eligible and goes to the hash.                                          *)
OpenForCache(s) ==
    /\ tpc[s] = "cache"
    /\ LET e == entry[leaf[s]]
       IN  \/ e.kind = "file" /\ Stamp(e.ino) = first[s]
              /\ fd' = [fd EXCEPT ![s] = e.ino] /\ TreeGoto(s, "lookup")
           \/ TreeGoto(s, "open") /\ UNCHANGED fd
    /\ UNCHANGED <<files, cacheRows, listed, todo, leaf, first, read, state>>

(* Mutant: the key of a row leaves out the times of the fingerprint. *)
BugKeyWithoutTime(s) == {r \in cacheRows : r.leaf = leaf[s] /\ r.ino = first[s].ino}

Hit(s) == {r \in cacheRows : r.leaf = leaf[s] /\ r.ino = first[s].ino /\ r.time = first[s].time}

(* A hit counts only if descriptor and name still agree after the lookup.  *)
LookupLeaf(s) ==
    /\ tpc[s] = "lookup"
    /\ \/ /\ Hit(s) # {}
          /\ read' = [read EXCEPT ![s] = (CHOOSE r \in Hit(s) : TRUE).data]
          /\ TreeGoto(s, "recheck")
       \/ TreeGoto(s, "open") /\ UNCHANGED read   \* a miss, an invalid row or a failed query
    /\ UNCHANGED <<files, cacheRows, listed, todo, leaf, first, fd, state>>

SameNow(s) ==
    /\ Stamp(fd[s]) = first[s]
    /\ entry[leaf[s]] = [kind |-> "file", ino |-> fd[s]]

RecheckHit(s) ==
    /\ tpc[s] = "recheck"
    /\ IF SameNow(s) THEN TreeGoto(s, "record") /\ UNCHANGED read
       ELSE TreeGoto(s, "open") /\ read' = [read EXCEPT ![s] = <<>>]
    /\ UNCHANGED <<files, cacheRows, listed, todo, leaf, first, fd, state>>

(* HashVerifiedFile: OpenVerifiedFile and the fingerprint of the open file *)
OpenForHash(s) ==
    /\ tpc[s] = "open"
    /\ LET e == entry[leaf[s]]
       IN  \/ /\ e.kind = "file"
              /\ fd' = [fd EXCEPT ![s] = e.ino]
              /\ IF Stamp(e.ino) = first[s]
                 THEN TreeGoto(s, "read") /\ UNCHANGED <<errors, flags>>
                 ELSE AddError(s, "identity_changed", FALSE)
           \/ e.kind \in {"link", "deep"} /\ AddError(s, "symlink_rejected", FALSE) /\ UNCHANGED fd
           \/ e.kind = "none" /\ AddError(s, "read_unavailable", FALSE) /\ UNCHANGED fd
    /\ read' = [read EXCEPT ![s] = <<>>]
    /\ UNCHANGED <<files, cacheRows, listed, todo, leaf, first, kept>>

(* io.Copy: block by block, at most one block beyond the limit. *)
ReadBlock(s) ==
    /\ tpc[s] = "read"
    /\ LET data == inode[fd[s]].data
           done == Len(read[s])
       IN  IF done < Len(data) /\ done <= MaxFileSize
           THEN read' = [read EXCEPT ![s] = Append(@, data[done + 1])] /\ UNCHANGED tpc
           ELSE TreeGoto(s, "check") /\ UNCHANGED read
    /\ UNCHANGED <<files, cacheRows, listed, todo, leaf, first, fd, state>>

(* Mutant: only the size is checked after the copy. *)
BugSizeOnly(s) ==
    /\ tpc[s] = "check"
    /\ IF Len(read[s]) > MaxFileSize THEN AddError(s, "byte_limit", TRUE)
       ELSE IF Len(inode[fd[s]].data) = Len(read[s])
            THEN TreeGoto(s, "write") /\ UNCHANGED <<errors, flags>>
            ELSE AddError(s, "identity_changed", FALSE)
    /\ UNCHANGED <<files, cacheRows, listed, todo, leaf, first, fd, read, kept>>

(* The checks after the copy: size, descriptor and name. *)
CheckRead(s) ==
    /\ tpc[s] = "check"
    /\ IF Len(read[s]) > MaxFileSize THEN AddError(s, "byte_limit", TRUE)
       ELSE IF SameNow(s) /\ Len(inode[fd[s]].data) = Len(read[s])
            THEN TreeGoto(s, "write") /\ UNCHANGED <<errors, flags>>
            ELSE AddError(s, "identity_changed", FALSE)
    /\ UNCHANGED <<files, cacheRows, listed, todo, leaf, first, fd, read, kept>>

(* The rest of digestEntry: the leaf joins the digest, and what was hashed *)
(* and not found in the cache is remembered for it.                        *)
RecordLeaf(s) ==
    /\ tpc[s] \in {"record", "write"}
    /\ IF Len(read[s]) > MaxTotalSize - total[s]
       THEN AddError(s, "byte_limit", TRUE) /\ UNCHANGED <<total, digests, writes>>
       ELSE LET row == [leaf |-> leaf[s], ino |-> first[s].ino, time |-> first[s].time, data |-> read[s]]
            IN  /\ total' = [total EXCEPT ![s] = @ + Len(read[s])]
                /\ digests' = [digests EXCEPT ![s] = @ \cup {row}]
                /\ writes' = [writes EXCEPT ![s] = IF tpc[s] = "write" THEN @ \cup {row} ELSE @]
                /\ TreeGoto(s, "next")
                /\ UNCHANGED <<errors, flags>>
    /\ first' = [first EXCEPT ![s] = NoStamp]
    /\ read' = [read EXCEPT ![s] = <<>>]
    /\ fd' = [fd EXCEPT ![s] = 0]
    /\ UNCHANGED <<files, cacheRows, listed, todo, leaf, verdict>>

(* Mutant: the deadline is a status of its own. *)
BugExpiredStatus(s) ==
    /\ tpc[s] \notin {"list", "result", "commit"}
    /\ errors' = [errors EXCEPT ![s] = TimeLimit(@)]
    /\ flags' = [flags EXCEPT ![s] = @ \cup {"time_limit"}]
    /\ writes' = [writes EXCEPT ![s] = {}]
    /\ TreeGoto(s, "result")
    /\ UNCHANGED <<files, cacheRows, listed, todo, leaf, first, fd, read, total, digests, verdict>>

(* The deadline passes; every later check of the context ends the walk. *)
Expire(s) ==
    /\ tpc[s] \notin {"list", "result", "commit"}
    /\ errors' = [errors EXCEPT ![s] = TimeLimit(@)]
    /\ flags' = [flags EXCEPT ![s] = @ \cup {"partial"}]
    /\ writes' = [writes EXCEPT ![s] = {}]
    /\ TreeGoto(s, "result")
    /\ UNCHANGED <<files, cacheRows, listed, todo, leaf, first, fd, read, total, digests, verdict>>

EndWalk(s) ==
    /\ tpc[s] = "next" /\ todo[s] = {}
    /\ TreeGoto(s, "result")
    /\ UNCHANGED <<files, cacheRows, listed, todo, leaf, first, fd, read, state>>

(* Mutant: an incomplete record keeps its cache writes. *)
BugKeepsWrites(s) ==
    /\ tpc[s] = "result"
    /\ verdict' = [verdict EXCEPT ![s] = IF flags[s] = {} THEN "complete" ELSE "partial"]
    /\ TreeGoto(s, "commit")
    /\ UNCHANGED <<files, cacheRows, listed, todo, leaf, first, fd, read, total, errors, flags, digests, writes>>

(* treeState.result. *)
Result(s) ==
    CASE "oversize" \in flags[s] -> "oversize"
      [] "partial" \in flags[s] -> "partial"
      [] OTHER -> "complete"

(* The end of collectFilesystem: the root and the asset may have been      *)
(* exchanged by now, and only a complete record keeps its cache writes.    *)
Conclude(s) ==
    /\ tpc[s] = "result"
    /\ \/ verdict' = [verdict EXCEPT ![s] = Result(s)] /\ UNCHANGED errors
       \/ verdict' = [verdict EXCEPT ![s] = "unavailable"]
          /\ errors' = [errors EXCEPT ![s] = <<"identity_changed">>]
    /\ writes' = [writes EXCEPT ![s] = IF verdict'[s] = "complete" THEN @ ELSE {}]
    /\ TreeGoto(s, "commit")
    /\ UNCHANGED <<files, cacheRows, listed, todo, leaf, first, fd, read, total, flags, digests>>

(* StoreContentCache, after the snapshot: upsert, then the row limit drops *)
(* the least recently written.  It may fail and changes nothing then.      *)
StoreRows(s) ==
    /\ tpc[s] = "commit"
    /\ \/ /\ writes[s] # {}
          /\ LET old == {r \in cacheRows : ~\E w \in writes[s] : w.leaf = r.leaf /\ w.ino = r.ino /\ w.time = r.time}
                 new == {[leaf |-> w.leaf, ino |-> w.ino, time |-> w.time, data |-> w.data, used |-> 0] : w \in writes[s]}
                 aged == {[r EXCEPT !.used = 1] : r \in old}
             IN  \E keep \in SUBSET (new \cup aged) :
                    /\ Cardinality(keep) = Min({CacheRows, Cardinality(new \cup aged)})
                    /\ \A r \in keep : \A q \in (new \cup aged) \ keep : r.used <= q.used
                    /\ cacheRows' = keep
       \/ UNCHANGED cacheRows
    /\ TreeGoto(s, "list")
    /\ todo' = [todo EXCEPT ![s] = {}]
    /\ listed' = [listed EXCEPT ![s] = {}]
    /\ leaf' = [leaf EXCEPT ![s] = 0]
    /\ first' = [first EXCEPT ![s] = NoStamp]
    /\ fd' = [fd EXCEPT ![s] = 0]
    /\ read' = [read EXCEPT ![s] = <<>>]
    /\ total' = [total EXCEPT ![s] = 0]
    /\ errors' = [errors EXCEPT ![s] = <<>>]
    /\ flags' = [flags EXCEPT ![s] = {}]
    /\ digests' = [digests EXCEPT ![s] = {}]
    /\ writes' = [writes EXCEPT ![s] = {}]
    /\ verdict' = [verdict EXCEPT ![s] = None]
    /\ UNCHANGED files

-----------------------------------------------------------------------------
(* The editor.  An inode is used again once no name and no descriptor      *)
(* holds it; a change time is never used again.                            *)
FreeInode(i) == (\A l \in Leaves : entry[l].ino # i) /\ (\A s \in Scanners : fd[s] # i)

Change(i, data) ==
    /\ edits < MaxEdits
    /\ edits' = edits + 1
    /\ inode' = [inode EXCEPT ![i] = [data |-> data, time |-> edits + 1]]
    /\ truth' = [truth EXCEPT ![edits + 1] = data]

EditInPlace(l) ==
    /\ entry[l].kind = "file"
    /\ \E data \in Data : Change(entry[l].ino, data)
    /\ UNCHANGED <<entry, cacheRows, placeOf, state>>

ReplaceFile(l) ==
    /\ \E i \in Inodes : \E data \in Data :
        /\ FreeInode(i)
        /\ Change(i, data)
        /\ entry' = [entry EXCEPT ![l] = [kind |-> "file", ino |-> i]]
    /\ UNCHANGED <<cacheRows, placeOf, state>>

ReplaceOther(l) ==
    /\ edits < MaxEdits
    /\ edits' = edits + 1
    /\ entry' \in {[entry EXCEPT ![l] = e] : e \in {Gone, [kind |-> "link", ino |-> 0], [kind |-> "deep", ino |-> 0]}}
    /\ UNCHANGED <<inode, truth, cacheRows, placeOf, state>>

-----------------------------------------------------------------------------
TreeStep(s) ==
    \/ ListDirectory(s) \/ StatEntry(s) \/ OpenForCache(s) \/ LookupLeaf(s) \/ RecheckHit(s)
    \/ OpenForHash(s) \/ ReadBlock(s) \/ CheckRead(s) \/ RecordLeaf(s) \/ EndWalk(s)
    \/ Conclude(s) \/ StoreRows(s)

TreeInit ==
    /\ entry \in [Leaves -> {Gone} \cup [kind : {"file"}, ino : Inodes]]
    /\ \A l \in Leaves : \A m \in Leaves : l # m /\ entry[l].kind = "file" => entry[l].ino # entry[m].ino
    /\ inode \in [Inodes \cup {0} -> [data : Data, time : {0}]]
    /\ \A i \in Inodes \cup {0} : inode[i].data = inode[0].data
    /\ truth = [t \in 0..MaxEdits |-> inode[0].data]
    /\ edits = 0
    /\ cacheRows = {}
    /\ tpc = [s \in Scanners |-> "list"]
    /\ todo = [s \in Scanners |-> {}]
    /\ listed = [s \in Scanners |-> {}]
    /\ leaf = [s \in Scanners |-> 0]
    /\ first = [s \in Scanners |-> NoStamp]
    /\ fd = [s \in Scanners |-> 0]
    /\ read = [s \in Scanners |-> <<>>]
    /\ total = [s \in Scanners |-> 0]
    /\ errors = [s \in Scanners |-> <<>>]
    /\ flags = [s \in Scanners |-> {}]
    /\ digests = [s \in Scanners |-> {}]
    /\ writes = [s \in Scanners |-> {}]
    /\ verdict = [s \in Scanners |-> None]

TreeNext ==
    \/ \E s \in Scanners : TreeStep(s) \/ Expire(s)
    \/ \E l \in Leaves : EditInPlace(l) \/ ReplaceFile(l) \/ ReplaceOther(l)

TreeSpec == TreeInit /\ [][TreeNext]_treeVars

-----------------------------------------------------------------------------
TreeTypeOK ==
    /\ entry \in [Leaves -> [kind : {"none", "file", "link", "deep"}, ino : Inodes \cup {0}]]
    /\ edits \in 0..MaxEdits
    /\ \A s \in Scanners :
        /\ todo[s] \subseteq listed[s] /\ listed[s] \subseteq Leaves
        /\ total[s] \in Nat
        /\ flags[s] \subseteq {"partial", "oversize"}
        /\ verdict[s] \in {"complete", "partial", "oversize", "unavailable"} \cup {None}

(* A row of the cache is true for ever: it names a fingerprint and the     *)
(* bytes that the file had under it, however reads and edits interleaved.  *)
CacheHonest == \A r \in cacheRows : r.data = truth[r.time]

(* The same of every leaf of a digest, from the cache or hashed: no torn   *)
(* read and no stale row enters it.                                        *)
DigestHonest == \A s \in Scanners : \A d \in digests[s] : d.data = truth[d.time]

(* A record is complete only if every listed entry is in its digest; any   *)
(* other record says why, within the bound for errors, and the total never *)
(* exceeds the budget.                                                     *)
CompleteOrExplained ==
    \A s \in Scanners :
        /\ Len(errors[s]) <= MaxErrors /\ total[s] <= MaxTotalSize
        /\ verdict[s] = "complete" => errors[s] = <<>> /\ {d.leaf : d \in digests[s]} = listed[s]
        /\ verdict[s] \notin {"complete", None} => errors[s] # <<>>

(* A pass that did not end complete leaves no trace in the cache.          *)
OnlyCompleteCached ==
    \A r \in cacheRows' \ cacheRows :
        r.used = 1 \/ \E s \in Scanners : verdict[s] = "complete" /\ [leaf |-> r.leaf, ino |-> r.ino, time |-> r.time, data |-> r.data] \in digests[s]

=============================================================================
