----------------------------- MODULE HomeSurfaces -----------------------------
(***************************************************************************)
(* The surfaces collector (internal/collector/surfaces): the start-up      *)
(* files of shells, which are hashed, and the configurations of git, of    *)
(* which the credential helpers are read.  The user edits the files.  A    *)
(* configuration is read in two pieces: a write in between is seen by the  *)
(* second one only.                                                        *)
(***************************************************************************)
EXTENDS Shared, Integers, Sequences, FiniteSets

CONSTANTS
    Startups,       \* shell start-up files
    GitConfigs,     \* git configurations
    Pages,          \* content -> its two pieces, sequences of lines
    DesksAtStart,   \* what may be there at first
    MaxScribbles    \* bound: changes by the user

Papers == Startups \cup GitConfigs
PageLines == UNION {{Pages[p][n][i] : i \in DOMAIN Pages[p][n]} : p \in DOMAIN Pages, n \in {1, 2}}

ASSUME SurfaceAssumption ==
    /\ MaxScribbles \in Nat /\ Startups \cap GitConfigs = {}
    /\ \A p \in DOMAIN Pages : Pages[p] \in Seq(PageLines) \X Seq(PageLines)
    /\ \A helpers \in SUBSET PageLines : helpers # None
    /\ DesksAtStart \subseteq [Papers -> [kind : {"none", "file", "link"}, id : Nat, data : DOMAIN Pages]]

VARIABLES
    paper,          \* file -> [kind, id, data]
    scribbles,      \* the number of changes
    hpc,
    atWork,         \* the file at work
    opened,         \* its identity when it was opened
    lines,          \* what was read of it
    surfaceTargets, \* <<file, status>>
    surfaces        \* what is reported: [of, id, there, helpers]

deskSide == <<paper, scribbles>>
surfaceVars == <<deskSide, hpc, atWork, opened, lines, surfaceTargets, surfaces>>

Plain(f) == paper[f].kind = "file"
Left == {f \in Papers : \A t \in surfaceTargets : t[1] # f}
CoverPaper(status) == surfaceTargets' = surfaceTargets \cup {<<atWork, status>>} /\ hpc' = "next"

-----------------------------------------------------------------------------
(* A line is "[credential]", "[other]", "helper =" with nothing or a name, *)
(* or one that parseCredentialHelpers cannot make sense of.                *)
Section(line) == line \in {"credential", "other"}
InSection(text, i) == \E j \in 1 .. i : text[j] = "credential" /\ \A k \in j .. i : text[k] # "other"

(* Mutant: an empty value is passed over. *)
BugNoReset(text) ==
    IF "broken" \in {text[i] : i \in DOMAIN text} THEN None
    ELSE {text[i] : i \in {j \in DOMAIN text : InSection(text, j) /\ ~Section(text[j]) /\ text[j] # "reset"}}

(* parseCredentialHelpers, line by line: an empty value clears the list.   *)
HelpersRead(text) ==
    LET read[i \in 0 .. Len(text)] ==
            IF i = 0 THEN {}
            ELSE IF read[i - 1] = None \/ text[i] = "broken" THEN None
            ELSE IF Section(text[i]) \/ ~InSection(text, i) THEN read[i - 1]
            ELSE IF text[i] = "reset" THEN {}
            ELSE read[i - 1] \cup {text[i]}
    IN  read

Helpers(text) == HelpersRead(text)[Len(text)]

-----------------------------------------------------------------------------
(* Collect, the next file: Lstat. *)
LookPaper ==
    /\ hpc = "next"
    /\ \E f \in Left :
        /\ atWork' = f /\ opened' = None /\ lines' = <<>>
        /\ CASE paper[f].kind = "none" -> surfaceTargets' = surfaceTargets \cup {<<f, "not_present">>} /\ hpc' = "next"
             [] Plain(f) -> hpc' = (IF f \in Startups THEN "hash" ELSE "openConfig") /\ UNCHANGED surfaceTargets
             [] OTHER -> surfaceTargets' = surfaceTargets \cup {<<f, "partial">>} /\ hpc' = "next"
    /\ UNCHANGED <<deskSide, surfaces>>

(* issueHomeFileEvidence: HashVerifiedFile succeeds for a file that stays  *)
(* as it is.  The file is reported whether it can be hashed or not.        *)
HashStartup ==
    /\ hpc = "hash"
    /\ surfaces' = surfaces \cup {[of |-> atWork, id |-> paper[atWork].id, there |-> paper[atWork].id, helpers |-> None]}
    /\ \E hashed \in {h \in BOOLEAN : h => Plain(atWork)} : CoverPaper(IF hashed THEN "complete" ELSE "partial")
    /\ UNCHANGED <<deskSide, atWork, opened, lines>>

(* readVerifiedHomeFile: the file is opened and its first piece read, ...  *)
OpenPaper ==
    /\ hpc = "openConfig"
    /\ \/ CoverPaper("partial") /\ UNCHANGED <<opened, lines>>
       \/ /\ Plain(atWork)
          /\ opened' = paper[atWork].id /\ lines' = Pages[paper[atWork].data][1]
          /\ hpc' = "readConfig" /\ UNCHANGED surfaceTargets
    /\ UNCHANGED <<deskSide, atWork, surfaces>>

(* ... then the second; a file that was exchanged is still the opened one. *)
ReadPaper ==
    /\ hpc = "readConfig"
    /\ \/ CoverPaper("partial") /\ UNCHANGED lines
       \/ /\ lines' = lines \o (IF Plain(atWork) /\ paper[atWork].id = opened THEN Pages[paper[atWork].data][2] ELSE <<>>)
          /\ hpc' = "checkConfig" /\ UNCHANGED surfaceTargets
    /\ UNCHANGED <<deskSide, atWork, opened, surfaces>>

(* Mutant: nobody looks whether the file is still in its place. *)
BugTrustsName ==
    /\ hpc = "checkConfig"
    /\ IF Helpers(lines) = None THEN CoverPaper("partial") /\ UNCHANGED surfaces
       ELSE /\ surfaces' = surfaces \cup {[of |-> atWork, id |-> opened, there |-> paper[atWork].id, helpers |-> Helpers(lines)]}
            /\ CoverPaper("complete")
    /\ UNCHANGED <<deskSide, atWork, opened, lines>>

(* The file must still be in its place: by identity, not by content.  A    *)
(* helper may be refused when it is finalized; the others are reported.    *)
CheckPaper ==
    /\ hpc = "checkConfig"
    /\ IF ~(paper[atWork].kind # "none" /\ paper[atWork].id = opened) \/ Helpers(lines) = None
       THEN CoverPaper("partial") /\ UNCHANGED surfaces
       ELSE \E kept \in SUBSET Helpers(lines) :
            /\ surfaces' = surfaces \cup {[of |-> atWork, id |-> opened, there |-> paper[atWork].id, helpers |-> kept]}
            /\ CoverPaper(IF kept = Helpers(lines) THEN "complete" ELSE "partial")
    /\ UNCHANGED <<deskSide, atWork, opened, lines>>

(* Cancelled: what was collected is thrown away. *)
AbortSurfaces ==
    /\ hpc # "aborted" /\ Left # {}
    /\ hpc' = "aborted" /\ atWork' = None /\ opened' = None /\ lines' = <<>> /\ surfaceTargets' = {} /\ surfaces' = {}
    /\ UNCHANGED deskSide

(* The user writes or exchanges a file. *)
Scribble(f) ==
    /\ scribbles < MaxScribbles
    /\ scribbles' = scribbles + 1
    /\ \E k \in {"none", "file", "link"}, d \in DOMAIN Pages, id \in {paper[f].id, scribbles + 1} :
        /\ paper[f].kind # k => id = scribbles + 1
        /\ paper' = [paper EXCEPT ![f] = [kind |-> k, id |-> id, data |-> d]]
    /\ UNCHANGED <<hpc, atWork, opened, lines, surfaceTargets, surfaces>>

InitSurfaces ==
    /\ paper \in DesksAtStart /\ scribbles = 0 /\ hpc = "next"
    /\ atWork = None /\ opened = None /\ lines = <<>> /\ surfaceTargets = {} /\ surfaces = {}

NextSurfaces ==
    \/ LookPaper \/ HashStartup \/ OpenPaper \/ ReadPaper \/ CheckPaper \/ AbortSurfaces
    \/ \E f \in Papers : Scribble(f)

-----------------------------------------------------------------------------
SurfaceTypeOK ==
    /\ surfaceTargets \subseteq Papers \X {"complete", "partial", "not_present"}
    /\ \A t, u \in surfaceTargets : t[1] = u[1] => t = u
    /\ \A s \in surfaces : s.of \in Papers

(* The helpers that git would use: those named in a credential section     *)
(* after the last empty value there.                                       *)
Effective(text) ==
    LET inside == {i \in DOMAIN text : InSection(text, i) /\ ~Section(text[i])}
    IN  {text[i] : i \in {j \in inside : \A k \in inside : k >= j => text[k] # "reset"}}

(* A configuration is reported as the file that is in its place when it    *)
(* has been read, and if nobody wrote meanwhile with helpers that are in   *)
(* force: all of them, if the target is complete (readVerifiedHomeFile,    *)
(* parseCredentialHelpers, Collect).                                       *)
HelpersInForce ==
    \A s \in surfaces : s.helpers # None =>
        LET named == Effective(Pages[paper[s.of].data][1] \o Pages[paper[s.of].data][2])
        IN  /\ s.id = s.there
            /\ scribbles = 0 => s.helpers \subseteq named /\ (<<s.of, "complete">> \in surfaceTargets => s.helpers = named)

=============================================================================
