----------------------------- MODULE RuntimeProbes -----------------------------
(***************************************************************************)
(* The runtime collector (internal/collector/runtime): one probe lists the *)
(* processes, a second one the listeners, which are joined to the          *)
(* processes of the first by their number.  Processes come and go between  *)
(* the two, and a number may be given to another program.                  *)
(***************************************************************************)
EXTENDS Shared, Integers, FiniteSets

CONSTANTS
    Pids, Programs, Ports,
    OddNames,       \* programs whose name is refused
    MaxForks        \* bound: changes of the table of processes

ASSUME RuntimeAssumption == MaxForks \in Nat /\ OddNames \subseteq Programs

VARIABLES
    running,        \* pid -> program, or None
    listening,      \* <<pid, port>>
    forks,          \* the number of changes
    rpc,
    seen,           \* what the first probe reported: <<pid, program>>
    heard,          \* what the second probe reported: <<pid, port>>
    links,          \* <<pid, port, program>>
    statusOf        \* target -> status

machine == <<running, listening, forks>>
runtimeVars == <<machine, rpc, seen, heard, links, statusOf>>

(* parseProcessSnapshot: one odd name spoils the whole output.  Every      *)
(* output may be cut or fail; a failure is unavailable, the rest partial.  *)
Broken(status) == status \in {"unavailable", "partial"}

Collecting(probes) ==
    IF probes THEN rpc' = "processes" /\ UNCHANGED statusOf
    ELSE rpc' = "done" /\ statusOf' = [t \in DOMAIN statusOf |-> "skipped"]

(* parseProcessSnapshot, parseListenerSnapshot: every name is checked,     *)
(* those of the listeners too, of which only the numbers are used.         *)
ParsedProcesses ==
    LET table == {<<p, running[p]>> : p \in {q \in Pids : running[q] # None}}
    IN  IF \E t \in table : t[2] \in OddNames THEN None ELSE table
ParsedListeners == IF \E l \in listening : running[l[1]] \in OddNames THEN None ELSE listening

(* Without consent to probes nothing is run. *)
BeginRuntime ==
    /\ rpc = "begin"
    /\ \E probes \in BOOLEAN : Collecting(probes)
    /\ UNCHANGED <<machine, seen, heard, links>>

(* The observation of a process holds its number and a digest only, which  *)
(* FinalizeObservation never refuses: no process is left out on its own.   *)
ProbeProcesses ==
    /\ rpc = "processes"
    /\ \/ \E s \in {"unavailable", "partial"} : statusOf' = [statusOf EXCEPT !["processes"] = s] /\ UNCHANGED seen
       \/ /\ ParsedProcesses # None
          /\ statusOf' = [statusOf EXCEPT !["processes"] = "complete"] /\ seen' = ParsedProcesses
    /\ rpc' = "listeners"
    /\ UNCHANGED <<machine, heard, links>>

(* Mutant: a listener is joined to whatever runs under its number now. *)
BugJoinsNow ==
    /\ rpc = "listeners"
    /\ statusOf' = [statusOf EXCEPT !["listeners"] = "complete"] /\ heard' = listening
    /\ links' = {<<l[1], l[2], running[l[1]]>> : l \in listening}
    /\ rpc' = "done"
    /\ UNCHANGED <<machine, seen>>

ProbeListeners ==
    /\ rpc = "listeners"
    /\ \/ \E s \in {"unavailable", "partial"} : statusOf' = [statusOf EXCEPT !["listeners"] = s] /\ UNCHANGED <<heard, links>>
       \/ /\ ParsedListeners # None
          /\ statusOf' = [statusOf EXCEPT !["listeners"] = "complete"] /\ heard' = listening
          /\ links' = UNION {{<<l[1], l[2], s[2]>> : s \in {x \in seen : x[1] = l[1]}} : l \in listening}
    /\ rpc' = "done"
    /\ UNCHANGED <<machine, seen>>

AbortRuntime ==
    /\ rpc \in {"processes", "listeners"}
    /\ rpc' = "aborted" /\ seen' = {} /\ heard' = {} /\ links' = {} /\ statusOf' = [t \in DOMAIN statusOf |-> None]
    /\ UNCHANGED machine

(* A process starts, ends, or begins to listen. *)
Fork(p) ==
    /\ forks < MaxForks /\ forks' = forks + 1
    /\ \/ \E x \in Programs : running[p] = None /\ running' = [running EXCEPT ![p] = x] /\ UNCHANGED listening
       \/ running[p] # None /\ running' = [running EXCEPT ![p] = None] /\ listening' = {l \in listening : l[1] # p}
       \/ \E n \in Ports : running[p] # None /\ listening' = listening \cup {<<p, n>>} /\ UNCHANGED running
    /\ UNCHANGED <<rpc, seen, heard, links, statusOf>>

InitRuntime ==
    /\ running \in [Pids -> Programs \cup {None}]
    /\ listening \in SUBSET {<<p, n>> : p \in {q \in Pids : running[q] # None}, n \in Ports}
    /\ forks = 0 /\ rpc = "begin" /\ seen = {} /\ heard = {} /\ links = {}
    /\ statusOf = [t \in {"processes", "listeners"} |-> None]

NextRuntime ==
    \/ BeginRuntime \/ ProbeProcesses \/ ProbeListeners \/ AbortRuntime
    \/ \E p \in Pids : Fork(p)

-----------------------------------------------------------------------------
(* A listener is joined only to a process that is itself reported, each to *)
(* one at most, and a broken probe leaves nothing of its own behind, so    *)
(* that the graph has no edge without both ends (Collect).                 *)
LinksHaveBothEnds ==
    /\ \A l \in links : <<l[1], l[2]>> \in heard /\ <<l[1], l[3]>> \in seen
    /\ \A l, k \in links : l[1] = k[1] => l[3] = k[3]
    /\ Broken(statusOf["processes"]) => seen = {} /\ links = {}
    /\ Broken(statusOf["listeners"]) => heard = {} /\ links = {}

=============================================================================
