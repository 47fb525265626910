---------------------------- MODULE PolicyCommands ----------------------------
(***************************************************************************)
(* The commands that tell a user what policy and intelligence say of the   *)
(* machine (internal/cli/run.go, internal/store/policy.go): the session    *)
(* hook, `scan`, `policy check` and `policy pin`, at once.  They share the *)
(* latest snapshot, the pins and the decisions of the store.  A decision   *)
(* is a violation that was seen before: it is standing, and the hook       *)
(* counts it but does not show it again.                                   *)
(*                                                                         *)
(* A baseline is one step here, Scan has its own.  Nothing in the program  *)
(* writes an exception to the store or prunes a decision.                  *)
(***************************************************************************)
EXTENDS Policy

CONSTANTS
    Machines,            \* what a scan may find, a set of inventories
    Intels,              \* active intelligence bundles
    Orgs,                \* active organization policies
    MaxChanges,          \* bound: changes of the machine, the bundles or the day
    MaxPolicyFaults,     \* bound: failed reads, saves, evaluations, outputs and crashes
    MaxBegun             \* bound: commands

ASSUME CommandsAssumption ==
    /\ {MaxChanges, MaxPolicyFaults, MaxBegun} \subseteq Nat
    /\ None \notin Machines
    /\ Machines \subseteq [PolicyAssets -> [digest : STRING \cup {None}, status : {"complete", "partial"}] \cup {None}]

VARIABLES
    machine, intel, org, day,       \* the world
    latest,                         \* the latest snapshot, or None
    pins,                           \* policy_pins: asset -> digest, or None
    decisions,                      \* policy_decisions
    ccmd, cpc,                      \* the commands
    mine, basis,                    \* the inventory evaluated, the one it is compared with
    previousIDs, pinsRead, known,   \* what was read
    violations, fresh, left,        \* found, not standing, not yet recorded
    found,                          \* the findings
    shown, untold,                   \* history: violations shown, and recorded by a command that could not
    reported, unreported, shifted,  \* history: findings reported, given up, touched by a change of the bundles
    changes, policyFaults, begun

world == <<machine, intel, org, day>>
tables == <<pins, decisions>>
findingHistory == <<reported, unreported, shifted>>
policyLocals == <<mine, basis, previousIDs, pinsRead, known, violations, fresh, left, found>>
policyVars == <<world, latest, tables, ccmd, cpc, policyLocals, shown, untold, findingHistory, changes, policyFaults, begun>>

PolicyGoto(p, label) == cpc' = [cpc EXCEPT ![p] = label]
CommandEnds(p) == PolicyGoto(p, "idle")
PolicyFault == policyFaults < MaxPolicyFaults /\ policyFaults' = policyFaults + 1
NoFault == UNCHANGED policyFaults

(* A command that stops leaves its decisions behind without showing them,  *)
(* and the findings of the snapshot it saved without reporting them.       *)
Saves(p) == ccmd[p] \in {"hook", "scan"} /\ cpc[p] \in {"pins", "decisions", "record", "findings", "print"}
GivesUp(p) ==
    /\ untold' = untold \cup (IF cpc[p] \in {"record", "findings", "print"} THEN fresh[p] \ left[p] ELSE {})
    /\ unreported' = unreported \cup (IF Saves(p) THEN FindingIds(mine[p], intel, org) \cup {FindingId(f) : f \in found[p]} ELSE {})
    /\ UNCHANGED <<shown, reported, shifted>>
Keeps == UNCHANGED <<shown, untold, findingHistory>>

-----------------------------------------------------------------------------
BeginPolicy(p, c) ==
    /\ cpc[p] = "idle" /\ begun < MaxBegun
    /\ begun' = begun + 1
    /\ ccmd' = [ccmd EXCEPT ![p] = c]
    /\ PolicyGoto(p, CASE c = "scan" -> "baseline" [] c = "hook" -> "previous" [] OTHER -> "load")
    /\ previousIDs' = [previousIDs EXCEPT ![p] = {}] /\ violations' = [violations EXCEPT ![p] = {}]
    /\ fresh' = [fresh EXCEPT ![p] = {}] /\ left' = [left EXCEPT ![p] = {}] /\ found' = [found EXCEPT ![p] = {}]
    /\ Keeps /\ NoFault
    /\ UNCHANGED <<world, latest, tables, mine, basis, pinsRead, known, changes>>

(* LatestSnapshot.  The hook only wants to know what stood before: without *)
(* a snapshot, or after a failure, everything is new to it.                *)
LoadLatest(p) ==
    /\ cpc[p] \in {"previous", "load"}
    /\ \/ /\ latest # None /\ NoFault
          /\ mine' = [mine EXCEPT ![p] = latest] /\ basis' = [basis EXCEPT ![p] = latest]
          /\ PolicyGoto(p, CASE ccmd[p] = "hook" -> "former" [] ccmd[p] = "check" -> "pins" [] ccmd[p] = "pin" -> "approve")
       \/ /\ (latest = None /\ NoFault) \/ PolicyFault
          /\ IF ccmd[p] = "hook" THEN PolicyGoto(p, "baseline") ELSE CommandEnds(p)
          /\ UNCHANGED <<mine, basis>>
    /\ Keeps
    /\ UNCHANGED <<world, latest, tables, ccmd, previousIDs, pinsRead, known, violations, fresh, left, found, changes, begun>>

(* The findings of the previous snapshot, by the bundles that are active   *)
(* now.                                                                    *)
EvaluatePrevious(p) ==
    /\ cpc[p] = "former"
    /\ \/ previousIDs' = [previousIDs EXCEPT ![p] = FindingIds(mine[p], intel, org)] /\ NoFault
       \/ UNCHANGED previousIDs /\ PolicyFault
    /\ PolicyGoto(p, "baseline")
    /\ Keeps
    /\ UNCHANGED <<world, latest, tables, ccmd, mine, basis, pinsRead, known, violations, fresh, left, found, changes, begun>>

(* Baseline; one that fails may have saved its snapshot.                   *)
TakeBaseline(p) ==
    /\ cpc[p] = "baseline"
    /\ \/ /\ mine' = [mine EXCEPT ![p] = machine]
          /\ basis' = [basis EXCEPT ![p] = IF latest = None THEN NoInventory ELSE latest]
          /\ latest' = machine
          /\ PolicyGoto(p, IF ccmd[p] = "hook" THEN "pins" ELSE "findings")
          /\ Keeps /\ NoFault
       \/ /\ PolicyFault /\ CommandEnds(p) /\ latest' \in {latest, machine}
          /\ unreported' = unreported \cup (IF latest' = latest THEN {} ELSE FindingIds(machine, intel, org))
          /\ UNCHANGED <<mine, basis, shown, untold, reported, shifted>>
    /\ UNCHANGED <<world, tables, ccmd, previousIDs, pinsRead, known, violations, fresh, left, found, changes, begun>>

(* The hook goes on without policy, a check ends.                          *)
WithoutPolicy(p) == IF ccmd[p] = "hook" THEN PolicyGoto(p, "findings") ELSE CommandEnds(p)

ReadPins(p) ==
    /\ cpc[p] = "pins"
    /\ \/ pinsRead' = [pinsRead EXCEPT ![p] = pins] /\ PolicyGoto(p, "decisions") /\ NoFault
       \/ UNCHANGED pinsRead /\ WithoutPolicy(p) /\ PolicyFault
    /\ Keeps
    /\ UNCHANGED <<world, latest, tables, ccmd, mine, basis, previousIDs, known, violations, fresh, left, found, changes, begun>>

(* Mutant: what stands is looked up after it was recorded.                 *)
BugReadDecisions(p) ==
    /\ cpc[p] = "decisions" /\ ~TrustsTooLong(day)
    /\ known' = [known EXCEPT ![p] = decisions]
    /\ violations' = [violations EXCEPT ![p] = Evaluate(basis[p], mine[p], pinsRead[p], day)]
    /\ fresh' = [fresh EXCEPT ![p] = {}] /\ left' = [left EXCEPT ![p] = violations'[p]]
    /\ PolicyGoto(p, IF ccmd[p] = "hook" THEN "record" ELSE "findings")
    /\ Keeps /\ NoFault
    /\ UNCHANGED <<world, latest, tables, ccmd, mine, basis, previousIDs, pinsRead, found, changes, begun>>

(* The decisions are read, the document is verified and evaluated.         *)
ReadDecisions(p) ==
    /\ cpc[p] = "decisions"
    /\ \/ /\ ~TrustsTooLong(day) /\ NoFault
          /\ known' = [known EXCEPT ![p] = decisions]
          /\ violations' = [violations EXCEPT ![p] = Evaluate(basis[p], mine[p], pinsRead[p], day)]
          /\ fresh' = [fresh EXCEPT ![p] = violations'[p] \ decisions]
          /\ left' = [left EXCEPT ![p] = violations'[p]]
          /\ PolicyGoto(p, IF ccmd[p] = "hook" THEN "record" ELSE "findings")
       \/ /\ (TrustsTooLong(day) /\ NoFault) \/ PolicyFault
          /\ WithoutPolicy(p)
          /\ UNCHANGED <<known, violations, fresh, left>>
    /\ Keeps
    /\ UNCHANGED <<world, latest, tables, ccmd, mine, basis, previousIDs, pinsRead, found, changes, begun>>

(* The finding service reads both active bundles.  A check adds what is    *)
(* decided above the level of local policy.                                *)
EvaluateFindings(p) ==
    /\ cpc[p] = "findings"
    /\ \/ /\ found' = [found EXCEPT ![p] = Findings(mine[p], intel, org)]
          /\ IF ccmd[p] = "check"
             THEN /\ violations' = [violations EXCEPT ![p] = @ \cup AsViolations(found'[p])]
                  /\ fresh' = [fresh EXCEPT ![p] = violations'[p] \ known[p]]
                  /\ left' = [left EXCEPT ![p] = violations'[p]]
                  /\ PolicyGoto(p, "record")
             ELSE PolicyGoto(p, "print") /\ UNCHANGED <<violations, fresh, left>>
          /\ Keeps /\ NoFault
       \/ /\ PolicyFault
          /\ IF ccmd[p] = "check" THEN CommandEnds(p) ELSE PolicyGoto(p, "print")
          /\ unreported' = unreported \cup (IF Saves(p) THEN FindingIds(mine[p], intel, org) ELSE {})
          /\ UNCHANGED <<violations, fresh, left, found, shown, untold, reported, shifted>>
    /\ UNCHANGED <<world, latest, tables, ccmd, mine, basis, previousIDs, pinsRead, known, changes, begun>>

(* RecordDecisions writes row by row, outside of a transaction.  The hook  *)
(* drops its violations when that fails.                                   *)
RecordDecision(p) ==
    /\ cpc[p] = "record"
    /\ \/ /\ \E v \in left[p] : decisions' = decisions \cup {v} /\ left' = [left EXCEPT ![p] = @ \ {v}]
          /\ Keeps /\ NoFault /\ UNCHANGED <<cpc, violations, fresh>>
       \/ /\ left[p] = {}
          /\ PolicyGoto(p, IF ccmd[p] = "hook" THEN "findings" ELSE "print")
          /\ Keeps /\ NoFault /\ UNCHANGED <<decisions, left, violations, fresh>>
       \/ /\ PolicyFault /\ left[p] # {} /\ WithoutPolicy(p)
          /\ untold' = untold \cup (fresh[p] \ left[p])
          /\ violations' = [violations EXCEPT ![p] = {}] /\ fresh' = [fresh EXCEPT ![p] = {}] /\ left' = [left EXCEPT ![p] = {}]
          /\ UNCHANGED <<decisions, shown, findingHistory>>
    /\ UNCHANGED <<world, latest, pins, ccmd, mine, basis, previousIDs, pinsRead, known, found, changes, begun>>

(* The hook shows what is new and counts what stands; a check lists all; a *)
(* scan answers with its exit code.                                        *)
Shown(p) == IF ccmd[p] = "check" THEN violations[p] ELSE fresh[p]
NewFindings(p) == {FindingId(f) : f \in found[p]} \ previousIDs[p]
WriteOutput(p) ==
    /\ cpc[p] = "print" /\ CommandEnds(p)
    /\ \/ /\ shown' = shown \cup Shown(p) /\ reported' = reported \cup NewFindings(p)
          /\ NoFault /\ UNCHANGED <<untold, unreported, shifted>>
       \/ PolicyFault /\ GivesUp(p)
    /\ UNCHANGED <<world, latest, tables, ccmd, policyLocals, changes, begun>>

(* runPolicyPin: all assets of the snapshot, or the one that was named.    *)
Approve(p) ==
    /\ cpc[p] = "approve" /\ CommandEnds(p)
    /\ \/ \E named \in {PolicyAssets} \cup {{a} : a \in {b \in PolicyAssets : Recorded(mine[p], b)}} :
             /\ pins' = [a \in PolicyAssets |-> IF a \in named /\ Hashed(mine[p], a) THEN mine[p][a].digest ELSE pins[a]]
             /\ NoFault
       \/ UNCHANGED pins /\ PolicyFault
    /\ Keeps
    /\ UNCHANGED <<world, latest, decisions, ccmd, policyLocals, changes, begun>>

PolicyCrash(p) ==
    /\ cpc[p] # "idle" /\ CommandEnds(p) /\ PolicyFault /\ GivesUp(p)
    /\ UNCHANGED <<world, latest, tables, ccmd, policyLocals, changes, begun>>

(* The machine changes, a bundle is installed, or the clock goes on or is  *)
(* set back.                                                               *)
AtWork == {mine[p] : p \in {q \in Procs : cpc[q] # "idle" /\ mine[q] # None}} \cup ({latest} \ {None})
WorldChanges ==
    /\ changes < MaxChanges /\ changes' = changes + 1
    /\ \/ machine' \in Machines \ {machine} /\ UNCHANGED <<intel, org, day, shifted>>
       \/ /\ \/ intel' \in Intels \ {intel} /\ UNCHANGED org
             \/ org' \in Orgs \ {org} /\ UNCHANGED intel
          /\ shifted' = shifted \cup UNION {FindingIds(i, intel, org) \cup FindingIds(i, intel', org') : i \in AtWork}
          /\ UNCHANGED <<machine, day>>
       \/ day' \in {day - 1, day + 1} /\ UNCHANGED <<machine, intel, org, shifted>>
    /\ UNCHANGED <<latest, tables, ccmd, cpc, policyLocals, shown, untold, reported, unreported, policyFaults, begun>>

PolicyStep(p) ==
    \/ LoadLatest(p) \/ EvaluatePrevious(p) \/ TakeBaseline(p) \/ ReadPins(p) \/ ReadDecisions(p)
    \/ EvaluateFindings(p) \/ RecordDecision(p) \/ WriteOutput(p) \/ Approve(p)

PolicyNext ==
    \/ \E p \in Procs : PolicyStep(p) \/ PolicyCrash(p) \/ \E c \in {"hook", "scan", "check", "pin"} : BeginPolicy(p, c)
    \/ WorldChanges

PolicyInit ==
    /\ machine \in Machines /\ intel \in Intels /\ org \in Orgs /\ day = 0
    /\ latest = None /\ pins = NoInventory /\ decisions = {}
    /\ ccmd = [p \in Procs |-> "none"] /\ cpc = [p \in Procs |-> "idle"]
    /\ mine = [p \in Procs |-> None] /\ basis = mine /\ pinsRead = mine
    /\ previousIDs = [p \in Procs |-> {}]
    /\ known = previousIDs /\ violations = previousIDs /\ fresh = previousIDs /\ left = previousIDs /\ found = previousIDs
    /\ shown = {} /\ untold = {} /\ reported = {} /\ unreported = {} /\ shifted = {}
    /\ changes = 0 /\ policyFaults = 0 /\ begun = 0

PolicySpec == PolicyInit /\ [][PolicyNext]_policyVars

-----------------------------------------------------------------------------
(* Every variable has its type. *)
PolicyTypeOK ==
    /\ machine \in Machines /\ latest \in Machines \cup {None} /\ \A p \in Procs : mine[p] \in Machines \cup {None}
    /\ \A p \in Procs : left[p] \subseteq violations[p] /\ fresh[p] \subseteq violations[p]
    /\ cpc \in [Procs -> {"idle", "previous", "load", "former", "baseline", "pins", "decisions", "record", "findings", "print", "approve"}]

(* A violation that was recorded, and is therefore only counted from then  *)
(* on, was shown by some command, or is about to be, or its command could  *)
(* not (run.go evaluatePolicy, RecordDecisions before the output).         *)
Showing == {"record", "findings", "print"}
StandingWasShown ==
    \A v \in decisions :
        \/ v \in shown \cup untold
        \/ \E p \in Procs : cpc[p] \in Showing /\ v \in fresh[p] \ left[p]

(* A finding that a hook passes over, since the previous snapshot already  *)
(* had it, was reported by the command that saved that snapshot or will    *)
(* be; otherwise that command failed or the bundles changed (run.go hook). *)
WillReport(p, id) == cpc[p] # "idle" /\ Saves(p) /\ id \in FindingIds(mine[p], intel, org) \ previousIDs[p]
PassedOverWasReported ==
    \A p \in Procs :
        cpc[p] = "print" /\ ccmd[p] = "hook" =>
            \A id \in {FindingId(f) : f \in found[p]} \cap previousIDs[p] :
                \/ id \in reported \cup unreported \cup shifted
                \/ \E q \in Procs \ {p} : WillReport(q, id)

(* Nothing hides what is known to be malicious, neither an allowance nor a *)
(* pin nor an exception, and an asset has one decision (Decide).           *)
MaliciousStands ==
    latest # None =>
        \A a \in PolicyAssets :
            LET of == {f \in Findings(latest, intel, org) : f.asset = a}
            IN  /\ Cardinality(of) <= 1
                /\ Malicious(latest, intel, a) =>
                      /\ \E f \in of : f.verdict = "known-malicious" /\ f.action = "advisory"
                      /\ ExitCode(of) = 4

(* What is shown once and then only counted was shown, what a hook passes  *)
(* over as known was reported, and nothing hides what is known malicious,  *)
(* whatever commands, crashes and changes of the bundles do at once        *)
(* (cli/run.go, store/policy.go, finding/decision.go).                     *)
PolicySound == PolicyTypeOK /\ StandingWasShown /\ PassedOverWasReported /\ MaliciousStands

=============================================================================
