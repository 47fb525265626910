------------------------------- MODULE MCScan -------------------------------
(* Instances of Scan and of the commands that say what policy and          *)
(* intelligence make of its snapshots, for TLC.  A behaviour works one of  *)
(* the two, `part`, and leaves the other as it starts.                     *)
EXTENDS Scan, PolicyCommands, TLC

VARIABLE part

Symmetric == Permutations(Procs) \cup Permutations(Assets) \cup Permutations(Contents)

(* One asset, whose second content is what intelligence knows, the         *)
(* organization allows and the user excepts until tomorrow.                *)
Hashes == {[digest |-> d, status |-> "complete"] : d \in {"old", "new"}}
MCMachine(content) == "asset" :> content
MCMachines == {MCMachine(c) : c \in Hashes \cup {None, [digest |-> None, status |-> "partial"]}}
MCHostOf == "asset" :> "claude"
MCProjectOf == "asset" :> "P"
MCRule(id, family, statuses, rungs) ==
    [id |-> id, family |-> family, match |-> [hosts |-> {"claude"}, statuses |-> statuses, rungs |-> rungs]]
MCRules ==
    {MCRule("changed", "change", {}, {"CHANGED", "REMOVED"}),
     MCRule("pin-mismatch", "pin", {}, {}),
     MCRule("unverified", "shape", {"partial"}, {})}
MCExceptions ==
    {[rule |-> "changed", scope |-> "asset", asset |-> "asset", digest |-> "new", project |-> None, until |-> 1]}
MCIntels == {{}, {[id |-> "record", asset |-> "asset", digest |-> "new", verdict |-> "known-malicious"]}}
Allowance == [denies |-> {}, allows |-> {<<"asset", "new">>}]
MCOrgs == {Allowance, [denies |-> {"asset"}, allows |-> {}]}

(* The machine starts with either content, without intelligence.           *)
ScanInit ==
    /\ part \in {"scan", "policy"}
    /\ Init /\ PolicyInit
    /\ machine \in (IF part = "policy" THEN {MCMachine(c) : c \in Hashes} ELSE {NoInventory})
    /\ intel = {} /\ org = Allowance

(* All commands that the bound allows have ended. *)
PolicyRests == begun = MaxBegun /\ (\A p \in Procs : cpc[p] = "idle") /\ UNCHANGED policyVars

ScanNext ==
    \/ part = "scan" /\ Next /\ UNCHANGED <<part, policyVars>>
    \/ part = "policy" /\ (PolicyNext \/ PolicyRests) /\ UNCHANGED <<part, vars>>

ScanSpec == ScanInit /\ [][ScanNext]_<<part, vars, policyVars>>

=============================================================================
