-------------------------------- MODULE Policy --------------------------------
(***************************************************************************)
(* What a rule, an intelligence record or an organization says of the      *)
(* assets of one inventory (internal/policy, internal/finding).  An        *)
(* inventory maps an asset to its record, [digest, status], or to None;    *)
(* only a complete record has a digest.  One evidence subject per asset;   *)
(* what else a rule may look at is the asset's host and project.           *)
(*                                                                         *)
(* The static analyzers are left out, and so are local violations in       *)
(* Decide: no caller gives the finding service any.                        *)
(***************************************************************************)
EXTENDS Shared, Integers, FiniteSets

CONSTANTS
    PolicyAssets,
    HostOf, ProjectOf,  \* where an asset is observed
    Rules,              \* enabled rules of the document: [id, family, match]
    Exceptions,         \* of the document: [rule, scope, asset, digest, project, until]
    MaxLocalExpiry

ASSUME PolicyAssumption == MaxLocalExpiry \in Nat /\ None \notin PolicyAssets

NoInventory == [a \in PolicyAssets |-> None]
Recorded(inv, a) == inv[a] # None
Hashed(inv, a) == inv[a] # None /\ inv[a].status = "complete"
Status(inv, a) == IF inv[a] = None THEN None ELSE inv[a].status

(* An empty set of values admits everything. *)
Admits(values, v) == values = {} \/ v \in values
MatchesShape(match, inv, a) == Admits(match.hosts, HostOf[a]) /\ Admits(match.statuses, Status(inv, a))

(* The row of the ladder for an asset that differs from the last snapshot. *)
RungOf(before, inv, a) ==
    CASE before[a] = None -> "NEW"
      [] inv[a] = None -> "REMOVED"
      [] OTHER -> IF inv[a].status = "complete" THEN "CHANGED" ELSE "UNVERIFIED"

(* Evaluate, evaluatePins: does the rule fire for the asset? *)
Fires(r, before, inv, pins, a) ==
    \/ r.family = "shape" /\ Recorded(inv, a) /\ MatchesShape(r.match, inv, a)
    \/ /\ r.family = "change" /\ before[a] # inv[a]
       /\ Admits(r.match.rungs, RungOf(before, inv, a)) /\ MatchesShape(r.match, inv, a)
    \/ r.id = "pin-mismatch" /\ Hashed(inv, a) /\ pins[a] \notin {None, inv[a].digest}
    \/ r.id = "unpinned" /\ Hashed(inv, a) /\ pins[a] = None

(* exceptionMatches *)
Covers(e, inv, rule, a) ==
    /\ e.rule = rule
    /\ \/ e.scope = "run"
       \/ e.scope = "asset" /\ e.asset = a /\ Hashed(inv, a) /\ inv[a].digest = e.digest
       \/ e.scope = "project" /\ Recorded(inv, a) /\ ProjectOf[a] = e.project

(* applyExceptions *)
Excepted(inv, now, rule, a) == \E e \in Exceptions : Covers(e, inv, rule, a) /\ now < e.until

(* VerifyExceptions: a document that trusts for too long is not evaluated. *)
TrustsTooLong(now) == \E e \in Exceptions : e.until > now + MaxLocalExpiry

(* The violations that stand, as pairs of a rule and an asset. *)
Evaluate(before, inv, pins, now) ==
    {v \in {r.id : r \in Rules} \X PolicyAssets :
        /\ \E r \in Rules : r.id = v[1] /\ Fires(r, before, inv, pins, v[2])
        /\ ~Excepted(inv, now, v[1], v[2])}

-----------------------------------------------------------------------------
(* Intelligence: a set of [id, asset, digest, verdict], a digest of None   *)
(* selects every version (VersionRange has the ranges).  An organization's *)
(* policy: [denies, allows].  The digest of the record is also the SHA-256 *)
(* of the asset, that these select by.                                     *)
Matching(inv, intel, a) == {r \in intel : r.asset = a /\ Recorded(inv, a) /\ r.digest \in {None, inv[a].digest}}
Malicious(inv, intel, a) == \E r \in Matching(inv, intel, a) : r.verdict = "known-malicious"

Finding(a, level, action, verdict, ids) ==
    [asset |-> a, level |-> level, action |-> action, verdict |-> verdict, ids |-> ids]
ById(records) == {r.id : r \in records}

(* Correlate and Decide: known malicious, then the organization's denials, *)
(* then what it allows byte for byte, then other intelligence.             *)
Decide(inv, intel, org, a) ==
    IF Malicious(inv, intel, a) THEN {Finding(a, 1, "advisory", "known-malicious", ById(Matching(inv, intel, a)))}
    ELSE IF Recorded(inv, a) /\ a \in org.denies THEN {Finding(a, 2, "advisory", "needs-review", {"deny"})}
    ELSE IF Hashed(inv, a) /\ <<a, inv[a].digest>> \in org.allows THEN {Finding(a, 3, "allowed", "no-finding", {"allow"})}
    ELSE IF Matching(inv, intel, a) = {} THEN {}
    ELSE {Finding(a, 1, "advisory", "suspicious", ById(Matching(inv, intel, a)))}

Findings(inv, intel, org) == UNION {Decide(inv, intel, org, a) : a \in PolicyAssets}

(* Identity is derived from the asset and the rules or records, so a       *)
(* finding keeps it as long as those stay the same.                        *)
FindingId(f) == <<f.asset, f.level, f.ids>>
FindingIds(inv, intel, org) == {FindingId(f) : f \in Findings(inv, intel, org)}

(* runPolicyCheck: what the check adds to the violations of the document.  *)
AsViolations(findings) ==
    {<<CHOOSE i \in f.ids : TRUE, f.asset>> : f \in {g \in findings : g.level <= 3 /\ g.action # "allowed"}}

(* findingExitCode *)
ExitCode(findings) ==
    IF \E f \in findings : f.verdict = "known-malicious" \/ f.level = 2 THEN 4 ELSE IF findings # {} THEN 3 ELSE 0

=============================================================================
