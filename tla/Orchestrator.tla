---------------------------- MODULE Orchestrator ----------------------------
(***************************************************************************)
(* The collectors of one scan (internal/collector/orchestrator.go): one    *)
(* goroutine each behind a semaphore, a deadline each, and the contract    *)
(* that every target of the catalog is accounted for (coverage.go).        *)
(*                                                                         *)
(* A collector is external: it may return any report, an error or panic,   *)
(* before its deadline or after it.  The orchestrator cannot interrupt it. *)
(***************************************************************************)
EXTENDS Shared, FiniteSets, Sequences, Integers, SequencesExt

CONSTANTS
    Collectors,     \* a number per collector: its place in the sorted output
    Specs,          \* the targets each promises; None without a contract
    Reports,        \* the coverage a collector may report: sequences of [target, instance, status]
    MaxConcurrent

ASSUME OrchestratorAssumption ==
    /\ Collectors \subseteq Nat /\ IsFiniteSet(Collectors)
    /\ Collectors = DOMAIN Specs
    /\ \A c \in Collectors : Specs[c] # None => IsFiniteSet(Specs[c])
    /\ \A report \in Reports : report \in Seq(ToSet(report))
    /\ MaxConcurrent \in Nat \ {0}

VARIABLES
    opc,        \* per collector: "wait", "call", "run", "deliver" or "done"
    late,       \* the deadlines that passed while their collector ran
    answer,     \* what collectOne made of each
    sealed,     \* collectors with live sealed evidence targets
    channel,    \* the results, in the order they arrived
    collected   \* what Collect returned, or None

orchestratorVars == <<opc, late, answer, sealed, channel, collected>>

Unanswered == [status |-> "none", targets |-> <<>>, code |-> "none"]
Returned(status, report) == [status |-> status, targets |-> report, code |-> "none"]
FailedResult(code) == [status |-> "failed", targets |-> <<>>, code |-> code]

(* Mutant: a slot is given back when Collect returns. *)
BugSlotsKept == {c \in Collectors : opc[c] # "wait"}

(* The collectors that hold a slot of the semaphore. *)
Running == {c \in Collectors : opc[c] \in {"call", "run", "deliver"}}

-----------------------------------------------------------------------------
(* Mutant: a target that was not reported is taken for one that is absent. *)
BugAssumesAbsent(report, missing) == report \o SetToSeq({[target |-> t, instance |-> None, status |-> "not_present"] : t \in missing})

(* ApplyTargetContract adds a record for every target nobody reported. *)
Complement(report, missing) == report \o SetToSeq({[target |-> t, instance |-> None, status |-> "unsupported"] : t \in missing})

(* AggregateTargetStatus *)
Aggregate(targets) ==
    LET all(ok) == \A t \in ToSet(targets) : t.status \in ok
    IN  CASE targets = <<>> -> "partial"
          [] targets # <<>> /\ all({"complete", "not_present"}) -> "complete"
          [] targets # <<>> /\ all({"skipped"}) -> "skipped"
          [] targets # <<>> /\ all({"unavailable"}) -> "unavailable"
          [] OTHER -> "partial"

(* A report that names an unknown target, or one instance of a target      *)
(* twice, breaks the contract and loses everything it brought, its failure *)
(* status included.                                                        *)
Violates(c, report) ==
    \/ \E t \in ToSet(report) : t.target \notin Specs[c]
    \/ \E i, j \in DOMAIN report :
        i # j /\ report[i].target = report[j].target /\ report[i].instance = report[j].instance

Contract(c, res) ==
    IF Specs[c] = None THEN res
    ELSE IF Violates(c, res.targets) THEN FailedResult("coverage_contract_violation")
    ELSE LET targets == Complement(res.targets, Specs[c] \ {t.target : t \in ToSet(res.targets)})
         IN  [res EXCEPT !.targets = targets, !.status = IF @ = "failed" THEN @ ELSE Aggregate(targets)]

-----------------------------------------------------------------------------
(* Mutant: the semaphore is one larger than asked for. *)
BugOneMore(c) ==
    /\ opc[c] = "wait"
    /\ Cardinality(Running) <= MaxConcurrent
    /\ opc' = [opc EXCEPT ![c] = "call"]
    /\ UNCHANGED <<late, answer, sealed, channel, collected>>

(* The semaphore; who waits has no deadline yet. *)
Admit(c) ==
    /\ opc[c] = "wait"
    /\ Cardinality(Running) < MaxConcurrent
    /\ opc' = [opc EXCEPT ![c] = "call"]
    /\ UNCHANGED <<late, answer, sealed, channel, collected>>

(* collectOne starts the deadline and calls the collector, which may issue *)
(* evidence targets on its way.                                            *)
CallCollector(c) ==
    /\ opc[c] = "call"
    /\ opc' = [opc EXCEPT ![c] = "run"]
    /\ sealed' \in {sealed, sealed \cup {c}}
    /\ UNCHANGED <<late, answer, channel, collected>>

Deadline(c) ==
    /\ opc[c] = "run"
    /\ late' = late \cup {c}
    /\ UNCHANGED <<opc, answer, sealed, channel, collected>>

(* Mutant: the refused result is only replaced. *)
BugDiscardKeeps(c, code) ==
    /\ answer' = [answer EXCEPT ![c] = Contract(c, FailedResult(code))]
    /\ UNCHANGED sealed

(* The refusals of a result: discard clears what it had sealed. *)
Discard(c, code) ==
    /\ answer' = [answer EXCEPT ![c] = Contract(c, FailedResult(code))]
    /\ sealed' = sealed \ {c}

(* Mutant: a report is taken though its deadline passed. *)
BugTakesLate(c) ==
    /\ opc[c] = "run"
    /\ opc' = [opc EXCEPT ![c] = "deliver"]
    /\ \E report \in Reports : answer' = [answer EXCEPT ![c] = Contract(c, Returned("complete", report))]
    /\ UNCHANGED <<late, sealed, channel, collected>>

(* The collector returns.  Its deadline counts before its error, and both  *)
(* before its report; a deadline of its own making is an error as well.    *)
CollectorReturns(c) ==
    /\ opc[c] = "run"
    /\ opc' = [opc EXCEPT ![c] = "deliver"]
    /\ \/ Discard(c, "collector_timeout")
       \/ c \notin late /\ Discard(c, "collector_error")
       \/ /\ c \notin late
          /\ \E report \in Reports : \E status \in {"complete", "failed"} :
                /\ answer' = [answer EXCEPT ![c] = Contract(c, Returned(status, report))]
                /\ sealed' = IF Specs[c] # None /\ Violates(c, report) THEN sealed \ {c} ELSE sealed
    /\ UNCHANGED <<late, channel, collected>>

(* recover.  What the collector had sealed never came back: it is dropped  *)
(* with its stack.                                                         *)
CollectorPanics(c) ==
    /\ opc[c] = "run"
    /\ opc' = [opc EXCEPT ![c] = "deliver"]
    /\ Discard(c, "collector_panic")
    /\ UNCHANGED <<late, channel, collected>>

(* Mutant: a result is sent again. *)
BugSendsAgain(c) ==
    /\ opc[c] = "deliver"
    /\ channel' = Append(channel, c)
    /\ UNCHANGED <<opc, late, answer, sealed, collected>>

(* The channel has room for every result; the slot is free afterwards. *)
Deliver(c) ==
    /\ opc[c] = "deliver"
    /\ channel' = Append(channel, c)
    /\ opc' = [opc EXCEPT ![c] = "done"]
    /\ UNCHANGED <<late, answer, sealed, collected>>

(* Mutant: results are returned as they arrive. *)
BugArrivalOrder ==
    /\ collected = None
    /\ \A c \in Collectors : opc[c] = "done"
    /\ collected' = channel
    /\ UNCHANGED <<opc, late, answer, sealed, channel>>

Rearrangements(s) == {[i \in DOMAIN s |-> s[p[i]]] : p \in Bijection(DOMAIN s, DOMAIN s)}

(* workers.Wait, then the results are sorted by name. *)
FinishCollect ==
    /\ collected = None
    /\ \A c \in Collectors : opc[c] = "done"
    /\ \E sorted \in Rearrangements(channel) :
        /\ \A i, j \in DOMAIN sorted : i < j => sorted[i] <= sorted[j]
        /\ collected' = sorted
    /\ UNCHANGED <<opc, late, answer, sealed, channel>>

OrchestratorInit ==
    /\ opc = [c \in Collectors |-> "wait"]
    /\ late = {}
    /\ answer = [c \in Collectors |-> Unanswered]
    /\ sealed = {}
    /\ channel = <<>>
    /\ collected = None

CollectorStep(c) == Admit(c) \/ CallCollector(c) \/ CollectorReturns(c) \/ CollectorPanics(c) \/ Deliver(c)

OrchestratorNext ==
    \/ \E c \in Collectors : CollectorStep(c) \/ Deadline(c)
    \/ FinishCollect

(* Assumed of the collectors: each of them returns.  Nothing ends one that *)
(* does not.                                                               *)
OrchestratorFairness ==
    /\ \A c \in Collectors : WF_orchestratorVars(CollectorStep(c))
    /\ WF_orchestratorVars(FinishCollect)
OrchestratorSpec == OrchestratorInit /\ [][OrchestratorNext]_orchestratorVars /\ OrchestratorFairness

-----------------------------------------------------------------------------
OrchestratorTypeOK ==
    /\ opc \in [Collectors -> {"wait", "call", "run", "deliver", "done"}]
    /\ late \subseteq Collectors /\ sealed \subseteq Collectors
    /\ \A c \in Collectors : answer[c].status \in {"none", "complete", "partial", "skipped", "unavailable", "failed"}
    /\ Len(channel) <= Cardinality(Collectors)

(* No more collectors than asked for run at once, those past their         *)
(* deadline included.                                                      *)
ConcurrencyBounded == Cardinality(Running) <= MaxConcurrent

(* Collect returns one record per collector, in an order that does not     *)
(* depend on which of them was first, whatever failed.                     *)
OneRecordEach ==
    collected # None =>
        /\ ToSet(collected) = Collectors /\ Len(collected) = Cardinality(Collectors)
        /\ \A i, j \in DOMAIN collected : i < j => collected[i] < collected[j]
        /\ \A c \in Collectors : answer[c].status # "none"

(* A collector with a catalog counts as complete only if it accounted for  *)
(* every target of it itself, in time.                                     *)
CompleteIsEarned ==
    \A c \in Collectors :
        answer[c].status = "complete" /\ Specs[c] # None =>
            /\ c \notin late
            /\ {t.target : t \in ToSet(answer[c].targets)} = Specs[c]
            /\ \E report \in Reports : report = answer[c].targets

(* Sealed evidence targets outlive a collector only in a result that is    *)
(* handed on: those of a refused result are gone.                          *)
SealedOnlyAccepted ==
    \A c \in sealed : opc[c] \in {"deliver", "done"} => answer[c].code = "none"

=============================================================================
