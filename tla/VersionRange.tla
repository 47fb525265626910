----------------------------- MODULE VersionRange -----------------------------
(***************************************************************************)
(* Versions and ranges (internal/analyzer/version): the order of semantic  *)
(* versions and of Python versions, and the ranges of a rule: alternatives *)
(* of comparators, carets, tildes and wildcards, and the selectors of the  *)
(* OSV database.  A version is what the parsers make of it; an identifier  *)
(* of a prerelease is a number or a word, words are given by their rank.   *)
(***************************************************************************)
EXTENDS Shared, Integers, Sequences

CONSTANTS
    Versions,       \* [n: four numbers, precision, pre]
    Pythons,        \* [epoch, release, pre, post, dev, local]
    Ranges,         \* sequences of alternatives, those sequences of [op, v]
    Selectors,      \* OSV: sequences of comparators
    TopNumber       \* the largest value of a component (2^64 - 1)

(* What the parsers make of versions and of the comparators of a range.    *)
Identifiers == [number : BOOLEAN, v : Nat]
ParsedVersion == [n : [1 .. 4 -> 0 .. TopNumber], precision : 1 .. 4, pre : Seq(Identifiers)]
ParsedPython ==
    [epoch : Nat, release : Seq(Nat), pre : {None} \cup [kind : 0 .. 2, number : Nat],
     post : {None} \cup Nat, dev : {None} \cup Nat, local : Seq(Identifiers)]
ParsedComparator ==
    [op : {"^", "~", "x", "=", ">=", "<=", ">", "<"}, v : ParsedVersion] \cup [op : {"bad"}, v : {None}]

ASSUME VersionAssumption ==
    /\ TopNumber \in Nat /\ Versions \subseteq ParsedVersion /\ None \notin Versions /\ Pythons \subseteq ParsedPython
    /\ Ranges \subseteq Seq(Seq(ParsedComparator)) /\ Selectors \subseteq Seq(ParsedComparator)

VARIABLES
    ask,            \* what is asked: a range, a selector or three versions
    answers         \* version, or None for one that no parser takes -> [matched, supported]

versionVars == <<ask, answers>>

Sign(a, b) == IF a < b THEN -1 ELSE IF a > b THEN 1 ELSE 0
Shorter(s, t) == IF Len(s) < Len(t) THEN Len(s) ELSE Len(t)

(* The first of a sequence of comparisons that tells two things apart.     *)
FirstDifference(compared, otherwise) ==
    LET differ == {i \in DOMAIN compared : compared[i] # 0}
    IN  IF differ = {} THEN otherwise ELSE compared[CHOOSE i \in differ : \A j \in differ : i <= j]

(* The first place where two sequences differ decides, then their length.  *)
CompareSeq(s, t, C(_, _)) ==
    FirstDifference([i \in 1 .. Shorter(s, t) |-> C(s[i], t[i])], Sign(Len(s), Len(t)))

CompareIdentifier(a, b) ==
    IF a.number = b.number THEN Sign(a.v, b.v) ELSE IF a.number THEN -1 ELSE 1

(* Mutant: a prerelease comes after its release. *)
BugPrereleaseAfter(l, r) ==
    LET numbers == CompareSeq(l.n, r.n, Sign)
    IN  IF numbers # 0 THEN numbers
        ELSE IF l.pre = <<>> /\ r.pre # <<>> THEN 1
        ELSE CompareSeq(l.pre, r.pre, CompareIdentifier)

(* compare: a release comes after its prereleases.                         *)
Compare(l, r) ==
    LET numbers == CompareSeq(l.n, r.n, Sign)
    IN  IF numbers # 0 THEN numbers
        ELSE IF l.pre = <<>> /\ r.pre # <<>> THEN 1
        ELSE IF l.pre # <<>> /\ r.pre = <<>> THEN -1
        ELSE CompareSeq(l.pre, r.pre, CompareIdentifier)

(* compareRelease: missing components count as zero.                       *)
ReleaseAt(p, i) == IF i <= Len(p.release) THEN p.release[i] ELSE 0
Longer(p, q) == IF Len(p.release) > Len(q.release) THEN Len(p.release) ELSE Len(q.release)
CompareRelease(p, q) ==
    FirstDifference([i \in 1 .. Longer(p, q) |-> Sign(ReleaseAt(p, i), ReleaseAt(q, i))], 0)

(* comparePEP440Pre: a development release without a post release is below *)
(* the prereleases, those are below the release.                           *)
PreRank(p) == IF p.pre # None THEN 0 ELSE IF p.dev # None /\ p.post = None THEN -1 ELSE 1
ComparePre(p, q) ==
    IF PreRank(p) # PreRank(q) THEN Sign(PreRank(p), PreRank(q))
    ELSE IF p.pre = None \/ q.pre = None THEN 0
    ELSE IF p.pre.kind # q.pre.kind THEN Sign(p.pre.kind, q.pre.kind)
    ELSE Sign(p.pre.number, q.pre.number)

(* compareOptionalUint *)
CompareOptional(a, b, absent) ==
    IF a = None /\ b = None THEN 0 ELSE IF a = None THEN absent ELSE IF b = None THEN -absent ELSE Sign(a, b)

(* compareLocal: of two parts the number is the later one.                 *)
CompareLocal(s, t) ==
    CompareSeq(s, t, LAMBDA a, b : IF a.number = b.number THEN Sign(a.v, b.v) ELSE IF a.number THEN 1 ELSE -1)

(* comparePEP440 *)
ComparePython(p, q) ==
    FirstDifference(
        <<Sign(p.epoch, q.epoch), CompareRelease(p, q), ComparePre(p, q),
          CompareOptional(p.post, q.post, -1), CompareOptional(p.dev, q.dev, 1), CompareLocal(p.local, q.local)>>, 0)

-----------------------------------------------------------------------------
(* Numbers have 64 bits. *)
Plus1(n) == IF n = TopNumber THEN 0 ELSE n + 1

(* matchWindow *)
CaretEnd(v) ==
    [v EXCEPT !.pre = <<>>,
              !.n = CASE v.n[1] > 0 -> <<Plus1(v.n[1]), 0, 0, 0>>
                      [] v.n[1] = 0 /\ v.n[2] > 0 -> <<0, Plus1(v.n[2]), 0, 0>>
                      [] OTHER -> <<0, 0, Plus1(v.n[3]), 0>>]
TildeEnd(v) ==
    [v EXCEPT !.pre = <<>>,
              !.n = IF v.precision < 2 THEN <<Plus1(v.n[1]), 0, 0, 0>> ELSE <<v.n[1], Plus1(v.n[2]), 0, 0>>]
InWindow(v, low, end) == Compare(v, low) >= 0 /\ Compare(v, end) < 0

(* matchComparator, matchWildcard *)
Satisfies(v, c) ==
    CASE c.op = "^" -> InWindow(v, c.v, CaretEnd(c.v))
      [] c.op = "~" -> InWindow(v, c.v, TildeEnd(c.v))
      [] c.op = "x" -> \A i \in 1 .. c.v.precision : v.n[i] = c.v.n[i]
      [] c.op = "=" -> Compare(v, c.v) = 0
      [] c.op = ">=" -> Compare(v, c.v) >= 0
      [] c.op = "<=" -> Compare(v, c.v) <= 0
      [] c.op = ">" -> Compare(v, c.v) > 0
      [] c.op = "<" -> Compare(v, c.v) < 0
      [] c.op = "bad" -> FALSE

Answer(m, s) == [matched |-> m, supported |-> s]

(* matchAlternative: the first comparator that is malformed or does not    *)
(* hold decides; what follows it is not looked at.                         *)
MatchAlternative(v, alternative) ==
    LET failing == {i \in DOMAIN alternative : ~Satisfies(v, alternative[i])}
        first == CHOOSE i \in failing : \A j \in failing : i <= j
    IN  IF alternative = <<>> THEN Answer(FALSE, FALSE)
        ELSE IF failing = {} THEN Answer(TRUE, TRUE)
        ELSE Answer(FALSE, alternative[first].op # "bad")

(* Match *)
Match(v, range) ==
    LET parts == [i \in DOMAIN range |-> MatchAlternative(v, range[i])]
    IN  IF \E i \in DOMAIN parts : ~parts[i].supported THEN Answer(FALSE, FALSE)
        ELSE Answer(\E i \in DOMAIN parts : parts[i].matched, TRUE)

(* Mutant: as for a range, a comparator after one that fails is not seen.  *)
BugLazy(v, selector) == MatchAlternative(v, selector)

(* matchOSVExpression: every comparator is validated first, there are two  *)
(* at most.                                                                *)
MatchSelector(v, selector) ==
    IF Len(selector) \notin {1, 2} \/ \E i \in DOMAIN selector : selector[i].op \notin {">=", "<=", ">", "<", "="} THEN Answer(FALSE, FALSE)
    ELSE Answer(\A i \in DOMAIN selector : Satisfies(v, selector[i]), TRUE)

(* A version that cannot be parsed is in no range, and of none is it said  *)
(* to be supported.                                                        *)
Asked(M(_, _)) ==
    [v \in Versions \cup {None} |-> IF v = None THEN Answer(FALSE, FALSE) ELSE M(v, ask.of)]

Ask ==
    /\ answers = None
    /\ answers' = CASE ask.kind = "range" -> Asked(Match)
                    [] ask.kind = "selector" -> Asked(MatchSelector)
                    [] OTHER -> <<>>
    /\ UNCHANGED ask

InitVersions ==
    /\ ask \in [kind : {"range"}, of : Ranges] \cup [kind : {"selector"}, of : Selectors]
            \cup [kind : {"order"}, of : Versions \X Versions \X Versions]
            \cup [kind : {"python"}, of : Pythons \X Pythons \X Pythons]
    /\ answers = None

NextVersions == Ask

-----------------------------------------------------------------------------
Ordered(a, b, c, C(_, _)) ==
    /\ C(a, a) = 0 /\ C(a, b) = -C(b, a)
    /\ C(a, b) <= 0 /\ C(b, c) <= 0 => C(a, c) <= 0

(* Both comparisons are total orders: an inconsistent one would put a      *)
(* version inside and outside of a range depending on the way it is asked  *)
(* (compare, comparePEP440).                                               *)
VersionsAreOrdered ==
    /\ ask.kind = "order" => Ordered(ask.of[1], ask.of[2], ask.of[3], Compare)
    /\ ask.kind = "python" => Ordered(ask.of[1], ask.of[2], ask.of[3], ComparePython)

Between(u, v, w) == Compare(u, v) <= 0 /\ Compare(v, w) <= 0

(* One alternative matches an interval: no version between two that match  *)
(* is left out; a caret or tilde window holds the version it is drawn      *)
(* from, if that can still be counted up; a selector is supported or not   *)
(* whatever the version, if that can be parsed (matchAlternative,          *)
(* matchWindow, validOSVComparators).                                      *)
RangesAreIntervals ==
    answers # None =>
        /\ ask.kind = "range" /\ Len(ask.of) = 1 =>
            \A u, v, w \in Versions : answers[u].matched /\ answers[w].matched /\ Between(u, v, w) => answers[v].matched
        /\ ask.kind = "range" /\ Len(ask.of) = 1 =>
            \A c \in {ask.of[1][i] : i \in DOMAIN ask.of[1]} :
                c.op \in {"^", "~"} /\ Len(ask.of[1]) = 1 /\ c.v \in Versions /\ (\A i \in 1 .. 4 : c.v.n[i] < TopNumber)
                => answers[c.v].matched
        /\ ask.kind = "selector" => \A u, v \in Versions : answers[u].supported = answers[v].supported

=============================================================================
