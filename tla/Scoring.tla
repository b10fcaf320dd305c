-------------------------------- MODULE Scoring --------------------------------
(***************************************************************************)
(* scoreSeeded (packages/eval-runner/src/score.ts, evals/scoring.md        *)
(* section A): the findings an analysis raised are matched one-to-one, best *)
(* pairs first, to the findings its case expects, and the matching is      *)
(* turned into the five metrics and the verdict of the run.                *)
(*                                                                         *)
(* Ratios are in thousandths, as round3 leaves them, and qualities in      *)
(* tenths.  An ID is its place among the IDs of its list: what the score   *)
(* uses of it is the order.                                                *)
(***************************************************************************)
EXTENDS Naturals, FiniteSets

CONSTANTS
  Type, Route, Target,  \* of findings: their types, routes, and what they affect
  Expectations,         \* the sets of expected findings to score against
  Analyses,             \* the sets of findings to score
  Limits                \* thresholds.yaml, release of the step, seeded

VARIABLES
  expected, \* the expected findings of the case
  actual,   \* the findings of the analysis that are not withdrawn
  todo,     \* the candidate pairs the greedy loop has not looked at
  match,    \* the pairs it has assigned
  result    \* NoScore, or the metrics and the verdict

vars == <<expected, actual, todo, match, result>>

\* SEV: minor, major, blocker; an unknown severity counts as 0.
Severity == 0..3
Blocker == 3
Expectation == [id : Nat, types : SUBSET Type, affects : SUBSET Target,
                min : Severity \ {0}, routes : SUBSET Route]
Finding == [n : Nat, prefix : {0, 1}, type : Type, severity : Severity, route : Route,
            affects : SUBSET Target, withdrawn : BOOLEAN]

\* IDs are unique in a case and in an artifact, and a case expects something.
ASSUME ExpectationsAssumption ==
  \A X \in Expectations : /\ X \subseteq Expectation /\ IsFiniteSet(X) /\ X # {}
                          /\ \A e, f \in X : e.id = f.id => e = f
ASSUME AnalysesAssumption ==
  \A F \in Analyses : /\ F \subseteq Finding /\ IsFiniteSet(F)
                      /\ \A a, b \in F : a.n = b.n /\ a.prefix = b.prefix => a = b
ASSUME LimitsAssumption ==
  Limits \in [recall_blocker : Nat, recall_all : Nat, severity : Nat, route : Nat, noise : Nat]

TypeFits(p) == p.a.type \in p.e.types
SeverityFits(p) == p.a.severity >= p.e.min
RouteFits(p) == p.a.route \in p.e.routes

Quality(p) == (IF TypeFits(p) THEN 5 ELSE 0) + (IF SeverityFits(p) THEN 3 ELSE 0)
                + (IF RouteFits(p) THEN 2 ELSE 0)

\* A pair is a candidate when the finding affects something the expected one does.
Candidates(X, F) == {p \in [e : X, a : F] : p.e.affects \cap p.a.affects # {}}

\* Faulty: ties go to the higher number.
BeforeHigher(p, q) ==
  \/ Quality(p) > Quality(q)
  \/ /\ Quality(p) = Quality(q)
     /\ \/ p.a.n > q.a.n
        \/ p.a.n = q.a.n /\ p.e.id > q.e.id
        \/ p.a.n = q.a.n /\ p.e.id = q.e.id /\ p.a.prefix > q.a.prefix

\* The order of the sort: quality, then the lower AF number, then the higher EF and AF IDs.
Before(p, q) ==
  \/ Quality(p) > Quality(q)
  \/ /\ Quality(p) = Quality(q)
     /\ \/ p.a.n < q.a.n
        \/ p.a.n = q.a.n /\ p.e.id > q.e.id
        \/ p.a.n = q.a.n /\ p.e.id = q.e.id /\ p.a.prefix > q.a.prefix

Clash(p, q) == p.e = q.e \/ p.a = q.a

\* round3 of a ratio.
Round3(n, d) == (2000 * n + d) \div (2 * d)
Ratio(n, d, empty) == IF d = 0 THEN empty ELSE Round3(n, d)

\* Credit is 1 for a matched pair with a fitting type and 1/2 for another, here in halves.
Halves(m) == Cardinality(m) + Cardinality({p \in m : TypeFits(p)})
\* Faulty: an under-rated blocker counts as found.
FoundBlockers(m) == {p \in m : p.e.min = Blocker}

RatedBlockers(m) == {p \in m : p.e.min = Blocker /\ SeverityFits(p)}
Extras(F, m) == {a \in F : \A p \in m : p.a # a}

Metrics(X, F, m) ==
  [recall_blocker |->
     Ratio(Cardinality(RatedBlockers(m)), Cardinality({e \in X : e.min = Blocker}), 1000),
   recall_all |-> Round3(Halves(m), 2 * Cardinality(X)),
   severity |-> Ratio(Cardinality({p \in m : SeverityFits(p)}), Cardinality(m), 0),
   route |-> Ratio(Cardinality({p \in m : RouteFits(p)}), Cardinality(m), 0),
   noise |-> Ratio(Cardinality(Extras(F, m)), Cardinality(F), 0)]

Metric == {"recall_blocker", "recall_all", "severity", "route", "noise"}

\* Faulty: noise has a lower limit like the others.
PassesNoisy(metrics) == \A k \in Metric : metrics[k] >= (IF k = "noise" THEN 0 ELSE Limits[k])

\* seededChecks: noise has an upper limit, the others a lower one.
Passes(metrics) ==
  \A k \in Metric : IF k = "noise" THEN metrics[k] <= Limits[k] ELSE metrics[k] >= Limits[k]

NoScore == [metrics |-> "none"]

---------------------------------------------------------------------------
\* The case and the artifact are read; withdrawn findings do not count.
Init ==
  /\ expected \in Expectations
  /\ \E F \in Analyses : actual = {a \in F : ~a.withdrawn}
  /\ todo = Candidates(expected, actual)
  /\ match = {}
  /\ result = NoScore

\* One turn of the greedy loop.
Assign(p) ==
  /\ \A q \in todo \ {p} : Before(p, q)
  /\ todo' = todo \ {p}
  /\ match' = IF \E m \in match : Clash(m, p) THEN match ELSE match \cup {p}
  /\ UNCHANGED <<expected, actual, result>>

Score ==
  /\ todo = {} /\ result = NoScore
  /\ LET m == Metrics(expected, actual, match)
     IN  result' = [metrics |-> m, pass |-> Passes(m)]
  /\ UNCHANGED <<expected, actual, todo, match>>

Next == (\E p \in todo : Assign(p)) \/ Score

Spec == Init /\ [][Next]_vars

---------------------------------------------------------------------------
Scored == result # NoScore

\* No expected finding and no actual one is in two pairs, however many candidates they share.
OneToOne == \A p, q \in match : p.e = q.e \/ p.a = q.a => p = q

\* scoring.md section A, step 4, "taking the highest quality first. Ties go to the lower AF
\* number": a candidate that was not assigned lost its expected or its actual finding to a
\* pair of higher quality, or of the same quality and a number not above its own.
Beats(p, c) ==
  Quality(p) > Quality(c) \/ (Quality(p) = Quality(c) /\ p.a.n <= c.a.n)
BestFirst ==
  Scored => \A c \in Candidates(expected, actual) :
              c \in match \/ \E p \in match : Clash(p, c) /\ Beats(p, c)

\* A run whose recall.blocker is full found every expected blocker and rated it one: "an
\* under-rated blocker wouldn't stop the pipeline, so it counts as missed".
BlockersStopThePipeline ==
  Scored => (result.metrics.recall_blocker = 1000 <=>
               \A e \in expected : e.min = Blocker =>
                 \E p \in match : p.e = e /\ p.a.severity = Blocker)

\* A run that passes meets the limits with the exact ratios, not only with the rounded ones,
\* and an analysis that finds nothing fails whatever the case expects.
PassIsEarned ==
  Scored /\ result.pass =>
    /\ match # {}
    /\ 1000 * Halves(match) >= Limits.recall_all * 2 * Cardinality(expected)
    /\ 1000 * Cardinality({p \in match : SeverityFits(p)}) >= Limits.severity * Cardinality(match)
    /\ 1000 * Cardinality({p \in match : RouteFits(p)}) >= Limits.route * Cardinality(match)
    /\ 1000 * (Cardinality(actual) - Cardinality(match)) <= Limits.noise * Cardinality(actual)
=============================================================================
