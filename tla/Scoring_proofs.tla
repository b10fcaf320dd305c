---------------------------- MODULE Scoring_proofs -----------------------------
(***************************************************************************)
(* For every case and every analysis: the greedy loop of scoreSeeded pairs *)
(* one-to-one and takes the best pairs first, a missed blocker stops the   *)
(* pipeline, and a pass is earned.  For every reference and every run: the *)
(* two loops of scoreGolden assign one-to-one and nearest first, merge only*)
(* into what they assigned as an equivalent, and leave no requirement that *)
(* has an equivalent without a decision.                                   *)
(***************************************************************************)
EXTENDS Scoring, Alignment, Suite, Lemmas, FiniteSetTheorems, TLAPS

\* What the loop took comes before what it has not looked at, and what it passed over
\* clashes with something it took that comes before it.
Taken == \A p \in match, c \in todo : Before(p, c)
PassedOver ==
  \A c \in Candidates(expected, actual) :
    c \in todo \/ c \in match \/ \E p \in match : Clash(p, c) /\ Before(p, c)

\* The verdict is that of the match.
Outcome ==
  LET m == Metrics(expected, actual, match)
  IN  [metrics |-> m, pass |-> Passes(m)]

IInv ==
  /\ expected \in Expectations
  /\ \E F \in Analyses : actual \subseteq F
  /\ actual \subseteq Finding
  /\ match \subseteq Candidates(expected, actual)
  /\ todo \subseteq Candidates(expected, actual)
  /\ OneToOne /\ Taken /\ PassedOver
  /\ Scored => todo = {} /\ result = Outcome

LEMMA IInvInit == Init => IInv
BY AnalysesAssumption DEF Init, IInv, OneToOne, Taken, PassedOver, Scored

LEMMA AssignStep ==
  ASSUME IInv, NEW p \in todo, Assign(p)
  PROVE  IInv'
<1>1. /\ todo' = todo \ {p} /\ expected' = expected /\ actual' = actual
      /\ result' = result
      /\ \A q \in todo \ {p} : Before(p, q)
      /\ match' = IF \E m \in match : Clash(m, p) THEN match ELSE match \cup {p}
  BY DEF Assign
<1>2. match' \subseteq match \cup {p} /\ match \subseteq match'
  BY <1>1
<1>3. /\ match' \subseteq Candidates(expected, actual)'
      /\ todo' \subseteq Candidates(expected, actual)'
  BY <1>1, <1>2 DEF IInv, Candidates
<1>4. OneToOne'
  <2>1. CASE \E m \in match : Clash(m, p)
    BY <1>1, <2>1 DEF IInv, OneToOne
  <2>2. CASE ~\E m \in match : Clash(m, p)
    <3> SUFFICES ASSUME NEW x \in match', NEW y \in match', x.e = y.e \/ x.a = y.a
                 PROVE  x = y
      BY DEF OneToOne
    <3>1. (x \in match \/ x = p) /\ (y \in match \/ y = p)
      BY <1>2
    <3> QED BY <3>1, <2>2 DEF IInv, OneToOne, Clash
  <2> QED BY <2>1, <2>2
<1>5. Taken'
  BY <1>1, <1>2 DEF IInv, Taken, Before
<1>6. PassedOver'
  <2> SUFFICES ASSUME NEW c \in Candidates(expected, actual)
               PROVE  \/ c \in todo' \/ c \in match'
                      \/ \E q \in match' : Clash(q, c) /\ Before(q, c)
    BY <1>1 DEF PassedOver, Candidates, Clash, Before
  <2>1. CASE c = p
    BY <1>1, <1>2, <2>1 DEF IInv, Taken
  <2>2. CASE c # p
    BY <1>1, <1>2, <2>2 DEF IInv, PassedOver
  <2> QED BY <2>1, <2>2
<1>7. ~Scored /\ ~Scored'
  BY <1>1 DEF IInv, Scored
<1> QED BY <1>1, <1>3, <1>4, <1>5, <1>6, <1>7 DEF IInv

LEMMA IInvStep == IInv /\ [Next]_vars => IInv'
<1> SUFFICES ASSUME IInv, [Next]_vars PROVE IInv'
  OBVIOUS
<1>1. ASSUME NEW p \in todo, Assign(p) PROVE IInv'
  BY <1>1, AssignStep
<1>2. CASE Score
  BY <1>2 DEF Outcome, IInv, Score, Candidates, OneToOne, Taken, PassedOver, Scored, Clash, Before
<1>3. CASE UNCHANGED vars
  BY <1>3 DEF Outcome, IInv, vars, Candidates, OneToOne, Taken, PassedOver, Scored, Clash, Before
<1> QED BY <1>1, <1>2, <1>3 DEF Next

LEMMA IInvHolds == Spec => []IInv
BY IInvInit, IInvStep, PTL DEF Spec

\* No expected finding and no actual one is matched twice.
THEOREM OneToOneHolds == Spec => []OneToOne
<1>1. IInv => OneToOne
  BY DEF IInv
<1> QED BY <1>1, IInvHolds, PTL

\* A candidate that was not matched lost to a better pair, or to one as good with a finding
\* of no higher number.
THEOREM BestFirstHolds == Spec => []BestFirst
<1>1. IInv => BestFirst
  <2> SUFFICES ASSUME IInv, Scored, NEW c \in Candidates(expected, actual), c \notin match
               PROVE  \E p \in match : Clash(p, c) /\ Beats(p, c)
    BY DEF BestFirst
  <2>1. PICK p \in match : Clash(p, c) /\ Before(p, c)
    BY DEF IInv, PassedOver
  <2>2. p.a.n \in Nat /\ c.a.n \in Nat
    BY DEF IInv, Candidates, Finding
  <2> QED BY <2>1, <2>2 DEF Beats, Before
<1> QED BY <1>1, IInvHolds, PTL
---------------------------------------------------------------------------
LEMMA Division ==
  ASSUME NEW n \in Nat, NEW d \in Nat \ {0}
  PROVE  /\ n \div d \in Nat
         /\ d * (n \div d) <= n
         /\ n < d * (n \div d) + d
OBVIOUS

LEMMA Rounding ==
  ASSUME NEW n \in Nat, NEW d \in Nat \ {0}
  PROVE  /\ Round3(n, d) \in Nat
         /\ 2 * (d * Round3(n, d)) <= 2000 * n + d
         /\ 2000 * n + d < 2 * (d * Round3(n, d)) + 2 * d
<1> DEFINE x == 2000 * n + d
           y == 2 * d
           q == x \div y
<1>1. x \in Nat /\ y \in Nat \ {0}
  OBVIOUS
<1>2. q \in Nat /\ y * q <= x /\ x < y * q + y
  <2> HIDE DEF x, y
  <2> QED BY <1>1, Division
<1>3. \A r \in Nat : y * r = 2 * (d * r)
  OBVIOUS
<1>4. Round3(n, d) = q
  BY DEF Round3
<1> HIDE DEF q
<1> QED BY <1>2, <1>3, <1>4

\* A rounded ratio that reaches a coarse limit reaches it exactly, when it is a ratio of few.
LEMMA RoundedUp ==
  ASSUME NEW n \in Nat, NEW d \in Nat, 0 < d, d < 100, NEW k \in Nat
  PROVE  /\ Round3(n, d) >= 50 * k => 1000 * n >= (50 * k) * d
         /\ Round3(n, d) <= 50 * k => 1000 * n <= (50 * k) * d
<1> DEFINE r == Round3(n, d)
           z == d * r
           w == d * k
<1>0. d \in Nat \ {0}
  OBVIOUS
<1>1. /\ r \in Nat
      /\ 2 * z <= 2000 * n + d
      /\ 2000 * n + d < 2 * z + 2 * d
  <2>1. r \in Nat
    BY <1>0, Rounding
  <2>2. 2 * z <= 2000 * n + d
    BY <1>0, Rounding
  <2>3. 2000 * n + d < 2 * z + 2 * d
    BY <1>0, Rounding
  <2> HIDE DEF r, z
  <2> QED BY <2>1, <2>2, <2>3
<1>2. z \in Nat /\ w \in Nat /\ (50 * k) * d = 50 * w
  BY <1>1
<1>3. (r >= 50 * k => z >= 50 * w) /\ (r <= 50 * k => z <= 50 * w)
  <2> HIDE DEF r
  <2> QED BY <1>1, SMTT(30)
<1>4. SUFFICES /\ r >= 50 * k => 1000 * n >= 50 * w
               /\ r <= 50 * k => 1000 * n <= 50 * w
  BY <1>2
<1> HIDE DEF r, z, w
<1> QED BY <1>1, <1>2, <1>3

\* A ratio that is rounded to one is one, when it is of fewer than 2000.
LEMMA RoundedToOne ==
  ASSUME NEW n \in Nat, NEW d \in Nat, 0 < d, d < 2000, n <= d
  PROVE  Round3(n, d) = 1000 <=> n = d
<1> DEFINE r == Round3(n, d)
           z == d * r
<1>0. d \in Nat \ {0}
  OBVIOUS
<1>1. /\ r \in Nat
      /\ 2 * z <= 2000 * n + d
      /\ 2000 * n + d < 2 * z + 2 * d
  <2>1. r \in Nat
    BY <1>0, Rounding
  <2>2. 2 * z <= 2000 * n + d
    BY <1>0, Rounding
  <2>3. 2000 * n + d < 2 * z + 2 * d
    BY <1>0, Rounding
  <2> HIDE DEF r, z
  <2> QED BY <2>1, <2>2, <2>3
<1>2. ASSUME r = 1000 PROVE n = d
  <2>1. z = 1000 * d
    BY <1>2
  <2> HIDE DEF r, z
  <2> QED BY <1>1, <2>1
<1>3. ASSUME n = d PROVE r = 1000
  <2> HIDE DEF r
  <2>1. \A q \in Nat : q >= 1001 => d * q >= 1001 * d
    OBVIOUS
  <2>2. \A q \in Nat : q <= 999 => d * q <= 999 * d
    OBVIOUS
  <2> QED BY <1>1, <1>3, <2>1, <2>2
<1> QED BY <1>2, <1>3

\* As many as a set of pairs has there are of what stands first, and of what stands second,
\* in them, when no two pairs share it.
LEMMA Counted ==
  ASSUME NEW m, IsFiniteSet(m), \A p, q \in m : p.e = q.e \/ p.a = q.a => p = q
  PROVE  /\ IsFiniteSet({p.e : p \in m}) /\ Cardinality({p.e : p \in m}) = Cardinality(m)
         /\ IsFiniteSet({p.a : p \in m}) /\ Cardinality({p.a : p \in m}) = Cardinality(m)
<1>1. [p \in m |-> p.e] \in Bijection(m, {p.e : p \in m})
  BY DEF Bijection, Injection, Surjection, IsInjective
<1>2. [p \in m |-> p.a] \in Bijection(m, {p.a : p \in m})
  BY DEF Bijection, Injection, Surjection, IsInjective
<1> QED BY <1>1, <1>2, FS_Bijection DEF ExistsBijection


\* Every expected finding and every actual one that is matched is so once.
LEMMA Sizes ==
  ASSUME IInv
  PROVE  /\ IsFiniteSet(expected) /\ expected # {} /\ IsFiniteSet(actual) /\ IsFiniteSet(match)
         /\ Cardinality(match) <= Cardinality(expected)
         /\ Cardinality(match) <= Cardinality(actual)
         /\ Cardinality(Extras(actual, match)) = Cardinality(actual) - Cardinality(match)
<1>1. IsFiniteSet(expected) /\ expected # {} /\ IsFiniteSet(actual)
  BY ExpectationsAssumption, AnalysesAssumption, FS_Subset DEF IInv
<1>2. \A p \in match : p.e \in expected /\ p.a \in actual
  BY DEF IInv, Candidates
<1>3. [p \in match |-> p.e] \in Injection(match, expected)
  BY <1>2 DEF IInv, OneToOne, Injection, IsInjective
<1>4. IsFiniteSet(match) /\ Cardinality(match) <= Cardinality(expected)
  BY <1>1, <1>3, FS_Injection
<1> DEFINE used == {p.a : p \in match}
<1>5. IsFiniteSet(used) /\ Cardinality(used) = Cardinality(match)
  BY <1>4, Counted DEF IInv, OneToOne
<1>6. used \subseteq actual /\ actual \cap used = used
  BY <1>2
<1>7. Extras(actual, match) = actual \ used
  BY DEF Extras
<1>8. Cardinality(actual \ used) = Cardinality(actual) - Cardinality(used)
  <2> HIDE DEF used
  <2>1. Cardinality(actual \ used) = Cardinality(actual) - Cardinality(actual \cap used)
    BY <1>1, FS_Difference
  <2> QED BY <1>6, <2>1
<1>9. Cardinality(used) <= Cardinality(actual)
  <2> HIDE DEF used
  <2> QED BY <1>1, <1>6, FS_Subset
<1> QED BY <1>1, <1>4, <1>5, <1>7, <1>8, <1>9

\* Thousandths tell all blockers found from one missed only among fewer than 2000 of them.
FewBlockers == \A X \in Expectations : Cardinality({e \in X : e.min = Blocker}) < 2000

\* A run with a full recall.blocker found every expected blocker and rated it a blocker, and
\* only such a run has it, for every case the thousandths are fine enough for.
THEOREM BlockersStopThePipelineHolds ==
  ASSUME FewBlockers
  PROVE  Spec => []BlockersStopThePipeline
<1>1. IInv => BlockersStopThePipeline
  <2> SUFFICES ASSUME IInv, Scored
               PROVE  result.metrics.recall_blocker = 1000 <=>
                        \A e \in expected : e.min = Blocker =>
                          \E p \in match : p.e = e /\ p.a.severity = Blocker
    BY DEF BlockersStopThePipeline
  <2> DEFINE B == {e \in expected : e.min = Blocker}
             rated == RatedBlockers(match)
             found == {p.e : p \in rated}
             all == \A e \in expected : e.min = Blocker =>
                      \E p \in match : p.e = e /\ p.a.severity = Blocker
             recall == result.metrics.recall_blocker
  <2>1. IsFiniteSet(expected) /\ IsFiniteSet(match)
    BY Sizes
  <2>2. /\ IsFiniteSet(B) /\ Cardinality(B) \in Nat /\ Cardinality(B) < 2000
        /\ B = {} <=> Cardinality(B) = 0
    <3>1. B \in SUBSET expected /\ Cardinality(B) < 2000
      BY FewBlockers DEF IInv, FewBlockers
    <3> HIDE DEF B
    <3> QED BY <2>1, <3>1, FS_Subset, FS_CardinalityType, FS_EmptySet
  <2>3. \A p \in match : p.e \in expected /\ p.a.severity \in Severity
    BY DEF IInv, Candidates, Finding
  <2>4. found \subseteq B /\ rated \subseteq match
    BY <2>3 DEF RatedBlockers
  <2>5. found = B <=> all
    <3>1. \A p \in match : p \in rated <=> p.e.min = Blocker /\ p.a.severity = Blocker
      BY <2>3 DEF RatedBlockers, SeverityFits, Blocker, Severity
    <3> QED BY <2>3, <2>4, <3>1
  <2>6. IsFiniteSet(found) /\ Cardinality(found) = Cardinality(rated) /\ Cardinality(rated) \in Nat
    <3>1. IsFiniteSet(rated) /\ \A p, q \in rated : p.e = q.e \/ p.a = q.a => p = q
      BY <2>1, <2>4, FS_Subset DEF IInv, OneToOne
    <3>2. IsFiniteSet(found) /\ Cardinality(found) = Cardinality(rated)
      <4> HIDE DEF rated
      <4> QED BY <3>1, Counted
    <3> HIDE DEF rated, found
    <3> QED BY <3>1, <3>2, FS_CardinalityType
  <2>7. Cardinality(found) <= Cardinality(B) /\ (Cardinality(found) = Cardinality(B) <=> found = B)
    <3> HIDE DEF found, B
    <3> QED BY <2>2, <2>4, FS_Subset
  <2>8. recall = IF Cardinality(B) = 0 THEN 1000 ELSE Round3(Cardinality(rated), Cardinality(B))
    BY DEF IInv, Outcome, Metrics, Ratio
  <2>9. recall = 1000 <=> Cardinality(rated) = Cardinality(B)
    <3> HIDE DEF B, rated, found, recall
    <3>1. CASE Cardinality(B) = 0
      BY <2>2, <2>6, <2>7, <2>8, <3>1
    <3>2. CASE Cardinality(B) # 0
      <4>1. 0 < Cardinality(B) /\ Cardinality(rated) <= Cardinality(B)
        BY <2>2, <2>6, <2>7, <3>2
      <4>2. Cardinality(rated) \in Nat /\ Cardinality(B) \in Nat /\ Cardinality(B) < 2000
        BY <2>2, <2>6
      <4> QED BY <2>8, <3>2, <4>1, <4>2, RoundedToOne
    <3> QED BY <3>1, <3>2
  <2>10. recall = 1000 <=> all
    <3> HIDE DEF B, rated, found, recall, all
    <3> QED BY <2>5, <2>6, <2>7, <2>9
  <2> QED BY <2>10
<1> QED BY <1>1, IInvHolds, PTL

\* Limits as thresholds.yaml has them, in steps of 0.05 and with some recall asked for, and
\* cases and analyses that thousandths are fine enough for.
CoarseLimits ==
  /\ \A k \in Metric : \E n \in Nat : Limits[k] = 50 * n
  /\ Limits.recall_all > 0
FewFindings ==
  /\ \A X \in Expectations : Cardinality(X) < 50
  /\ \A F \in Analyses : Cardinality(F) < 100

\* A ratio of few that meets a coarse limit when rounded meets it.
LEMMA LimitMet ==
  ASSUME NEW n \in Nat, NEW d \in Nat, 0 < d, d < 100, NEW limit, NEW k \in Nat, limit = 50 * k
  PROVE  /\ Round3(n, d) >= limit => 1000 * n >= limit * d
         /\ Round3(n, d) <= limit => 1000 * n <= limit * d
BY RoundedUp

\* A run that passes meets every limit exactly, and found something, for every such case,
\* analysis and table of limits.
THEOREM PassIsEarnedHolds ==
  ASSUME CoarseLimits, FewFindings
  PROVE  Spec => []PassIsEarned
<1>1. IInv => PassIsEarned
  <2> SUFFICES ASSUME IInv, Scored, result.pass
               PROVE  /\ match # {}
                      /\ 1000 * Halves(match) >= Limits.recall_all * 2 * Cardinality(expected)
                      /\ 1000 * Cardinality({p \in match : SeverityFits(p)})
                           >= Limits.severity * Cardinality(match)
                      /\ 1000 * Cardinality({p \in match : RouteFits(p)})
                           >= Limits.route * Cardinality(match)
                      /\ 1000 * (Cardinality(actual) - Cardinality(match))
                           <= Limits.noise * Cardinality(actual)
    BY DEF PassIsEarned
  <2> DEFINE M == Metrics(expected, actual, match)
             c == Cardinality(match)
             x == Cardinality(expected)
             a == Cardinality(actual)
             typed == {p \in match : TypeFits(p)}
             severe == {p \in match : SeverityFits(p)}
             routed == {p \in match : RouteFits(p)}
             extra == Cardinality(Extras(actual, match))
  <2>1. Passes(M)
    BY DEF IInv, Outcome
  <2>2. /\ M.recall_all = Round3(Halves(match), 2 * x)
        /\ M.severity = IF c = 0 THEN 0 ELSE Round3(Cardinality(severe), c)
        /\ M.route = IF c = 0 THEN 0 ELSE Round3(Cardinality(routed), c)
        /\ M.noise = IF a = 0 THEN 0 ELSE Round3(extra, a)
    BY DEF Metrics, Ratio
  <2>3. /\ M.recall_all >= Limits.recall_all /\ M.severity >= Limits.severity
        /\ M.route >= Limits.route /\ M.noise <= Limits.noise
    <3> HIDE DEF M
    <3> QED BY <2>1 DEF Passes, Metric
  <2>4. /\ x \in Nat /\ 0 < x /\ x < 50 /\ a \in Nat /\ a < 100 /\ c \in Nat
        /\ c <= x /\ c <= a /\ extra = a - c /\ (match = {} <=> c = 0)
    <3>1. x < 50 /\ a < 100
      <4>1. PICK F \in Analyses : actual \subseteq F
        BY DEF IInv
      <4>2. a <= Cardinality(F) /\ IsFiniteSet(F) /\ a \in Nat
        BY <4>1, AnalysesAssumption, FS_Subset, FS_CardinalityType
      <4>3. Cardinality(F) \in Nat /\ Cardinality(F) < 100
        BY <4>2, FewFindings, FS_CardinalityType DEF FewFindings
      <4> QED BY <4>2, <4>3, FewFindings DEF FewFindings, IInv
    <3>2. x \in Nat /\ a \in Nat /\ c \in Nat /\ x # 0 /\ (match = {} <=> c = 0)
      BY Sizes, FS_CardinalityType, FS_EmptySet
    <3> HIDE DEF x, a, c, extra
    <3>3. c <= x /\ c <= a /\ extra = a - c
      BY Sizes DEF x, a, c, extra
    <3> QED BY <3>1, <3>2, <3>3
  <2>5. /\ Cardinality(typed) \in Nat /\ Cardinality(severe) \in Nat
        /\ Cardinality(routed) \in Nat
    <3>1. typed \in SUBSET match /\ severe \in SUBSET match /\ routed \in SUBSET match
      OBVIOUS
    <3> HIDE DEF typed, severe, routed
    <3> QED BY <3>1, Sizes, FS_Subset, FS_CardinalityType
  <2>6. Halves(match) = c + Cardinality(typed)
    BY DEF Halves
  <2>7. /\ Limits.recall_all \in Nat /\ Limits.recall_all > 0 /\ Limits.severity \in Nat
        /\ Limits.route \in Nat /\ Limits.noise \in Nat
    BY LimitsAssumption, CoarseLimits DEF CoarseLimits
  <2>8. PICK k1 \in Nat, k2 \in Nat, k3 \in Nat, k4 \in Nat :
          /\ Limits.recall_all = 50 * k1 /\ Limits.severity = 50 * k2
          /\ Limits.route = 50 * k3 /\ Limits.noise = 50 * k4
    BY CoarseLimits DEF CoarseLimits, Metric
  <2>9. match = {} => Halves(match) = 0
    <3>1. match = {} => typed = {}
      OBVIOUS
    <3> QED BY <2>4, <2>6, <3>1, FS_EmptySet
  <2> DEFINE h == Halves(match)
  <2>10. h \in Nat
    BY <2>4, <2>5, <2>6
  <2> HIDE DEF M, c, x, a, typed, severe, routed, extra, h
  <2>11. 1000 * h >= Limits.recall_all * (2 * x)
    <3>1. 2 * x \in Nat /\ 0 < 2 * x /\ 2 * x < 100 /\ Round3(h, 2 * x) >= Limits.recall_all
      BY <2>2, <2>3, <2>4 DEF h
    <3> DEFINE y == 2 * x
    <3> HIDE DEF y
    <3> QED BY <2>8, <2>10, <3>1, LimitMet DEF y
  <2>12. 1000 * h >= Limits.recall_all * 2 * x
    <3>1. \A l, z \in Nat : l * (2 * z) = l * 2 * z
      OBVIOUS
    <3> QED BY <2>4, <2>7, <2>11, <3>1
  <2>13. match # {}
    <3>1. \A l, z \in Nat : l > 0 /\ z > 0 => l * (2 * z) > 0
      OBVIOUS
    <3>2. Limits.recall_all * (2 * x) > 0
      BY <2>4, <2>7, <3>1
    <3>3. h # 0
      BY <2>7, <2>10, <2>11, <3>2, <2>4
    <3> QED BY <2>9, <3>3 DEF h
  <2>14. 0 < c /\ c < 100 /\ 0 < a
    BY <2>4, <2>13
  <2>15. 1000 * Cardinality(severe) >= Limits.severity * c
    BY <2>2, <2>3, <2>4, <2>5, <2>8, <2>14, LimitMet
  <2>16. 1000 * Cardinality(routed) >= Limits.route * c
    BY <2>2, <2>3, <2>4, <2>5, <2>8, <2>14, LimitMet
  <2>17. 1000 * extra <= Limits.noise * a
    <3>1. extra \in Nat /\ Round3(extra, a) <= Limits.noise
      BY <2>2, <2>3, <2>4, <2>14
    <3> QED BY <2>4, <2>8, <2>14, <3>1, LimitMet
  <2> QED BY <2>4, <2>12, <2>13, <2>15, <2>16, <2>17 DEF c, x, a, severe, routed, h
<1> QED BY <1>1, IInvHolds, PTL

---------------------------------------------------------------------------
\* The golden score.

\* A candidate shares a requirement with an assigned pair that is it or comes before it.
Dealt(c) ==
  \E d \in decided : /\ d.kind # "merged"
                     /\ d.pair.r = c.r \/ d.pair.a = c.a
                     /\ d.pair = c \/ Ahead(d.pair, c)

\* What a decision says of its pair.
KindsFit ==
  \A d \in decided : /\ d.pair \in Alignable(R, A)
                     /\ d.kind \in {"equivalent", "partial", "merged"}
                     /\ d.kind = "partial" <=> ~Equivalent(d.pair)

Assigning ==
  /\ \A d \in decided : d.kind # "merged" /\ \A c \in pairs : Ahead(d.pair, c)
  /\ \A c \in Alignable(R, A) : c \in pairs \/ Dealt(c)

Merging == \A c \in Alignable(R, A) : Equivalent(c) => c \in pairs \/ HasDecision(c.r)

AlignmentInv ==
  /\ pass \in {"assign", "merge", "scored"}
  /\ pairs \subseteq Alignable(R, A)
  /\ KindsFit /\ AlignedOneToOne /\ MergedIntoMatched
  /\ pass = "assign" => Assigning
  /\ pass # "assign" => Merging /\ \A c \in Alignable(R, A) : Dealt(c)
  /\ pass = "scored" => pairs = {}
  /\ pass = "scored" /\ verdict.pass => \A r \in R : r.priority = "must" => HasDecision(r)

LEMMA AlignmentInvInit == AlignmentInit => AlignmentInv
BY DEF AlignmentInit, AlignmentInv, KindsFit, AlignedOneToOne, MergedIntoMatched, Assigning

LEMMA AlignStep ==
  ASSUME AlignmentInv, NEW p \in pairs, Align(p)
  PROVE  AlignmentInv'
<1> DEFINE new == [pair |-> p, kind |-> IF Equivalent(p) THEN "equivalent" ELSE "partial"]
<1>1. /\ pass = "assign" /\ pass' = pass /\ R' = R /\ A' = A /\ pairs' = pairs \ {p}
      /\ \A q \in pairs \ {p} : Ahead(p, q)
      /\ decided' = IF HasDecision(p.r) \/ Used(p.a) THEN decided ELSE decided \cup {new}
  BY DEF Align, First
<1>2. /\ decided \subseteq decided' /\ decided' \subseteq decided \cup {new}
      /\ p \in Alignable(R, A) /\ Alignable(R, A)' = Alignable(R, A)
  BY <1>1 DEF AlignmentInv, Alignable
<1>3. new.pair = p /\ new.kind \in {"equivalent", "partial"} /\ (new.kind = "partial" <=> ~Equivalent(p))
  OBVIOUS
<1> HIDE DEF new
<1>4. KindsFit'
  <2> SUFFICES ASSUME NEW d \in decided'
               PROVE  /\ d.pair \in Alignable(R, A)
                      /\ d.kind \in {"equivalent", "partial", "merged"}
                      /\ d.kind = "partial" <=> ~Equivalent(d.pair)
    BY <1>2 DEF KindsFit, Equivalent, AtLeast, All, Shared
  <2> QED BY <1>2, <1>3 DEF AlignmentInv, KindsFit
<1>5. AlignedOneToOne'
  BY <1>1, <1>2, <1>3 DEF AlignmentInv, AlignedOneToOne, HasDecision, Used
<1>6. MergedIntoMatched'
  BY <1>1, <1>2, <1>3 DEF AlignmentInv, MergedIntoMatched, Assigning
<1>7. Assigning'
  <2>1. ASSUME NEW d \in decided' PROVE d.kind # "merged" /\ \A c \in pairs' : Ahead(d.pair, c)
    BY <1>1, <1>2, <1>3, <2>1 DEF AlignmentInv, Assigning
  <2>2. ASSUME NEW c \in Alignable(R, A)
        PROVE  \/ c \in pairs'
               \/ \E d \in decided' : /\ d.kind # "merged"
                                      /\ d.pair.r = c.r \/ d.pair.a = c.a
                                      /\ d.pair = c \/ Ahead(d.pair, c)
    <3>1. CASE c \in pairs \ {p}
      BY <1>1, <3>1
    <3>2. CASE c \notin pairs
      BY <1>1, <1>2, <3>2 DEF AlignmentInv, Assigning, Dealt
    <3>3. CASE c = p
      <4>1. CASE HasDecision(p.r) \/ Used(p.a)
        BY <1>1, <1>2, <3>3, <4>1 DEF AlignmentInv, Assigning, HasDecision, Used
      <4>2. CASE ~(HasDecision(p.r) \/ Used(p.a))
        BY <1>1, <1>3, <3>3, <4>2
      <4> QED BY <4>1, <4>2
    <3> QED BY <3>1, <3>2, <3>3
  <2> QED BY <1>2, <2>1, <2>2
       DEF Assigning, Dealt, Ahead, Equivalent, AtLeast, All, Shared, Nearer
<1> QED BY <1>1, <1>2, <1>4, <1>5, <1>6, <1>7 DEF AlignmentInv

LEMMA MergeStep ==
  ASSUME AlignmentInv, NEW p \in pairs, Merge(p)
  PROVE  AlignmentInv'
<1> DEFINE new == [pair |-> p, kind |-> "merged"]
<1>1. /\ pass = "merge" /\ pass' = pass /\ R' = R /\ A' = A /\ pairs' = pairs \ {p}
      /\ decided' = IF HasDecision(p.r) \/ ~Equivalent(p) THEN decided ELSE decided \cup {new}
  BY DEF Merge
<1>2. /\ decided \subseteq decided' /\ decided' \subseteq decided \cup {new}
      /\ p \in Alignable(R, A) /\ Alignable(R, A)' = Alignable(R, A)
      /\ decided' # decided => Equivalent(p) /\ ~HasDecision(p.r)
  BY <1>1 DEF AlignmentInv, Alignable
<1>3. new.pair = p /\ new.kind = "merged"
  OBVIOUS
<1> HIDE DEF new
<1>4. KindsFit'
  <2> SUFFICES ASSUME NEW d \in decided'
               PROVE  /\ d.pair \in Alignable(R, A)
                      /\ d.kind \in {"equivalent", "partial", "merged"}
                      /\ d.kind = "partial" <=> ~Equivalent(d.pair)
    BY <1>2 DEF KindsFit, Equivalent, AtLeast, All, Shared
  <2> QED BY <1>2, <1>3 DEF AlignmentInv, KindsFit
<1>5. AlignedOneToOne'
  BY <1>1, <1>2, <1>3 DEF AlignmentInv, AlignedOneToOne, HasDecision
<1>6. MergedIntoMatched'
  <2> SUFFICES ASSUME new \in decided' \ decided
               PROVE  \E e \in decided : e.pair.a = p.a /\ e.kind = "equivalent" /\ e.pair.r # p.r
    BY <1>2, <1>3 DEF AlignmentInv, MergedIntoMatched
  <2>1. PICK d \in decided : /\ d.kind # "merged"
                             /\ d.pair.r = p.r \/ d.pair.a = p.a
                             /\ d.pair = p \/ Ahead(d.pair, p)
    BY <1>1, <1>2 DEF AlignmentInv, Dealt
  <2>2. d.pair.a = p.a /\ d.pair.r # p.r
    BY <1>2, <2>1 DEF HasDecision
  <2>3. Equivalent(d.pair)
    BY <1>2, <2>1 DEF Ahead
  <2> QED BY <2>1, <2>2, <2>3 DEF AlignmentInv, KindsFit
<1>7. Merging'
  <2> SUFFICES ASSUME NEW c \in Alignable(R, A), Equivalent(c)
               PROVE  c \in pairs' \/ \E d \in decided' : d.pair.r = c.r
    BY <1>2 DEF Merging, HasDecision, Equivalent, AtLeast, All, Shared
  <2> QED BY <1>1, <1>2, <1>3 DEF AlignmentInv, Merging, HasDecision
<1>8. \A c \in Alignable(R, A)' : Dealt(c)'
  <2> SUFFICES ASSUME NEW c \in Alignable(R, A)
               PROVE  \E d \in decided' : /\ d.kind # "merged"
                                          /\ d.pair.r = c.r \/ d.pair.a = c.a
                                          /\ d.pair = c \/ Ahead(d.pair, c)
    BY <1>2 DEF Dealt, Ahead, Equivalent, AtLeast, All, Shared, Nearer
  <2> QED BY <1>1, <1>2 DEF AlignmentInv, Dealt
<1> QED BY <1>1, <1>2, <1>4, <1>5, <1>6, <1>7, <1>8 DEF AlignmentInv

LEMMA OtherStep ==
  ASSUME AlignmentInv, StartMerging \/ Judge \/ UNCHANGED alignmentVars
  PROVE  AlignmentInv'
<1>1. /\ R' = R /\ A' = A /\ decided' = decided
      /\ Alignable(R, A)' = Alignable(R, A)
      /\ KindsFit' /\ AlignedOneToOne' /\ MergedIntoMatched'
      /\ \A c \in Alignable(R, A) : Dealt(c) => Dealt(c)'
  <2>1. R' = R /\ A' = A /\ decided' = decided
    BY DEF StartMerging, Judge, alignmentVars
  <2> QED BY <2>1 DEF AlignmentInv, KindsFit, AlignedOneToOne, MergedIntoMatched, Dealt, Alignable, Ahead,
          Equivalent, AtLeast, All, Shared, Nearer
<1>2. CASE StartMerging
  BY <1>1, <1>2 DEF StartMerging, AlignmentInv, Assigning, Merging
<1>3. CASE Judge
  BY <1>1, <1>3 DEF Judge, AlignmentInv, Merging, MustMissed, HasDecision
<1>4. CASE UNCHANGED alignmentVars
  BY <1>1, <1>4 DEF alignmentVars, AlignmentInv, Assigning, Merging, HasDecision, Ahead, Equivalent, Nearer,
     AtLeast, All, Shared
<1> QED BY <1>2, <1>3, <1>4

LEMMA AlignmentInvStep == AlignmentInv /\ [AlignmentNext]_alignmentVars => AlignmentInv'
BY AlignStep, MergeStep, OtherStep DEF AlignmentNext

LEMMA AlignmentInvHolds == AlignmentSpec => []AlignmentInv
BY AlignmentInvInit, AlignmentInvStep, PTL DEF AlignmentSpec

\* No reference requirement has two decisions, and none of the run is assigned twice.
THEOREM AlignedOneToOneHolds == AlignmentSpec => []AlignedOneToOne
<1>1. AlignmentInv => AlignedOneToOne
  BY DEF AlignmentInv
<1> QED BY <1>1, AlignmentInvHolds, PTL

\* What a merge shares was assigned as an equivalent.
THEOREM MergedIntoMatchedHolds == AlignmentSpec => []MergedIntoMatched
<1>1. AlignmentInv => MergedIntoMatched
  BY DEF AlignmentInv
<1> QED BY <1>1, AlignmentInvHolds, PTL

\* At the end, whatever has an equivalent has a decision, and a pass covers every must.
THEOREM CoveredIsDecidedHolds == AlignmentSpec => []CoveredIsDecided
<1>1. AlignmentInv => CoveredIsDecided
  BY DEF AlignmentInv, Merging, CoveredIsDecided
<1> QED BY <1>1, AlignmentInvHolds, PTL

\* Of two ratios on different sides of 0.6 the one below it is not the larger one.
LEMMA Sides ==
  ASSUME NEW sp \in Nat, NEW ap \in Nat, NEW sq \in Nat, NEW aq \in Nat,
         10 * sp >= 6 * ap, 10 * sq < 6 * aq
  PROVE  sq * ap <= sp * aq
<1>1. \A x, y, z \in Nat : x <= y => x * z <= y * z
  OBVIOUS
<1>2. (6 * ap) * aq <= (10 * sp) * aq
  BY <1>1
<1>3. (10 * sq) * ap <= (6 * aq) * ap
  BY <1>1
<1> QED BY <1>2, <1>3

LEMMA SharedAndAll ==
  ASSUME R \in References, A \in Runs, NEW p \in Alignable(R, A)
  PROVE  Shared(p) \in Nat /\ All(p) \in Nat /\ All(p) > 0
<1>1. IsFiniteSet(p.r.terms) /\ IsFiniteSet(p.a.terms)
  BY RequirementsAssumption DEF Alignable
<1>2. IsFiniteSet(p.r.terms \cap p.a.terms) /\ IsFiniteSet(p.r.terms \cup p.a.terms)
  BY <1>1, FS_Union, FS_Intersection
<1> QED BY <1>2, FS_CardinalityType DEF Shared, All, Alignable, AtLeast

\* What comes before is not farther.
LEMMA BeforeIsNear ==
  ASSUME R \in References, A \in Runs,
         NEW p \in Alignable(R, A), NEW q \in Alignable(R, A), Ahead(p, q)
  PROVE  ~Nearer(q, p)
<1>1. /\ Shared(p) \in Nat /\ All(p) \in Nat /\ All(p) > 0
      /\ Shared(q) \in Nat /\ All(q) \in Nat /\ All(q) > 0
  BY SharedAndAll
<1>2. CASE Equivalent(p) /\ ~Equivalent(q)
  <2>1. 10 * Shared(p) >= 6 * All(p) /\ 10 * Shared(q) < 6 * All(q)
    BY <1>1, <1>2 DEF Equivalent, AtLeast
  <2>2. Shared(q) * All(p) <= Shared(p) * All(q)
    BY <1>1, <2>1, Sides
  <2> QED BY <1>1, <2>2 DEF Nearer
<1>3. CASE Nearer(p, q)
  <2>1. Shared(p) * All(q) \in Nat /\ Shared(q) * All(p) \in Nat
    BY <1>1
  <2> QED BY <1>3, <2>1 DEF Nearer
<1> QED BY <1>2, <1>3 DEF Ahead

\* A candidate is passed over only for a pair that is as near.
THEOREM NearestFirstHolds == AlignmentSpec => []NearestFirst
<1> DEFINE Given == R \in References /\ A \in Runs
<1>1. AlignmentSpec => []Given
  <2>1. AlignmentInit => Given
    BY DEF AlignmentInit
  <2>2. Given /\ [AlignmentNext]_alignmentVars => Given'
    BY DEF AlignmentNext, Align, Merge, StartMerging, Judge, alignmentVars
  <2> QED BY <2>1, <2>2, PTL DEF AlignmentSpec
<1>2. AlignmentInv /\ Given => NearestFirst
  <2> SUFFICES ASSUME AlignmentInv, Given, pass # "assign", NEW c \in Alignable(R, A)
               PROVE  \E d \in decided : /\ d.pair.r = c.r \/ d.pair.a = c.a
                                         /\ ~Nearer(c, d.pair)
    BY DEF NearestFirst
  <2>1. PICK d \in decided : /\ d.pair.r = c.r \/ d.pair.a = c.a
                             /\ d.pair = c \/ Ahead(d.pair, c)
    BY DEF AlignmentInv, Dealt
  <2>2. d.pair \in Alignable(R, A)
    BY DEF AlignmentInv, KindsFit
  <2>3. CASE d.pair = c
    <3>1. Shared(c) * All(c) \in Nat
      BY SharedAndAll
    <3> QED BY <2>1, <2>3, <3>1 DEF Nearer
  <2>4. CASE Ahead(d.pair, c)
    BY <2>1, <2>2, <2>4, BeforeIsNear
  <2> QED BY <2>1, <2>3, <2>4
<1> QED BY <1>1, <1>2, AlignmentInvHolds, PTL
---------------------------------------------------------------------------

ScoresOf(i, j) == {<<i, j, "json">>, <<i, j, "md">>} \subseteq files

\* The cases that are done have all their runs, with their scores, and their verdict.
DoneCases ==
  \A i \in 1..Len(cases) :
    /\ Len(cases[i].runs) = K /\ \A j \in 1..K : ScoresOf(i, j)
    /\ cases[i] = CaseVerdict(cases[i].runs)

\* The runs of the case under way have theirs, up to the one that is being scored.
RunsSoFar ==
  stage \in {"run", "json", "md"} =>
    /\ at <= Len(list) /\ Len(runs) <= K
    /\ \A j \in 1..Len(runs) : (stage # "run" => j < Len(runs)) => ScoresOf(at, j)
    /\ stage # "run" => Len(runs) >= 1
    /\ stage = "md" => <<at, Len(runs), "json">> \in files

Reported ==
  /\ report # NoReport <=> stage \in {"page", "return"}
  /\ report # NoReport => report.cases = cases /\ at = Len(list) + 1
  /\ report # NoReport /\ report.pass => \A i \in DOMAIN cases : cases[i].pass
  /\ page <=> stage = "return"
  /\ status = "returned" => page

Typed ==
  /\ list \in Seq([seeded : BOOLEAN])
  /\ at \in 1..(Len(list) + 1)
  /\ stage \in {"case", "run", "json", "md", "page", "return"}
  /\ runs \in Seq(Outcomes)
  /\ cases \in Seq([runs : Seq(Outcomes), pass : BOOLEAN])
  /\ page \in BOOLEAN

SuiteInv == Typed /\ Len(cases) = at - 1 /\ DoneCases /\ RunsSoFar /\ Reported

LEMMA SuiteInvInit == SuiteInit => SuiteInv
<1> SUFFICES ASSUME SuiteInit PROVE SuiteInv
  OBVIOUS
<1>1. list \in Seq([seeded : BOOLEAN]) /\ Len(list) \in Nat
  BY CasesAssumption DEF SuiteInit
<1>2. Typed
  <2>1. at \in 1..(Len(list) + 1)
    BY <1>1 DEF SuiteInit
  <2>2. runs \in Seq(Outcomes) /\ cases \in Seq([runs : Seq(Outcomes), pass : BOOLEAN])
    BY DEF SuiteInit
  <2> QED BY <1>1, <2>1, <2>2 DEF SuiteInit, Typed
<1>3. Reported /\ DoneCases /\ RunsSoFar /\ Len(cases) = at - 1
  BY DEF SuiteInit, Reported, DoneCases, RunsSoFar
<1> QED BY <1>2, <1>3 DEF SuiteInv

LEMMA VerdictType == runs \in Seq(Outcomes) => CaseVerdict(runs) \in [runs : Seq(Outcomes), pass : BOOLEAN]
BY DEF CaseVerdict

LEMMA SuiteInvStep == SuiteInv /\ [SuiteNext]_suiteVars => SuiteInv'
<1> SUFFICES ASSUME SuiteInv, [SuiteNext]_suiteVars PROVE SuiteInv'
  OBVIOUS
<1> USE KAssumption DEF ScoresOf
<1>1. CASE BeginCase
  <2>1. Typed' /\ RunsSoFar' /\ Reported'
    BY <1>1 DEF SuiteInv, Typed, RunsSoFar, Reported, BeginCase, Goes
  <2> QED BY <1>1, <2>1 DEF SuiteInv, DoneCases, BeginCase
<1>2. CASE Refuse
  BY <1>2 DEF SuiteInv, Typed, DoneCases, RunsSoFar, Reported, Refuse
<1>3. ASSUME NEW o \in Outcomes, Run(o) PROVE SuiteInv'
  <2>1. /\ runs' \in Seq(Outcomes) /\ Len(runs') = Len(runs) + 1 /\ Len(runs) \in Nat
        /\ stage = "run" /\ stage' = "json"
        /\ UNCHANGED <<list, at, files, cases, report, page, status>>
    BY <1>3 DEF SuiteInv, Typed, Run, Goes
  <2>2. RunsSoFar'
    BY <1>3, <2>1 DEF SuiteInv, RunsSoFar, Run
  <2> QED BY <2>1, <2>2 DEF SuiteInv, Typed, DoneCases, Reported
<1>4. ASSUME NEW kind, NEW next, <<kind, next>> \in {<<"json", "md">>, <<"md", "run">>},
             WriteScore(kind, next)
      PROVE  SuiteInv'
  <2>1. /\ files' = files \cup {<<at, Len(runs), kind>>} /\ stage = kind /\ stage' = next
        /\ UNCHANGED <<list, at, runs, cases, report, page, status>>
        /\ Len(runs) \in Nat
        /\ (kind = "json" /\ next = "md") \/ (kind = "md" /\ next = "run")
    BY <1>4 DEF SuiteInv, Typed, WriteScore, Goes
  <2>2. RunsSoFar'
    BY <2>1 DEF SuiteInv, RunsSoFar
  <2>3. DoneCases'
    BY <2>1 DEF SuiteInv, DoneCases
  <2> QED BY <2>1, <2>2, <2>3 DEF SuiteInv, Typed, Reported
<1>5. CASE EndCase
  <2> DEFINE v == CaseVerdict(runs)
  <2>1. /\ v \in [runs : Seq(Outcomes), pass : BOOLEAN] /\ v.runs = runs
        /\ Len(runs) = K /\ stage = "run" /\ stage' = "case" /\ at' = at + 1
        /\ at <= Len(list) /\ \A j \in 1..K : ScoresOf(at, j)
        /\ UNCHANGED <<list, runs, files, report, page, status>>
    BY <1>5, VerdictType DEF EndCase, Goes, SuiteInv, Typed, RunsSoFar, CaseVerdict
  <2>2. cases' = Append(cases, v)
    BY <1>5 DEF EndCase
  <2> HIDE DEF v
  <2>3. /\ cases' \in Seq([runs : Seq(Outcomes), pass : BOOLEAN])
        /\ Len(cases') = Len(cases) + 1 /\ Len(cases) \in Nat
        /\ \A i \in 1..Len(cases) : cases'[i] = cases[i]
        /\ cases'[Len(cases) + 1] = v
    BY <2>1, <2>2 DEF SuiteInv, Typed
  <2>4. DoneCases'
    <3> SUFFICES ASSUME NEW i \in 1..(Len(cases) + 1)
                 PROVE  /\ Len(cases'[i].runs) = K /\ \A j \in 1..K : ScoresOf(i, j)
                        /\ cases'[i] = CaseVerdict(cases'[i].runs)
      BY <2>1, <2>3 DEF DoneCases
    <3>1. CASE i \in 1..Len(cases)
      BY <2>3, <3>1 DEF SuiteInv, DoneCases
    <3>2. CASE i = Len(cases) + 1
      <4>1. i = at
        BY <3>2 DEF SuiteInv, Typed
      <4>2. cases'[i] = CaseVerdict(cases'[i].runs)
        BY <2>1, <2>3, <3>2 DEF v
      <4> QED BY <2>1, <2>3, <3>2, <4>1, <4>2
    <3> QED BY <2>3, <3>1, <3>2
  <2>5. Typed'
    BY <2>1, <2>3 DEF SuiteInv, Typed
  <2> QED BY <2>1, <2>3, <2>4, <2>5 DEF SuiteInv, Typed, RunsSoFar, Reported
<1>6. CASE WriteReport
  <2>1. /\ report' # NoReport /\ report'.cases = cases
        /\ report'.pass => \A i \in DOMAIN cases : cases[i].pass
    <3> DEFINE passes == \A i \in DOMAIN cases : cases[i].pass
    <3>1. report' = [cases |-> cases, pass |-> passes]
      BY <1>6 DEF WriteReport
    <3> HIDE DEF passes
    <3>2. DOMAIN report' = {"cases", "pass"} /\ DOMAIN NoReport = {"cases"}
      BY <3>1 DEF NoReport
    <3>3. report'.cases = cases /\ (report'.pass <=> passes)
      BY <3>1
    <3> QED BY <3>1, <3>2, <3>3 DEF passes
  <2>2. at = Len(list) + 1
    BY <1>6 DEF WriteReport, SuiteInv, Typed
  <2> QED BY <1>6, <2>1, <2>2 DEF WriteReport, Goes, SuiteInv, Typed, DoneCases, RunsSoFar, Reported
<1>7. CASE WritePage
  BY <1>7 DEF SuiteInv, Typed, DoneCases, RunsSoFar, Reported, WritePage, Goes
<1>8. CASE Return \/ Abort
  <2>1. UNCHANGED <<list, at, stage, runs, files, cases, report, page>>
    BY <1>8 DEF Return, Abort
  <2>2. status' = "returned" => stage = "return"
    BY <1>8 DEF Return, Abort
  <2>3. Typed' /\ Len(cases') = at' - 1 /\ DoneCases' /\ RunsSoFar'
    BY <2>1 DEF SuiteInv, Typed, DoneCases, RunsSoFar
  <2>4. Reported'
    BY <2>1, <2>2 DEF SuiteInv, Reported
  <2> QED BY <2>3, <2>4 DEF SuiteInv
<1>9. CASE UNCHANGED suiteVars
  BY <1>9 DEF SuiteInv, Typed, DoneCases, RunsSoFar, Reported, suiteVars
<1> QED BY <1>1, <1>2, <1>3, <1>4, <1>5, <1>6, <1>7, <1>8, <1>9 DEF SuiteNext

LEMMA SuiteInvHolds == SuiteSpec => []SuiteInv
BY SuiteInvInit, SuiteInvStep, PTL DEF SuiteSpec

\* A report is there only with every case, all K runs of each, and their scores.
THEOREM ReportIsCompleteHolds == SuiteSpec => []ReportIsComplete
<1>1. SuiteInv => ReportIsComplete
  <2> SUFFICES ASSUME SuiteInv PROVE ReportIsComplete
    OBVIOUS
  <2>1. ASSUME report # NoReport
        PROVE  /\ Len(report.cases) = Len(list)
               /\ \A i \in DOMAIN report.cases :
                    /\ Len(report.cases[i].runs) = K
                    /\ \A j \in 1..K, kind \in {"json", "md"} : <<i, j, kind>> \in files
    BY <2>1 DEF SuiteInv, Typed, Reported, DoneCases, ScoresOf
  <2> QED BY <2>1 DEF SuiteInv, Reported, ReportIsComplete
<1> QED BY <1>1, SuiteInvHolds, PTL

---------------------------------------------------------------------------
LEMMA LimitIsNat == \A m \in SuiteMetric : SuiteLimits[m] \in Nat
BY SuiteLimitsAssumption

\* A value in thousandths is within half a thousandth of its ratio.
LEMMA ValueBounds ==
  ASSUME NEW o \in Outcomes, NEW m \in SuiteMetric
  PROVE  /\ o.ratio[m].n \in Nat /\ o.ratio[m].d \in Nat /\ 0 < o.ratio[m].d
         /\ Value(o, m) \in Nat /\ Value(o, m) = Round3(o.ratio[m].n, o.ratio[m].d)
         /\ 2 * (o.ratio[m].d * Value(o, m)) <= 2000 * o.ratio[m].n + o.ratio[m].d
         /\ 2000 * o.ratio[m].n + o.ratio[m].d
              < 2 * (o.ratio[m].d * Value(o, m)) + 2 * o.ratio[m].d
<1> DEFINE n == o.ratio[m].n
           d == o.ratio[m].d
<1>1. n \in Nat /\ d \in Nat \ {0}
  <2>1. o \in [ok : BOOLEAN, ratio : [SuiteMetric -> Ratios]]
    BY OutcomesAssumption
  <2>2. o.ratio[m] \in [n : Nat, d : Nat \ {0}]
    BY <2>1 DEF Ratios
  <2> QED BY <2>2
<1>2. Value(o, m) = Round3(n, d)
  BY DEF Value, SuiteRound3, Round3
<1> HIDE DEF n, d
<1>3. Round3(n, d) \in Nat
  BY <1>1, Rounding
<1>4. 2 * (d * Round3(n, d)) <= 2000 * n + d
  BY <1>1, Rounding
<1>5. 2000 * n + d < 2 * (d * Round3(n, d)) + 2 * d
  BY <1>1, Rounding
<1>6. 0 < d
  BY <1>1
<1> QED BY <1>1, <1>2, <1>3, <1>4, <1>5, <1>6 DEF n, d

\* What Total and ExactMean add up, run after run.
LEMMA TotalIs ==
  ASSUME NEW rs \in Seq(Outcomes), NEW m \in SuiteMetric
  PROVE  \E t \in [0..Len(rs) -> Nat] :
           /\ t[0] = 0
           /\ \A i \in 1..Len(rs) : t[i] = t[i - 1] + Value(rs[i], m)
           /\ Total(rs, m) = t[Len(rs)]
<1> DEFINE n == Len(rs)
           v(i) == Value(rs[i], m)
           g == [p \in (1..n) \X Nat |-> p[2] + v(p[1])]
           Fix(f) == f = [i \in 0..n |-> IF i = 0 THEN 0 ELSE f[i - 1] + v(i)]
           o == CHOOSE h : Fix(h)
<1>1. n \in Nat /\ 0 \in Nat
  OBVIOUS
<1>2. \A i \in 1..n : v(i) \in Nat
  BY ValueBounds
<1>3. \A i \in 1..n, x \in Nat : g[<<i, x>>] = x + v(i)
  OBVIOUS
<1>4. g \in [(1..n) \X Nat -> Nat]
  <2> HIDE DEF v, n
  <2> QED BY <1>2
<1> HIDE DEF g
<1>5. PICK f \in [0..n -> Nat] : Follows(f, 0, g, n)
  <2> HIDE DEF n, v, Fix, o
  <2> QED BY <1>1, <1>4, Recursion
<1>6. \A i \in 1..n : i # 0 /\ i - 1 \in 0..n /\ f[i - 1] \in Nat
  BY <1>1, <1>5
<1>7. f[0] = 0 /\ \A i \in 1..n : f[i] = f[i - 1] + v(i)
  <2> HIDE DEF v
  <2> QED BY <1>3, <1>5, <1>6 DEF Follows
<1>8. Fix(f)
  <2>1. \A i \in 0..n : i = 0 \/ i \in 1..n
    BY <1>1
  <2>2. DOMAIN f = 0..n /\ f = [i \in 0..n |-> f[i]]
    BY <1>5
  <2> QED BY <1>7, <2>1, <2>2
<1>9. Total(rs, m) = o[n]
  BY DEF Total
<1>10. Fix(o)
  <2> HIDE DEF Fix
  <2> QED BY <1>8
<1> HIDE DEF o
<1>11. o[0] = 0 /\ \A i \in 1..n : o[i] = o[i - 1] + v(i)
  BY <1>1, <1>6, <1>10
<1> DEFINE T == {i \in 0..n : o[i] \in Nat}
<1>12. 0..n \subseteq T
  <2>1. 0 \in T
    BY <1>1, <1>11
  <2>2. ASSUME NEW i \in 1..n, i - 1 \in T PROVE i \in T
    BY <1>2, <1>11, <2>2
  <2> HIDE DEF T, n
  <2> QED BY <1>1, <2>1, <2>2, InductionTo
<1>13. o \in [0..n -> Nat]
  <2>1. DOMAIN o = 0..n /\ o = [i \in 0..n |-> o[i]]
    BY <1>10
  <2> QED BY <1>12, <2>1
<1> QED BY <1>9, <1>11, <1>13

Plus(a, r) == [n |-> a.n * r.d + r.n * a.d, d |-> a.d * r.d]

LEMMA ExactMeanIs ==
  ASSUME NEW rs \in Seq(Outcomes), NEW m \in SuiteMetric
  PROVE  \E s \in [0..Len(rs) -> Ratios] :
           /\ s[0] = [n |-> 0, d |-> 1]
           /\ \A i \in 1..Len(rs) : s[i] = Plus(s[i - 1], rs[i].ratio[m])
           /\ ExactMean(rs, m) = [n |-> s[Len(rs)].n, d |-> s[Len(rs)].d * Len(rs)]
<1> DEFINE n == Len(rs)
           r(i) == rs[i].ratio[m]
           a == [n |-> 0, d |-> 1]
           g == [p \in (1..n) \X Ratios |-> Plus(p[2], r(p[1]))]
           Fix(f) == f = [i \in 0..n |-> IF i = 0 THEN a ELSE Plus(f[i - 1], r(i))]
           o == CHOOSE h : Fix(h)
<1>1. n \in Nat /\ a \in Ratios
  BY DEF Ratios
<1>2. \A i \in 1..n : r(i) \in Ratios
  <2>1. \A i \in 1..n : rs[i] \in [ok : BOOLEAN, ratio : [SuiteMetric -> Ratios]]
    BY OutcomesAssumption
  <2> QED BY <2>1
<1>3. \A i \in 1..n, x \in Ratios : g[<<i, x>>] = Plus(x, r(i))
  OBVIOUS
<1>p. ASSUME NEW x \in Ratios, NEW y \in Ratios PROVE Plus(x, y) \in Ratios
  <2>1. x.n \in Nat /\ x.d \in Nat \ {0} /\ y.n \in Nat /\ y.d \in Nat \ {0}
    BY DEF Ratios
  <2>2. /\ \A i, j \in Nat \ {0} : i * j \in Nat \ {0}
        /\ \A i, j \in Nat : i * j \in Nat /\ i + j \in Nat
    OBVIOUS
  <2>3. x.d * y.d \in Nat \ {0}
    BY <2>1, <2>2
  <2>4. x.n * y.d + y.n * x.d \in Nat
    BY <2>1, <2>2
  <2> QED BY <2>3, <2>4 DEF Plus, Ratios
<1>4. g \in [(1..n) \X Ratios -> Ratios]
  <2> HIDE DEF r, n
  <2> QED BY <1>2, <1>p
<1> HIDE DEF g
<1>5. PICK f \in [0..n -> Ratios] : Follows(f, a, g, n)
  <2> HIDE DEF n, r, Fix, o, a
  <2> QED BY <1>1, <1>4, Recursion
<1>6. \A i \in 1..n : i # 0 /\ i - 1 \in 0..n /\ f[i - 1] \in Ratios
  BY <1>1, <1>5
<1>7. f[0] = a /\ \A i \in 1..n : f[i] = Plus(f[i - 1], r(i))
  <2> HIDE DEF r, a
  <2> QED BY <1>3, <1>5, <1>6 DEF Follows
<1>8. Fix(f)
  <2>1. \A i \in 0..n : i = 0 \/ i \in 1..n
    BY <1>1
  <2>2. DOMAIN f = 0..n /\ f = [i \in 0..n |-> f[i]]
    BY <1>5
  <2> HIDE DEF r, a
  <2> QED BY <1>7, <2>1, <2>2
<1>9. ExactMean(rs, m) = [n |-> o[n].n, d |-> o[n].d * n]
  BY DEF ExactMean, Plus
<1>10. Fix(o)
  <2> HIDE DEF Fix
  <2> QED BY <1>8
<1> HIDE DEF o
<1>11. o[0] = a /\ \A i \in 1..n : o[i] = Plus(o[i - 1], r(i))
  <2> HIDE DEF r, a
  <2> QED BY <1>1, <1>6, <1>10
<1> DEFINE T == {i \in 0..n : o[i] \in Ratios}
<1>12. 0..n \subseteq T
  <2>1. 0 \in T
    BY <1>1, <1>11
  <2>2. ASSUME NEW i \in 1..n, i - 1 \in T PROVE i \in T
    <3>1. o[i - 1] \in Ratios /\ r(i) \in Ratios /\ o[i] = Plus(o[i - 1], r(i)) /\ i \in 0..n
      BY <1>1, <1>2, <1>11, <2>2
    <3> HIDE DEF r
    <3> QED BY <1>p, <3>1
  <2> HIDE DEF T, n, r, a
  <2> QED BY <1>1, <2>1, <2>2, InductionTo
<1>13. o \in [0..n -> Ratios]
  <2>1. DOMAIN o = 0..n /\ o = [i \in 0..n |-> o[i]]
    BY <1>10
  <2> QED BY <1>12, <2>1
<1> QED BY <1>9, <1>11, <1>13


\* A sum of rounded ratios is within half a thousandth a term of the sum of the ratios.
LEMMA SumStep ==
  ASSUME NEW D \in Nat, NEW N \in Nat, NEW t \in Nat, NEW j \in Nat,
         NEW d \in Nat, NEW q \in Nat, NEW v \in Nat,
         2 * (D * t) <= 2000 * N + j * D, 2000 * N <= 2 * (D * t) + j * D,
         2 * (d * v) <= 2000 * q + d, 2000 * q <= 2 * (d * v) + d
  PROVE  /\ 2 * ((D * d) * (t + v)) <= 2000 * (N * d + q * D) + (j + 1) * (D * d)
         /\ 2000 * (N * d + q * D) <= 2 * ((D * d) * (t + v)) + (j + 1) * (D * d)
<1>1. \A x, y, z \in Nat : x <= y => z * x <= z * y
  OBVIOUS
<1>2. /\ d * (2 * (D * t)) <= d * (2000 * N + j * D)
      /\ d * (2000 * N) <= d * (2 * (D * t) + j * D)
      /\ D * (2 * (d * v)) <= D * (2000 * q + d)
      /\ D * (2000 * q) <= D * (2 * (d * v) + d)
  BY <1>1
<1>3. /\ d * (2 * (D * t)) + D * (2 * (d * v)) = 2 * ((D * d) * (t + v))
      /\ d * (2000 * N + j * D) + D * (2000 * q + d) = 2000 * (N * d + q * D) + (j + 1) * (D * d)
      /\ d * (2000 * N) + D * (2000 * q) = 2000 * (N * d + q * D)
      /\ d * (2 * (D * t) + j * D) + D * (2 * (d * v) + d)
           = 2 * ((D * d) * (t + v)) + (j + 1) * (D * d)
  OBVIOUS
<1> QED BY <1>2, <1>3

LEMMA TotalIsNear ==
  ASSUME NEW rs \in Seq(Outcomes), Len(rs) # 0, NEW m \in SuiteMetric
  PROVE  \E N \in Nat, D \in Nat \ {0} :
           /\ ExactMean(rs, m) = [n |-> N, d |-> D * Len(rs)]
           /\ Total(rs, m) \in Nat
           /\ 2 * (D * Total(rs, m)) <= 2000 * N + Len(rs) * D
           /\ 2000 * N <= 2 * (D * Total(rs, m)) + Len(rs) * D
<1> DEFINE k == Len(rs)
<1>1. PICK t \in [0..k -> Nat] :
        /\ t[0] = 0
        /\ \A i \in 1..k : t[i] = t[i - 1] + Value(rs[i], m)
        /\ Total(rs, m) = t[k]
  BY TotalIs
<1>2. PICK s \in [0..k -> Ratios] :
        /\ s[0] = [n |-> 0, d |-> 1]
        /\ \A i \in 1..k : s[i] = Plus(s[i - 1], rs[i].ratio[m])
        /\ ExactMean(rs, m) = [n |-> s[k].n, d |-> s[k].d * k]
  BY ExactMeanIs
<1> DEFINE T == {i \in 0..k : /\ 2 * (s[i].d * t[i]) <= 2000 * s[i].n + i * s[i].d
                              /\ 2000 * s[i].n <= 2 * (s[i].d * t[i]) + i * s[i].d}
<1>3. \A i \in 0..k : s[i].n \in Nat /\ s[i].d \in Nat \ {0} /\ t[i] \in Nat
  BY DEF Ratios
<1>4. k \in Nat /\ k \in 0..k /\ 0 \in 0..k
  OBVIOUS
<1>5. 0 \in T
  <2>1. s[0].n = 0 /\ s[0].d = 1 /\ t[0] = 0
    BY <1>1, <1>2
  <2> QED BY <1>4, <2>1
<1>6. ASSUME NEW i \in 1..k, i - 1 \in T PROVE i \in T
  <2> DEFINE q == rs[i].ratio[m].n
             d == rs[i].ratio[m].d
             v == Value(rs[i], m)
  <2>1. /\ q \in Nat /\ d \in Nat /\ v \in Nat
        /\ 2 * (d * v) <= 2000 * q + d /\ 2000 * q + d < 2 * (d * v) + 2 * d
    <3>1. rs[i] \in Outcomes
      OBVIOUS
    <3> QED BY <3>1, ValueBounds
  <2>2. t[i] = t[i - 1] + v
    BY <1>1
  <2>3. /\ s[i].n = s[i - 1].n * d + q * s[i - 1].d
        /\ s[i].d = s[i - 1].d * d
    <3>1. s[i] = Plus(s[i - 1], rs[i].ratio[m])
      BY <1>2
    <3> QED BY <3>1 DEF Plus
  <2>4. i - 1 \in 0..k /\ i \in 0..k /\ i - 1 \in Nat /\ (i - 1) + 1 = i
    BY <1>4
  <2>5. /\ 2 * (s[i - 1].d * t[i - 1]) <= 2000 * s[i - 1].n + (i - 1) * s[i - 1].d
        /\ 2000 * s[i - 1].n <= 2 * (s[i - 1].d * t[i - 1]) + (i - 1) * s[i - 1].d
    BY <1>6
  <2> DEFINE N == s[i - 1].n
             D == s[i - 1].d
             u == t[i - 1]
             j == i - 1
  <2>6. N \in Nat /\ D \in Nat /\ u \in Nat /\ j \in Nat
    BY <1>3, <2>4
  <2>7. 2000 * q <= 2 * (d * v) + d
    <3> HIDE DEF d, q, v
    <3> QED BY <2>1
  <2> HIDE DEF q, d, v
  <2>8. /\ 2 * ((D * d) * (u + v)) <= 2000 * (N * d + q * D) + (j + 1) * (D * d)
        /\ 2000 * (N * d + q * D) <= 2 * ((D * d) * (u + v)) + (j + 1) * (D * d)
    <3> HIDE DEF T
    <3>1. /\ 2 * (D * u) <= 2000 * N + j * D
          /\ 2000 * N <= 2 * (D * u) + j * D
      BY <2>5
    <3>2. 2 * (d * v) <= 2000 * q + d
      BY <2>1
    <3>3. q \in Nat /\ d \in Nat /\ v \in Nat
      BY <2>1
    <3> HIDE DEF N, D, u, j
    <3> QED BY <2>6, <2>7, <3>1, <3>2, <3>3, SumStep
  <2>9. /\ 2 * (s[i].d * t[i]) <= 2000 * s[i].n + i * s[i].d
        /\ 2000 * s[i].n <= 2 * (s[i].d * t[i]) + i * s[i].d
    BY <2>2, <2>3, <2>4, <2>8
  <2> QED BY <2>4, <2>9
<1>7. k \in T
  <2> HIDE DEF T, k
  <2>1. 0..k \subseteq T
    BY <1>4, <1>5, <1>6, InductionTo
  <2> QED BY <1>4, <2>1
<1> DEFINE N == s[k].n
           D == s[k].d
<1>8. N \in Nat /\ D \in Nat \ {0} /\ t[k] \in Nat
  BY <1>3, <1>4
<1>9. 2 * (D * t[k]) <= 2000 * N + k * D /\ 2000 * N <= 2 * (D * t[k]) + k * D
  BY <1>7
<1>10. ExactMean(rs, m) = [n |-> N, d |-> D * k] /\ Total(rs, m) = t[k]
  BY <1>1, <1>2
<1> HIDE DEF N, D, T
<1> QED BY <1>8, <1>9, <1>10


\* The mean in thousandths is within one of the exact mean.
LEMMA MeanIsNear ==
  ASSUME NEW rs \in Seq(Outcomes), Len(rs) # 0, NEW m \in SuiteMetric
  PROVE  \E N \in Nat, D \in Nat \ {0} :
           /\ ExactMean(rs, m) = [n |-> N, d |-> D]
           /\ Mean(rs, m) \in Nat
           /\ D * Mean(rs, m) <= 1000 * N + D
           /\ 1000 * N < D * Mean(rs, m) + D
<1> DEFINE k == Len(rs)
           t == Total(rs, m)
           M == Mean(rs, m)
<1>1. PICK N \in Nat, E \in Nat \ {0} :
        /\ ExactMean(rs, m) = [n |-> N, d |-> E * k]
        /\ t \in Nat
        /\ 2 * (E * t) <= 2000 * N + k * E
        /\ 2000 * N <= 2 * (E * t) + k * E
  BY TotalIsNear
<1>2. k \in Nat \ {0}
  OBVIOUS
<1>3. M \in Nat /\ 2 * (k * M) <= 2 * t + k /\ 2 * t + k < 2 * (k * M) + 2 * k
  <2> DEFINE x == 2 * t + k
             y == 2 * k
  <2>1. x \in Nat /\ y \in Nat \ {0} /\ M = x \div y
    BY <1>1, <1>2 DEF Mean
  <2> HIDE DEF x, y, M
  <2>2. M \in Nat /\ y * M <= x /\ x < y * M + y
    BY <2>1, Division
  <2> HIDE DEF t, k
  <2>3. y * M = 2 * (k * M)
    BY <1>2, <2>2 DEF y
  <2> QED BY <2>2, <2>3 DEF x, y
<1> HIDE DEF k, t, M
<1>4. E * k \in Nat \ {0}
  <2>1. \A a, b \in Nat \ {0} : a * b \in Nat \ {0}
    OBVIOUS
  <2> QED BY <1>2, <2>1
<1>5. /\ E * (2 * (k * M)) <= E * (2 * t + k)
      /\ E * (2 * t + k) < E * (2 * (k * M) + 2 * k)
  <2>1. \A a \in Nat \ {0}, b, c \in Nat : (b <= c => a * b <= a * c) /\ (b < c => a * b < a * c)
    OBVIOUS
  <2>2. 2 * (k * M) \in Nat /\ 2 * t + k \in Nat /\ 2 * (k * M) + 2 * k \in Nat
    BY <1>1, <1>2, <1>3
  <2> QED BY <1>3, <2>1, <2>2
<1>6. /\ E * (2 * (k * M)) = 2 * ((E * k) * M)
      /\ E * (2 * t + k) = 2 * (E * t) + E * k
      /\ E * (2 * (k * M) + 2 * k) = 2 * ((E * k) * M) + 2 * (E * k)
      /\ k * E = E * k
  BY <1>1, <1>2, <1>3
<1>7. (E * k) * M <= 1000 * N + E * k /\ 1000 * N < (E * k) * M + E * k
  BY <1>1, <1>2, <1>3, <1>4, <1>5, <1>6
<1> QED BY <1>1, <1>3, <1>4, <1>7 DEF k, M

\* What a verdict on the mean says of the exact one.
LEMMA MeanJudged ==
  ASSUME NEW rs \in Seq(Outcomes), Len(rs) # 0, NEW m \in SuiteMetric
  PROVE  LET r == ExactMean(rs, m)
         IN  /\ Meets(Mean(rs, m), m) => Exactly(r, m, 1)
             /\ ~Meets(Mean(rs, m), m) =>
                  IF Kind(m) = "min" THEN ~(1000 * r.n >= SuiteLimits[m] * r.d)
                  ELSE ~(1000 * r.n < SuiteLimits[m] * r.d)
<1> DEFINE M == Mean(rs, m)
           L == SuiteLimits[m]
<1>1. PICK N \in Nat, D \in Nat \ {0} :
        /\ ExactMean(rs, m) = [n |-> N, d |-> D]
        /\ M \in Nat
        /\ D * M <= 1000 * N + D
        /\ 1000 * N < D * M + D
  BY MeanIsNear
<1>2. L \in Nat
  BY LimitIsNat
<1>3. ExactMean(rs, m).n = N /\ ExactMean(rs, m).d = D
  BY <1>1
<1>4. /\ M >= L => 1000 * N + D >= L * D
      /\ M <= L => 1000 * N <= (L + 1) * D
      /\ M < L => 1000 * N < L * D
      /\ M > L => 1000 * N >= L * D
  <2> HIDE DEF M, L
  <2>1. \A a, b \in Nat : a <= b => D * a <= D * b
    OBVIOUS
  <2>2. /\ M >= L => D * L <= D * M
        /\ M <= L => D * M <= D * L
        /\ M < L => D * (M + 1) <= D * L
        /\ M > L => D * (L + 1) <= D * M
    BY <1>1, <1>2, <2>1
  <2>3. /\ D * (M + 1) = D * M + D
        /\ D * (L + 1) = D * L + D
        /\ (L + 1) * D = D * L + D
        /\ L * D = D * L
        /\ D * M \in Nat /\ D * L \in Nat
    BY <1>1, <1>2
  <2>4. PICK X : X = D * M
    OBVIOUS
  <2>5. PICK Y : Y = D * L
    OBVIOUS
  <2>6. X \in Nat /\ Y \in Nat
    BY <2>3, <2>4, <2>5
  <2> QED BY <1>1, <1>2, <2>2, <2>3, <2>4, <2>5, <2>6
<1>5. (L + 1) * D \in Nat /\ L * D \in Nat /\ 1 * D = D
  <2>1. \A a, b \in Nat : a * b \in Nat
    OBVIOUS
  <2> HIDE DEF M, L
  <2>2. L + 1 \in Nat
    BY <1>2
  <2> QED BY <1>1, <1>2, <2>1, <2>2
<1> HIDE DEF M
<1>6. CASE Kind(m) = "min"
  <2>1. Meets(M, m) <=> M >= L
    BY <1>6 DEF Meets
  <2> QED BY <1>1, <1>2, <1>3, <1>4, <1>5, <1>6, <2>1 DEF Exactly, M
<1>7. CASE Kind(m) # "min"
  <2>1. Meets(M, m) <=> M <= L
    BY <1>7 DEF Meets
  <2> QED BY <1>1, <1>2, <1>3, <1>4, <1>5, <1>7, <2>1 DEF Exactly, M
<1> QED BY <1>6, <1>7

\* A run whose rounded value misses a limit misses it.
LEMMA RunMisses ==
  ASSUME NEW o \in Outcomes, NEW m \in SuiteMetric, ~Meets(Value(o, m), m)
  PROVE  ~Exactly(o.ratio[m], m, 0)
<1> DEFINE n == o.ratio[m].n
           d == o.ratio[m].d
           v == Value(o, m)
           L == SuiteLimits[m]
<1>1. n \in Nat /\ d \in Nat /\ 0 < d /\ v \in Nat
  BY ValueBounds
<1>2. 2 * (d * v) <= 2000 * n + d /\ 2000 * n + d < 2 * (d * v) + 2 * d
  BY ValueBounds
<1>3. L \in Nat
  BY LimitIsNat
<1>4. /\ v < L => ~(1000 * n + 0 * d >= L * d)
      /\ v > L => ~(1000 * n <= (L + 0) * d)
  <2> HIDE DEF n, d, v, L
  <2>1. \A a, b \in Nat : a <= b => d * a <= d * b
    BY <1>1
  <2>2. (v < L => d * (v + 1) <= d * L) /\ (v > L => d * (L + 1) <= d * v)
    BY <1>1, <1>3, <2>1
  <2>3. /\ d * (v + 1) = d * v + d /\ d * (L + 1) = d * L + d
        /\ L * d = d * L /\ L + 0 = L /\ 0 * d = 0
        /\ d * v \in Nat /\ d * L \in Nat
    BY <1>1, <1>3
  <2> QED BY <1>1, <1>2, <1>3, <2>2, <2>3
<1>5. IF Kind(m) = "min" THEN v < L ELSE v > L
  <2> HIDE DEF v
  <2>1. ~Meets(v, m)
    BY DEF v
  <2> QED BY <1>1, <1>3, <2>1 DEF Meets
<1> HIDE DEF v
<1> QED BY <1>4, <1>5 DEF Exactly

\* The worst of the runs is one of them, and when it meets its limit all do.
LEMMA WorstIs ==
  ASSUME NEW rs \in Seq(Outcomes), Len(rs) # 0, NEW m \in SuiteMetric
  PROVE  /\ \E j \in DOMAIN rs : Worst(rs, m) = Value(rs[j], m)
         /\ Meets(Worst(rs, m), m) => \A j \in DOMAIN rs : Meets(Value(rs[j], m), m)
<1> DEFINE V == Values(rs, m)
<1>1. DOMAIN rs = 1..Len(rs) /\ Len(rs) \in Nat /\ 1 \in DOMAIN rs
  OBVIOUS
<1>2. \A j \in DOMAIN rs : Value(rs[j], m) \in Nat /\ Value(rs[j], m) \in V
  BY <1>1, ValueBounds DEF Values
<1>3. \A x \in V : \E j \in DOMAIN rs : x = Value(rs[j], m)
  BY DEF Values
<1>4. V \in SUBSET Nat /\ V # {}
  BY <1>1, <1>2, <1>3
<1>5. SuiteLimits[m] \in Nat
  BY LimitIsNat
<1>6. CASE Kind(m) = "min"
  <2>1. \E x \in V : \A y \in V : x <= y
    <3> HIDE DEF V
    <3> QED BY <1>4, Least
  <2>2. Min(V) \in V /\ \A y \in V : Min(V) <= y
    <3> HIDE DEF V
    <3> QED BY <2>1 DEF Min
  <2>3. Worst(rs, m) = Min(V)
    BY <1>6 DEF Worst
  <2> HIDE DEF V
  <2>4. ASSUME Meets(Min(V), m), NEW j \in DOMAIN rs PROVE Meets(Value(rs[j], m), m)
    <3>1. Min(V) >= SuiteLimits[m]
      BY <1>6, <2>4 DEF Meets
    <3>2. Min(V) <= Value(rs[j], m) /\ Min(V) \in Nat /\ Value(rs[j], m) \in Nat
      BY <1>2, <1>4, <2>2
    <3>3. Value(rs[j], m) >= SuiteLimits[m]
      BY <1>5, <3>1, <3>2
    <3> QED BY <1>6, <3>3 DEF Meets
  <2> QED BY <1>3, <2>2, <2>3, <2>4
<1>7. CASE Kind(m) # "min"
  <2>1. \E x \in V : \A y \in V : x >= y
    <3> DEFINE v == [i \in 1..Len(rs) |-> Value(rs[i], m)]
               k == Len(rs)
    <3>1. v \in [1..k -> Nat] /\ k \in Nat /\ k # 0
      BY <1>1, <1>2
    <3>2. PICK j \in 1..k : \A i \in 1..k : v[i] <= v[j]
      <4> HIDE DEF v, k
      <4> QED BY <3>1, Greatest
    <3>3. \A y \in V : \E i \in 1..k : y = v[i]
      BY <1>1, <1>3
    <3>4. v[j] \in V
      BY <1>1, <1>2
    <3> HIDE DEF V, v, k
    <3>5. \A y \in V : v[j] >= y
      BY <1>4, <3>1, <3>2, <3>3
    <3> QED BY <3>4, <3>5
  <2>2. Max(V) \in V /\ \A y \in V : Max(V) >= y
    <3> HIDE DEF V
    <3> QED BY <2>1 DEF Max
  <2>3. Worst(rs, m) = Max(V)
    BY <1>7 DEF Worst
  <2> HIDE DEF V
  <2>4. ASSUME Meets(Max(V), m), NEW j \in DOMAIN rs PROVE Meets(Value(rs[j], m), m)
    <3>1. Max(V) <= SuiteLimits[m]
      BY <1>7, <2>4 DEF Meets
    <3>2. Max(V) >= Value(rs[j], m) /\ Max(V) \in Nat /\ Value(rs[j], m) \in Nat
      BY <1>2, <1>4, <2>2
    <3>3. Value(rs[j], m) <= SuiteLimits[m]
      BY <1>5, <3>1, <3>2
    <3> QED BY <1>7, <3>3 DEF Meets
  <2> QED BY <1>3, <2>2, <2>3, <2>4
<1> QED BY <1>6, <1>7


\* A verdict is about all checks; its parts.
LEMMA VerdictIs ==
  ASSUME NEW rs \in Seq(Outcomes)
  PROVE  /\ CaseVerdict(rs).runs = rs
         /\ CaseVerdict(rs).pass <=> /\ \A j \in DOMAIN rs : rs[j].ok
                                     /\ \A m \in SuiteMetric : Meets(Judged(rs, m), m)
BY DEF CaseVerdict

LEMMA CaseIs ==
  ASSUME SuiteInv, NEW i \in DOMAIN cases
  PROVE  /\ cases[i].runs \in Seq(Outcomes) /\ Len(cases[i].runs) = K /\ Len(cases[i].runs) # 0
         /\ cases[i] = CaseVerdict(cases[i].runs)
<1> DEFINE S == [runs : Seq(Outcomes), pass : BOOLEAN]
<1>1. cases \in Seq(S)
  BY DEF SuiteInv, Typed
<1>2. i \in 1..Len(cases) /\ cases[i] \in S
  <2> HIDE DEF S
  <2> QED BY <1>1
<1>3. Len(cases[i].runs) = K /\ cases[i] = CaseVerdict(cases[i].runs)
  BY <1>2 DEF SuiteInv, DoneCases
<1>4. cases[i].runs \in Seq(Outcomes)
  BY <1>2
<1> QED BY <1>3, <1>4, KAssumption

\* Hard limits in steps of 0.05, as thresholds.yaml has them, and runs of so few findings that
\* thousandths are fine enough for them.
CoarseHardLimits == \A m \in SuiteMetric \cap Hard : \E k \in Nat : SuiteLimits[m] = 50 * k
FewInEachRun == \A o \in Outcomes, m \in SuiteMetric \cap Hard : o.ratio[m].d < 100

LEMMA RunMeets ==
  ASSUME NEW o \in Outcomes, NEW m \in SuiteMetric, o.ratio[m].d < 100,
         NEW k \in Nat, SuiteLimits[m] = 50 * k, Meets(Value(o, m), m)
  PROVE  Exactly(o.ratio[m], m, 0)
<1> DEFINE n == o.ratio[m].n
           d == o.ratio[m].d
           L == SuiteLimits[m]
<1>1. n \in Nat /\ d \in Nat /\ 0 < d /\ Value(o, m) = Round3(n, d)
  BY ValueBounds
<1>2. d < 100 /\ L = 50 * k
  OBVIOUS
<1>3. Meets(Round3(n, d), m)
  BY <1>1
<1> HIDE DEF n, d, L
<1>4. Round3(n, d) >= L => 1000 * n >= L * d
  BY <1>1, <1>2, LimitMet
<1>5. Round3(n, d) <= L => 1000 * n <= L * d
  BY <1>1, <1>2, LimitMet
<1>6. IF Kind(m) = "min" THEN 1000 * n + 0 * d >= L * d ELSE 1000 * n <= (L + 0) * d
  <2>1. 0 * d = 0 /\ L + 0 = L /\ 1000 * n + 0 = 1000 * n
    BY <1>1, <1>2
  <2> QED BY <1>3, <1>4, <1>5, <2>1 DEF Meets, L
<1> QED BY <1>6 DEF Exactly, n, d, L

\* A suite that passes earned it: every run verified and met every hard limit exactly, and the
\* other means are within a thousandth of their limits.
THEOREM SuitePassIsEarnedHolds ==
  ASSUME CoarseHardLimits, FewInEachRun
  PROVE  SuiteSpec => []SuitePassIsEarned
<1>1. SuiteInv => SuitePassIsEarned
  <2> SUFFICES ASSUME SuiteInv, report # NoReport, report.pass, NEW i \in DOMAIN report.cases
               PROVE  LET rs == report.cases[i].runs
                      IN  /\ \A j \in DOMAIN rs : rs[j].ok
                          /\ \A m \in SuiteMetric \cap Hard, j \in DOMAIN rs :
                               Exactly(rs[j].ratio[m], m, 0)
                          /\ \A m \in SuiteMetric \ Hard : Exactly(ExactMean(rs, m), m, 1)
    BY DEF SuitePassIsEarned
  <2> DEFINE rs == report.cases[i].runs
  <2>1. report.cases = cases /\ cases[i].pass
    BY DEF SuiteInv, Reported
  <2>2. rs \in Seq(Outcomes) /\ Len(rs) # 0 /\ cases[i] = CaseVerdict(rs)
    BY <2>1, CaseIs
  <2>3. /\ \A j \in DOMAIN rs : rs[j].ok
        /\ \A m \in SuiteMetric : Meets(Judged(rs, m), m)
    <3> HIDE DEF rs
    <3> QED BY <2>1, <2>2, VerdictIs
  <2> HIDE DEF rs
  <2>4. ASSUME NEW m \in SuiteMetric \cap Hard, NEW j \in DOMAIN rs
        PROVE  Exactly(rs[j].ratio[m], m, 0)
    <3>1. Meets(Worst(rs, m), m)
      BY <2>3 DEF Judged
    <3>2. Meets(Value(rs[j], m), m)
      BY <2>2, <3>1, WorstIs
    <3>3. rs[j] \in Outcomes
      BY <2>2
    <3>4. rs[j].ratio[m].d < 100
      BY <3>3, FewInEachRun DEF FewInEachRun
    <3>5. PICK k \in Nat : SuiteLimits[m] = 50 * k
      BY CoarseHardLimits DEF CoarseHardLimits
    <3> QED BY <3>2, <3>3, <3>4, <3>5, RunMeets
  <2>5. ASSUME NEW m \in SuiteMetric \ Hard PROVE Exactly(ExactMean(rs, m), m, 1)
    <3>1. Meets(Mean(rs, m), m)
      BY <2>3 DEF Judged
    <3> QED BY <2>2, <3>1, MeanJudged
  <2> QED BY <2>3, <2>4, <2>5 DEF rs
<1> QED BY <1>1, SuiteInvHolds, PTL

\* A case that fails deserves it, whatever the limits, the number of runs and the ratios: no
\* rounding fails it, unless the noise is exactly at its limit.
THEOREM FailIsDeservedHolds == SuiteSpec => []FailIsDeserved
<1>1. SuiteInv => FailIsDeserved
  <2> SUFFICES ASSUME SuiteInv, NEW i \in DOMAIN cases, ~cases[i].pass
               PROVE  LET rs == cases[i].runs
                          Clear(r, m) == IF Kind(m) = "min" THEN 1000 * r.n >= SuiteLimits[m] * r.d
                                         ELSE 1000 * r.n < SuiteLimits[m] * r.d
                      IN  \/ \E j \in DOMAIN rs : ~rs[j].ok
                          \/ \E m \in SuiteMetric \cap Hard, j \in DOMAIN rs :
                               ~Exactly(rs[j].ratio[m], m, 0)
                          \/ \E m \in SuiteMetric \ Hard : ~Clear(ExactMean(rs, m), m)
    BY DEF FailIsDeserved
  <2> DEFINE rs == cases[i].runs
             Clear(r, m) == IF Kind(m) = "min" THEN 1000 * r.n >= SuiteLimits[m] * r.d
                            ELSE 1000 * r.n < SuiteLimits[m] * r.d
  <2>1. ~cases[i].pass
    OBVIOUS
  <2>2. rs \in Seq(Outcomes) /\ Len(rs) # 0 /\ cases[i] = CaseVerdict(rs)
    BY CaseIs
  <2> HIDE DEF rs
  <2>3. \/ \E j \in DOMAIN rs : ~rs[j].ok
        \/ \E m \in SuiteMetric : ~Meets(Judged(rs, m), m)
    BY <2>1, <2>2, VerdictIs
  <2>4. ASSUME NEW m \in SuiteMetric \cap Hard, ~Meets(Judged(rs, m), m)
        PROVE  \E j \in DOMAIN rs : ~Exactly(rs[j].ratio[m], m, 0)
    <3>1. PICK j \in DOMAIN rs : Worst(rs, m) = Value(rs[j], m)
      BY <2>2, WorstIs
    <3>2. ~Meets(Value(rs[j], m), m) /\ rs[j] \in Outcomes
      BY <2>2, <2>4, <3>1 DEF Judged
    <3> QED BY <3>2, RunMisses
  <2>5. ASSUME NEW m \in SuiteMetric \ Hard, ~Meets(Judged(rs, m), m)
        PROVE  ~Clear(ExactMean(rs, m), m)
    <3>1. ~Meets(Mean(rs, m), m)
      BY <2>5 DEF Judged
    <3>2. IF Kind(m) = "min"
          THEN ~(1000 * ExactMean(rs, m).n >= SuiteLimits[m] * ExactMean(rs, m).d)
          ELSE ~(1000 * ExactMean(rs, m).n < SuiteLimits[m] * ExactMean(rs, m).d)
      BY <2>2, <3>1, MeanJudged
    <3> QED BY <3>2
  <2> HIDE DEF Clear
  <2>6. \/ \E j \in DOMAIN rs : ~rs[j].ok
        \/ \E m \in SuiteMetric \cap Hard, j \in DOMAIN rs : ~Exactly(rs[j].ratio[m], m, 0)
        \/ \E m \in SuiteMetric \ Hard : ~Clear(ExactMean(rs, m), m)
    BY <2>3, <2>4, <2>5
  <2> QED BY <2>6 DEF rs, Clear
<1> QED BY <1>1, SuiteInvHolds, PTL
================================================================================
