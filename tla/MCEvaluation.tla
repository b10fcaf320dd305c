------------------------------ MODULE MCEvaluation ------------------------------
(***************************************************************************)
(* The three programs of the eval-runner, on small instances: kind says    *)
(* which of them a behaviour is about, and the other two stand still.      *)
(*                                                                         *)
(* "seeded": up to three expected findings and up to three findings of an  *)
(* analysis, about two targets, with every mixture of fitting and unfitting*)
(* types, severities and routes that the choices below allow.              *)
(*                                                                         *)
(* "golden": up to three reference requirements and up to two of a run,    *)
(* over four terms and two contexts: every shape of competition for one    *)
(* requirement, with equivalents, partial matches, merges and pairs that   *)
(* are neither.                                                            *)
(*                                                                         *)
(* "suite": two suites of two cases with two runs each: one of seeded      *)
(* cases, and one whose second case is not.  The limits are on a hard      *)
(* metric, on a metric judged on the mean, and on noise, whose limit is an *)
(* upper one.                                                              *)
(***************************************************************************)
EXTENDS Scoring, Alignment, Suite

VARIABLE kind

MCExpect(id, affects, min) ==
  [id |-> id, types |-> {"conflict"}, affects |-> affects, min |-> min, routes |-> {"human"}]

MCExpectations ==
  LET One(i) == {MCExpect(i, t, s) : t \in {{"G1"}, {"G1", "G2"}}, s \in {2, 3}}
  IN  {{e, f} : e \in One(1), f \in One(2)}
      \cup {{e} : e \in One(1)}
      \cup {{MCExpect(1, {"G1"}, 3), MCExpect(2, {"G1"}, 3), MCExpect(3, {"G1", "G2"}, 2)}}

MCFinding(n, prefix, type, severity, route, affects, withdrawn) ==
  [n |-> n, prefix |-> prefix, type |-> type, severity |-> severity, route |-> route,
   affects |-> affects, withdrawn |-> withdrawn]

\* The first finding is any of these, the second about G1, the third (of the other prefix,
\* with the number of the second) may be withdrawn or of an unknown severity.
Firsts == {MCFinding(1, 1, t, s, r, x, FALSE) :
             t \in Type, s \in {2, 3}, r \in Route, x \in {{"G1"}, {"G2"}, {"G1", "G2"}}}
Seconds == {MCFinding(2, 1, t, s, "human", {"G1"}, FALSE) : t \in Type, s \in {1, 3}}
Thirds == {MCFinding(2, 0, "conflict", s, "human", {"G2"}, w) : s \in {0, 3}, w \in BOOLEAN}

MCAnalyses ==
  {{}} \cup {{a} : a \in Firsts} \cup {{a, b} : a \in Firsts, b \in Seconds}
       \cup {{a, b, c} : a \in Firsts, b \in Seconds, c \in Thirds}

MCScoreLimits ==
  [recall_blocker |-> 1000, recall_all |-> 850, severity |-> 800, route |-> 800, noise |-> 350]

---------------------------------------------------------------------------
MCReq(i, context, terms, priority) ==
  [id |-> i, context |-> context, terms |-> terms, priority |-> priority]

TermSets == {{}, {"t1", "t2"}, {"t1", "t2", "t3"}, {"t2", "t3", "t4"}}

MCReferences ==
  {{}} \cup
  {{MCReq(1, "c1", s, "must"), MCReq(2, "c1", t, p), MCReq(3, c, u, "could")} :
     s, t, u \in TermSets \ {{}}, p \in {"should", "must"}, c \in {"c1", "c2"}}

MCRuns ==
  {{MCReq(1, "c1", s, "must")} : s \in TermSets}
  \cup {{MCReq(1, "c1", s, "must"), MCReq(2, c, t, "wont")} :
          s, t \in TermSets, c \in {"c1", "c2"}}

---------------------------------------------------------------------------
Q(n, d) == [n |-> n, d |-> d]
Three(blocker, route, noise) == ("recall.blocker" :> blocker) @@ ("route_accuracy" :> route)
                                  @@ ("noise" :> noise)
Outcome(ok, ratio) == [ok |-> ok, ratio |-> ratio]

\* thresholds.yaml asks for 1.0 of recall.blocker, where the worst run and the mean agree;
\* it calls its values proposals to tune, and a lower one tells the two apart.
MCSuiteLimits == Three(700, 800, 350)
MCHard == {"recall.blocker", "must_miss"}

Two == <<[seeded |-> TRUE], [seeded |-> TRUE]>>
GoldenSecond == <<[seeded |-> TRUE], [seeded |-> FALSE]>>
MCLists == {Two, GoldenSecond}

Good == Outcome(TRUE, Three(Q(2, 2), Q(5, 6), Q(0, 4)))
MCOutcomes ==
  {Good,
   Outcome(FALSE, Good.ratio),                                \* verify failed
   Outcome(TRUE, Three(Q(1, 2), Q(5, 6), Q(0, 4))),           \* a blocker missed
   Outcome(TRUE, Three(Q(2, 2), Q(5, 7), Q(1, 3))),           \* below one limit
   Outcome(TRUE, Three(Q(2, 2), Q(23, 26), Q(2, 3)))}         \* noisy

\* With one run of the last two kinds each, the exact mean of route_accuracy is a little
\* below 0.8 and the rounded one is 0.8.

---------------------------------------------------------------------------
\* Where the programs stand that the behaviour is not about.
SeededIdle == expected = {MCExpect(1, {"G1"}, 2)} /\ actual = {}
GoldenIdle == R = {} /\ A = {MCReq(1, "c1", {}, "must")}
SuiteIdle == list = Two

EvaluationInit ==
  /\ kind \in {"seeded", "golden", "suite"}
  /\ kind = "seeded" \/ SeededIdle
  /\ kind = "golden" \/ GoldenIdle
  /\ kind = "suite" \/ SuiteIdle
  /\ Init /\ AlignmentInit /\ SuiteInit

EvaluationNext ==
  /\ UNCHANGED kind
  /\ \/ kind = "seeded" /\ Next /\ UNCHANGED <<alignmentVars, suiteVars>>
     \/ kind = "golden" /\ AlignmentNext /\ UNCHANGED <<vars, suiteVars>>
     \/ kind = "suite" /\ SuiteNext /\ UNCHANGED <<vars, alignmentVars>>

EvaluationSpec == EvaluationInit /\ [][EvaluationNext]_<<kind, vars, alignmentVars, suiteVars>>
=============================================================================
