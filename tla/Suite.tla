--------------------------------- MODULE Suite ---------------------------------
(***************************************************************************)
(* runSuite (packages/eval-runner/src/suite.ts): every case is run K times *)
(* with runStep, every run is scored, the scores are aggregated into the   *)
(* checks of the case (hard metrics on the worst run, the others on the    *)
(* mean), and the cases into the report.  Anything that throws ends the    *)
(* suite where it is.                                                      *)
(*                                                                         *)
(* What a run may come to is one of Outcomes: whether it verified, and its *)
(* metrics as exact ratios [n, d].  The code has them in thousandths only. *)
(***************************************************************************)
EXTENDS Naturals, FiniteSetsExt, SequencesExt

CONSTANTS
  CaseLists, \* the suites: each the list of its cases, [seeded]
  K,         \* runs per case
  Outcomes,  \* what one run may come to: [ok, ratio]
  Hard,      \* thresholds.yaml, regression.never_regress
  SuiteLimits \* thresholds.yaml, release of the step, in thousandths

VARIABLES
  list,     \* the cases of this suite, in order
  at,       \* the case the suite is at
  stage,    \* what it does there
  runs,     \* the runs of this case that were made, in order
  files,    \* score.json and score.md of the runs
  cases,    \* the verdicts of the cases that are done
  report,   \* report.json: NoReport, or the verdict of the suite
  page,     \* report.md is there
  status    \* what the caller of runSuite saw

suiteVars == <<list, at, stage, runs, files, cases, report, page, status>>

SuiteMetric == DOMAIN SuiteLimits
Kind(m) == IF m = "noise" THEN "max" ELSE "min"
Ratios == [n : Nat, d : Nat \ {0}]

ASSUME KAssumption == K \in Nat \ {0}
ASSUME CasesAssumption == CaseLists \subseteq Seq([seeded : BOOLEAN])
ASSUME SuiteLimitsAssumption == SuiteLimits \in [SuiteMetric -> 0..1000] /\ Hard \subseteq STRING
ASSUME OutcomesAssumption ==
  Outcomes \subseteq [ok : BOOLEAN, ratio : [SuiteMetric -> Ratios]]

\* round3, of a ratio and of the mean of thousandths.
SuiteRound3(n, d) == (2000 * n + d) \div (2 * d)
Value(o, m) == SuiteRound3(o.ratio[m].n, o.ratio[m].d)
Values(rs, m) == {Value(rs[i], m) : i \in DOMAIN rs}
Total(rs, m) ==
  LET sum[i \in 0..Len(rs)] == IF i = 0 THEN 0 ELSE sum[i - 1] + Value(rs[i], m)
  IN  sum[Len(rs)]
Mean(rs, m) == (2 * Total(rs, m) + Len(rs)) \div (2 * Len(rs))

\* aggregate: the worst run for a hard metric, the mean for another.
Worst(rs, m) == IF Kind(m) = "min" THEN Min(Values(rs, m)) ELSE Max(Values(rs, m))
\* Faulty: one basis for every metric.
JudgedOnMean(rs, m) == Mean(rs, m)
JudgedOnWorst(rs, m) == Worst(rs, m)

Judged(rs, m) == IF m \in Hard THEN Worst(rs, m) ELSE Mean(rs, m)
Meets(value, m) == IF Kind(m) = "min" THEN value >= SuiteLimits[m] ELSE value <= SuiteLimits[m]

\* A case passes when every run verified and every check holds.
CaseVerdict(rs) ==
  [runs |-> rs, pass |-> /\ \A i \in DOMAIN rs : rs[i].ok
                         /\ \A m \in SuiteMetric : Meets(Judged(rs, m), m)]

NoReport == [cases |-> <<>>]

---------------------------------------------------------------------------
SuiteInit ==
  /\ list \in CaseLists
  /\ at = 1 /\ stage = "case"
  /\ runs = <<>> /\ files = {} /\ cases = <<>>
  /\ report = NoReport /\ page = FALSE
  /\ status = "running"

Goes(from, to) == status = "running" /\ stage = from /\ stage' = to /\ UNCHANGED status

\* The next case is loaded, and refused unless it is a seeded one.
BeginCase ==
  /\ Goes("case", "run")
  /\ at <= Len(list) /\ list[at].seeded
  /\ runs' = <<>>
  /\ UNCHANGED <<list, at, files, cases, report, page>>

Refuse ==
  /\ status = "running" /\ stage = "case"
  /\ at <= Len(list) /\ ~list[at].seeded
  /\ status' = "refused"
  /\ UNCHANGED <<list, at, stage, runs, files, cases, report, page>>

\* runStep returns and the run is scored; the log tells of it.
Run(o) ==
  /\ Goes("run", "json")
  /\ Len(runs) < K
  /\ runs' = Append(runs, o)
  /\ UNCHANGED <<list, at, files, cases, report, page>>

WriteScore(kind, next) ==
  /\ Goes(kind, next)
  /\ files' = files \cup {<<at, Len(runs), kind>>}
  /\ UNCHANGED <<list, at, runs, cases, report, page>>

\* After the K-th run the case has its verdict.
EndCase ==
  /\ Goes("run", "case")
  /\ Len(runs) = K
  /\ cases' = Append(cases, CaseVerdict(runs))
  /\ at' = at + 1
  /\ UNCHANGED <<list, runs, files, report, page>>

\* Faulty: the last case is left out.
WriteReportEarly ==
  /\ Goes("case", "page")
  /\ at >= Len(list)
  /\ report' = [cases |-> cases, pass |-> \A i \in DOMAIN cases : cases[i].pass]
  /\ UNCHANGED <<list, at, runs, files, cases, page>>

\* After the last case: report.json, report.md, and the return.
WriteReport ==
  /\ Goes("case", "page")
  /\ at > Len(list)
  /\ report' = [cases |-> cases, pass |-> \A i \in DOMAIN cases : cases[i].pass]
  /\ UNCHANGED <<list, at, runs, files, cases, page>>

WritePage ==
  /\ Goes("page", "return")
  /\ page' = TRUE
  /\ UNCHANGED <<list, at, runs, files, cases, report>>

Return ==
  /\ status = "running" /\ stage = "return"
  /\ status' = "returned"
  /\ UNCHANGED <<list, at, stage, runs, files, cases, report, page>>

\* The case does not load, runStep or the scoring throws, a file cannot be written, or the
\* process dies: no try is around any of it.
Abort ==
  /\ status = "running"
  /\ status' = "aborted"
  /\ UNCHANGED <<list, at, stage, runs, files, cases, report, page>>

SuiteNext ==
  \/ BeginCase \/ Refuse \/ EndCase \/ WriteReport \/ WritePage \/ Return \/ Abort
  \/ \E o \in Outcomes : Run(o)
  \/ WriteScore("json", "md") \/ WriteScore("md", "run")

SuiteSpec == SuiteInit /\ [][SuiteNext]_suiteVars

---------------------------------------------------------------------------
\* The exact mean of a metric over runs, as a ratio.
ExactMean(rs, m) ==
  LET Plus(a, r) == [n |-> a.n * r.d + r.n * a.d, d |-> a.d * r.d]
      sum[i \in 0..Len(rs)] ==
        IF i = 0 THEN [n |-> 0, d |-> 1] ELSE Plus(sum[i - 1], rs[i].ratio[m])
  IN  [n |-> sum[Len(rs)].n, d |-> sum[Len(rs)].d * Len(rs)]

\* slack is in thousandths.
Exactly(r, m, slack) ==
  IF Kind(m) = "min" THEN 1000 * r.n + slack * r.d >= SuiteLimits[m] * r.d
  ELSE 1000 * r.n <= (SuiteLimits[m] + slack) * r.d

\* The header of suite.ts: a run that fails verify, or whose hard metric is below the limit,
\* fails its case and the suite, however good the other runs are; and roundings cannot hide
\* more than a thousandth of a mean.
SuitePassIsEarned ==
  report # NoReport /\ report.pass =>
    \A i \in DOMAIN report.cases :
      LET rs == report.cases[i].runs
      IN  /\ \A j \in DOMAIN rs : rs[j].ok
          /\ \A m \in SuiteMetric \cap Hard, j \in DOMAIN rs : Exactly(rs[j].ratio[m], m, 0)
          /\ \A m \in SuiteMetric \ Hard : Exactly(ExactMean(rs, m), m, 1)

\* A case that fails has a run that did not verify, a hard metric below the limit in some
\* run, or a mean that misses its limit: a bad value of another metric in one run alone does
\* not fail it, and no rounding does, unless the noise is exactly at its limit.
FailIsDeserved ==
  \A i \in DOMAIN cases : ~cases[i].pass =>
    LET rs == cases[i].runs
        Clear(r, m) == IF Kind(m) = "min" THEN 1000 * r.n >= SuiteLimits[m] * r.d
                       ELSE 1000 * r.n < SuiteLimits[m] * r.d
    IN  \/ \E j \in DOMAIN rs : ~rs[j].ok
        \/ \E m \in SuiteMetric \cap Hard, j \in DOMAIN rs : ~Exactly(rs[j].ratio[m], m, 0)
        \/ \E m \in SuiteMetric \ Hard : ~Clear(ExactMean(rs, m), m)

\* A report is there only when it speaks of every case with all its K runs, and each of
\* those runs left its score beside it; report.md comes after report.json, and a suite that
\* returned has both.
ReportIsComplete ==
  /\ report # NoReport =>
       /\ Len(report.cases) = Len(list)
       /\ \A i \in DOMAIN report.cases :
            /\ Len(report.cases[i].runs) = K
            /\ \A j \in 1..K, kind \in {"json", "md"} : <<i, j, kind>> \in files
  /\ page => report # NoReport
  /\ status = "returned" => page
=============================================================================
