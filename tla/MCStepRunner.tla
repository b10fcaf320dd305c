------------------------------ MODULE MCStepRunner ------------------------------
(***************************************************************************)
(* Two runs of one process, each with an analysis of one finding about up  *)
(* to two goals.  Of the cases, one has no trace.yaml, one has a trace.yaml*)
(* that does not end as the tool leaves it, and one brings the links of a  *)
(* person and of an earlier run of the step.                               *)
(***************************************************************************)
EXTENDS StepRunner

RAF(k) == [prefix |-> "RAF", home |-> "spec", n |-> k]
GOAL(k) == [prefix |-> "GOAL", home |-> "spec", n |-> k]

MCLink(f, t, b, r) == [from |-> f, rel |-> "affects", to |-> t, by |-> b, run |-> r]
MCCall(f, t) == [from |-> f, rel |-> "affects", to |-> t]
MCText(h, blocks, bad) == [header |-> h, blocks |-> blocks, bad |-> bad]

MCRun(c, r) == [case |-> c, step |-> "req-analysis", run |-> r]

OneFinding == {RAF(1), GOAL(1), GOAL(2)}
Blocks1(a) == [id \in {RAF(1)} |-> a]
Skeleton1 == MCText("given", Blocks1("missing"), FALSE)

\* A good analysis, one with another header and an error of its own, and one without
\* frontmatter.
Texts1 == {MCText("given", Blocks1("live"), FALSE), MCText("changed", Blocks1("live"), TRUE),
           MCText("absent", Blocks1("live"), FALSE)}
Calls1 == {MCCall(RAF(1), GOAL(1)), MCCall(RAF(1), GOAL(2))}

Fresh == [trace |-> <<>>, pinned |-> TRUE, loose |-> FALSE]
Loose == [trace |-> <<>>, pinned |-> FALSE, loose |-> TRUE]
Given == [trace |-> <<MCLink(RAF(1), GOAL(1), "human", "none"),
                      MCLink(RAF(1), GOAL(2), "req-analysis", "r0")>>,
          pinned |-> FALSE, loose |-> FALSE]
AllCases == {Fresh, Loose, Given}

\* Two runs under ids of their own, and two runs of one case under the same id.
PlanTwo == <<MCRun(Fresh, "r1"), MCRun(Given, "r2")>>
PlanAgain == <<MCRun(Loose, "r1"), MCRun(Loose, "r1")>>
PlanThree == <<MCRun(Given, "r2"), MCRun(Loose, "r1"), MCRun(Loose, "r1")>>
=============================================================================
