------------------------------- MODULE Alignment -------------------------------
(***************************************************************************)
(* scoreGolden (packages/eval-runner/src/score.ts, evals/scoring.md        *)
(* section B): the requirements of a run are aligned to those of a         *)
(* reference by the vocabulary they share.  A first loop over the          *)
(* candidate pairs assigns one-to-one, a second gives the reference        *)
(* requirements that were left out to actual ones already assigned         *)
(* (merges), and the decisions become the coverage and the verdict.        *)
(***************************************************************************)
EXTENDS Naturals, FiniteSets

CONSTANTS
  Term, Context, \* what requirements are about
  References,    \* the sets of reference requirements to align to
  Runs,          \* the sets of live requirements a run may have written
  CoverageLimit  \* thresholds.yaml, ref_coverage of req-generation, in thousandths

VARIABLES
  R, A,     \* the reference and the run's requirements
  pass,     \* "assign" or "merge": which loop runs; "scored" after both
  pairs,    \* the pairs the loop has not looked at
  decided,  \* res: the decision of every reference requirement that has one
  verdict   \* what the score says, once "scored"

alignmentVars == <<R, A, pass, pairs, decided, verdict>>

Priority == {"must", "should", "could", "wont"}
Requirement == [id : Nat, context : Context, terms : SUBSET Term, priority : Priority]

\* The IDs of a document are unique, and a requirement is about finitely many terms.
ASSUME RequirementsAssumption ==
  \A S \in References \cup Runs : /\ S \subseteq Requirement /\ IsFiniteSet(S)
                                  /\ \A x, y \in S : x.id = y.id => x = y
                                  /\ \A x \in S : IsFiniteSet(x.terms)
ASSUME CoverageAssumption == CoverageLimit \in Nat

\* The Jaccard similarity of the terms is Shared / All, and 0 when there are none.
Shared(p) == Cardinality(p.r.terms \cap p.a.terms)
All(p) == Cardinality(p.r.terms \cup p.a.terms)
AtLeast(p, tenths) == All(p) > 0 /\ 10 * Shared(p) >= tenths * All(p)
Nearer(p, q) == Shared(p) * All(q) > Shared(q) * All(p)

Equivalent(p) == AtLeast(p, 6)
Alignable(X, Y) ==
  {p \in [r : X, a : Y] : p.r.context = p.a.context /\ AtLeast(p, 4)}

\* Faulty: the order of the IDs comes before the similarity.
AheadById(p, q) ==
  \/ Equivalent(p) /\ ~Equivalent(q)
  \/ /\ Equivalent(p) <=> Equivalent(q)
     /\ \/ p.r.id < q.r.id
        \/ p.r.id = q.r.id /\ p.a.id < q.a.id

\* The order of the sort: equivalents, then by Jaccard, then by the IDs.
Ahead(p, q) ==
  \/ Equivalent(p) /\ ~Equivalent(q)
  \/ /\ Equivalent(p) <=> Equivalent(q)
     /\ \/ Nearer(p, q)
        \/ ~Nearer(q, p) /\ p.r.id < q.r.id
        \/ ~Nearer(q, p) /\ p.r.id = q.r.id /\ p.a.id < q.a.id

First(p, S) == \A q \in S \ {p} : Ahead(p, q)

\* A decision is a pair and what was decided about it: "equivalent", "partial" or "merged".
HasDecision(r) == \E d \in decided : d.pair.r = r

\* Faulty: only what a merge took is used.
UsedByMerge(a) == \E d \in decided : d.pair.a = a /\ d.kind = "merged"

Used(a) == \E d \in decided : d.pair.a = a

Weight(r) == CASE r.priority = "must" -> 3 [] r.priority = "should" -> 2
               [] r.priority = "could" -> 1 [] OTHER -> 0

\* The weights of a set of requirements, added up priority by priority.
Sum(S) == 3 * Cardinality({r \in S : Weight(r) = 3}) + 2 * Cardinality({r \in S : Weight(r) = 2})
            + Cardinality({r \in S : Weight(r) = 1})

\* The weighted credits, in halves: an equivalent counts twice, the others once.
Credit(ds) ==
  Sum({d.pair.r : d \in ds}) + Sum({d.pair.r : d \in {x \in ds : x.kind = "equivalent"}})

\* ref_coverage, round3 of a ratio, and 0 when no reference requirement has a weight.
Coverage(X, ds) == IF Sum(X) = 0 THEN 0 ELSE (2000 * Credit(ds) + 2 * Sum(X)) \div (4 * Sum(X))

\* must_miss: the must requirements of the reference without a decision.
MustMissed(X, ds) == {r \in X : r.priority = "must" /\ \A d \in ds : d.pair.r # r}

NoVerdict == [coverage |-> 0, pass |-> FALSE]

---------------------------------------------------------------------------
AlignmentInit ==
  /\ R \in References /\ A \in Runs
  /\ pass = "assign"
  /\ pairs = Alignable(R, A)
  /\ decided = {}
  /\ verdict = NoVerdict

\* The first loop: a pair is assigned unless one of its requirements is used.
Align(p) ==
  /\ pass = "assign" /\ First(p, pairs)
  /\ pairs' = pairs \ {p}
  /\ decided' =
       IF HasDecision(p.r) \/ Used(p.a) THEN decided
       ELSE decided \cup {[pair |-> p, kind |-> IF Equivalent(p) THEN "equivalent" ELSE "partial"]}
  /\ UNCHANGED <<R, A, pass, verdict>>

\* Faulty: the second loop has no pairs left to look at.
StartMergingEmpty ==
  /\ pass = "assign" /\ pairs = {}
  /\ pass' = "merge"
  /\ UNCHANGED <<R, A, pairs, decided, verdict>>

\* The second loop goes over the same pairs again.
StartMerging ==
  /\ pass = "assign" /\ pairs = {}
  /\ pass' = "merge"
  /\ pairs' = Alignable(R, A)
  /\ UNCHANGED <<R, A, decided, verdict>>

\* Faulty: a partial match is merged too.
MergePartial(p) ==
  /\ pass = "merge" /\ First(p, pairs)
  /\ pairs' = pairs \ {p}
  /\ decided' = IF HasDecision(p.r) THEN decided
                ELSE decided \cup {[pair |-> p, kind |-> "merged"]}
  /\ UNCHANGED <<R, A, pass, verdict>>

Merge(p) ==
  /\ pass = "merge" /\ First(p, pairs)
  /\ pairs' = pairs \ {p}
  /\ decided' =
       IF HasDecision(p.r) \/ ~Equivalent(p) THEN decided
       ELSE decided \cup {[pair |-> p, kind |-> "merged"]}
  /\ UNCHANGED <<R, A, pass, verdict>>

Judge ==
  /\ pass = "merge" /\ pairs = {}
  /\ pass' = "scored"
  /\ verdict' = [coverage |-> Coverage(R, decided),
                 pass |-> /\ Coverage(R, decided) >= CoverageLimit
                          /\ MustMissed(R, decided) = {}]
  /\ UNCHANGED <<R, A, pairs, decided>>

AlignmentNext == (\E p \in pairs : Align(p) \/ Merge(p)) \/ StartMerging \/ Judge

AlignmentSpec == AlignmentInit /\ [][AlignmentNext]_alignmentVars

---------------------------------------------------------------------------
\* scoring.md section B, step 3, "Assign one-to-one": no reference requirement has two
\* decisions, and no requirement of the run is assigned twice; only merges share it.
AlignedOneToOne ==
  \A d, e \in decided :
    /\ d.pair.r = e.pair.r => d = e
    /\ d.pair.a = e.pair.a /\ "merged" \notin {d.kind, e.kind} => d = e

\* "when an actual REQ already matched covers another reference REQ equivalently": what a
\* merge shares was assigned as the equivalent of another reference requirement, although
\* the second loop never looks whether it was assigned at all.
MergedIntoMatched ==
  \A d \in decided : d.kind = "merged" =>
    \E e \in decided : e.pair.a = d.pair.a /\ e.kind = "equivalent" /\ e.pair.r # d.pair.r

\* No obligation the run covers is reported missing: a reference requirement that has an
\* equivalent in the run has a decision at the end, whatever the other pairs took; and the
\* run passes only when every must requirement has one.
CoveredIsDecided ==
  pass = "scored" =>
    /\ \A p \in Alignable(R, A) : Equivalent(p) => HasDecision(p.r)
    /\ verdict.pass => \A r \in R : r.priority = "must" => HasDecision(r)

\* "equivalents first, then by Jaccard": a candidate is passed over only because a nearer
\* pair, or one as near, took one of its requirements.
NearestFirst ==
  pass # "assign" =>
    \A c \in Alignable(R, A) :
      \E d \in decided : /\ d.pair.r = c.r \/ d.pair.a = c.a
                         /\ ~Nearer(c, d.pair)
=============================================================================
