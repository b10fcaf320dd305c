---------------------------- MODULE MCBranchHistory ----------------------------
(***************************************************************************)
(* A context with two elements on a branch of at most three commits, for H5*)
(* and D15, and, for S7, a design on a branch of two commits and a glossary*)
(* on one of a single commit, with IDs in two series.  They share the      *)
(* constants, and Fits says which of them each kind of file has: people    *)
(* draft contexts and break their headers, and supersede the others.       *)
(***************************************************************************)
EXTENDS BranchHistory

ID(s, k) == [series |-> s, n |-> k]
TwoItems == {ID("REQ0", 1), ID("REQ0", 2)}
TwoSeries == TwoItems \cup {ID("REQ1", 101)}

MCHeader(v, s) == [version |-> v, status |-> s]
Published == {MCHeader(1, "approved"), MCHeader(2, "approved")}
Drafted == Published \cup {MCHeader(2, "draft")}
Retired == Published \cup {MCHeader(2, "superseded")}
MCHeaders == Drafted \cup Retired

\* What another branch left: fewer elements of a context, or new IDs of a design.
MCOthers == {NoFile} \cup
  {[header |-> MCHeader(2, "approved"), items |-> items] :
     items \in {{ID("REQ0", 1)}, {ID("REQ0", 2), ID("REQ1", 101)}}}

Made(headers, items) == {NoFile} \cup [header : headers, items : SUBSET items]
Contexts == Made(Drafted \cup {Garbled}, TwoItems)
Texts == Made(Retired, TwoSeries)
Fits ==
  \/ kind = "context" /\ {main, tree} \subseteq Contexts
  \/ kind = "design" /\ Len(log) <= 2 /\ {main, tree} \subseteq Texts
  \/ kind = "glossary" /\ Len(log) <= 1 /\ {main, tree} \subseteq Texts
=============================================================================
