------------------------------ MODULE MCTraceFile ------------------------------
(***************************************************************************)
(* Small instances of TraceFile: two findings and a requirement of the     *)
(* spec, one goal, two steps and a person, and trace.yaml files in the     *)
(* shapes that the tool treats differently.                                *)
(***************************************************************************)
EXTENDS TraceFile

RAF(k) == [prefix |-> "RAF", home |-> "spec", n |-> k]
GOAL(k) == [prefix |-> "GOAL", home |-> "spec", n |-> k]
TERM(k) == [prefix |-> "TERM", home |-> "domain", n |-> k]

MCId == {RAF(1), RAF(2), GOAL(1), TERM(1)}
MCEditable == {RAF(1)}

L(f, rel, t, b, r) == [from |-> f, rel |-> rel, to |-> t, by |-> b, run |-> r]

Mine    == L(RAF(1), "affects", GOAL(1), "req-analysis", "r1")
Theirs  == L(RAF(2), "resolved-by", GOAL(1), "req-generation", NoRun)
Persons == L(RAF(2), "affects", GOAL(1), Human, NoRun)
Again   == L(RAF(1), "affects", GOAL(1), Human, NoRun)

Call(f, rel, t) == [from |-> f, rel |-> rel, to |-> t]
MCCalls == { Call(RAF(1), "affects", GOAL(1)), Call(RAF(2), "affects", GOAL(1)),
             Call(RAF(2), "resolved-by", GOAL(1)), Call(RAF(1), "realizes", GOAL(1)),
             Call(TERM(1), "affects", GOAL(1)), Call(RAF(1), "affects", RAF(2)) }

MCHumanLinks == {Persons, Again}

Ln(k) == [kind |-> k, items |-> <<>>]
It(k, x) == [kind |-> k, items |-> <<x>>]

\* The shapes the runner and people write: the template's empty flow list, a null key, a
\* block list with comments and a continued item, the header last, no links key at all,
\* a flow list with an item per row, an empty flow list over two lines, no header, an item
\* without its `to` at the end.
MCBlockFiles ==
  { <<Ln("header"), Ln("flow"), Ln("note"), Ln("blank")>>,
    <<Ln("header"), Ln("links"), Ln("note"), Ln("blank")>>,
    <<Ln("note"), Ln("header"), Ln("links"), It("item", Theirs), Ln("note"),
      It("item+", Mine), Ln("cont"), Ln("blank")>>,
    <<Ln("links"), It("item", Mine), It("item", Persons), Ln("header"), Ln("blank")>>,
    <<Ln("header"), Ln("note"), Ln("blank")>>,
    <<Ln("header"), Ln("flow["), It("row", Mine), It("row", Theirs), It("row]", Persons), Ln("blank")>>,
    <<Ln("header"), Ln("flow["), Ln("row]"), Ln("blank")>>,
    <<Ln("note"), Ln("links"), It("item", Mine), Ln("blank")>>,
    <<Ln("header"), Ln("links"), It("item", Mine), It("item", Malformed), Ln("blank")>> }

\* They are files as the theorems about TraceFile ask for.
ASSUME BlockFilesAssumption == \A f \in MCBlockFiles : Orderly(f)

\* A person has put several links on one line.
MCFlowFiles ==
  { <<Ln("header"), [kind |-> "flow", items |-> <<Mine, Theirs, Persons>>], Ln("blank")>> }
=============================================================================
