------------------------------ MODULE TraceRules ------------------------------
(***************************************************************************)
(* The traceability rules of spec-lint (packages/spec-lint/src/rules/      *)
(* trace.ts) as pure operators.  trace_link and the linter share the same  *)
(* tables in the code, so the modules of both share this one.              *)
(*                                                                         *)
(* An ID is a record: its prefix ("RAF", "GOAL", ...), where it is defined *)
(* ("spec" for a block of this spec, "domain" for a glossary TERM or a     *)
(* context of the map, "sibling" for SPEC-nnnn/ID) and a number.  A link   *)
(* is a record [from, rel, to, by, run], a trace a sequence of links.      *)
(***************************************************************************)
EXTENDS Naturals, SequencesExt

Rel == {"derives-from", "assumes", "affects", "resolved-by", "realizes",
        "decides", "addresses", "implements", "tests"}

Prefix == {"STK", "GOAL", "NG", "CON", "SC", "ASM", "Q", "TERM", "RAF", "REQ",
           "AC", "DAF", "DES", "ADR", "TASK", "TEST", "domain-context"}

Resolution == {"live", "withdrawn", "missing"}

\* ALLOWED: the (from, to) prefixes each rel may join.
ALLOWED ==
  { [rel |-> "derives-from", from |-> {"REQ"},        to |-> {"GOAL", "CON", "SC"}],
    [rel |-> "assumes",      from |-> {"REQ", "DES"}, to |-> {"ASM"}],
    [rel |-> "affects",      from |-> {"RAF"},
       to |-> {"STK", "GOAL", "NG", "CON", "SC", "ASM", "Q", "TERM", "REQ", "AC"}],
    [rel |-> "affects",      from |-> {"DAF"},  to |-> {"REQ", "AC", "DES", "ADR", "TERM"}],
    [rel |-> "resolved-by",  from |-> {"RAF", "DAF"}, to |-> Prefix],
    [rel |-> "realizes",     from |-> {"DES"},  to |-> {"REQ", "AC"}],
    [rel |-> "decides",      from |-> {"ADR"},  to |-> {"DES"}],
    [rel |-> "addresses",    from |-> {"ADR"},  to |-> {"DAF", "REQ"}],
    [rel |-> "implements",   from |-> {"TASK"}, to |-> {"DES"}],
    [rel |-> "tests",        from |-> {"TEST"}, to |-> {"AC"}] }

\* relError(rel, from, to) is null: some rule of the table admits the pair.
RelAllowed(rel, from, to) ==
  \E rule \in ALLOWED : /\ rule.rel = rel
                        /\ from.prefix \in rule.from
                        /\ to.prefix \in rule.to

\* What a link's `from` is in the spec's ID index: only the spec's own blocks are in it.
ResolveFrom(entry, id) == IF id.home = "spec" THEN entry[id] ELSE "missing"

\* resolveTo: the ID index, then the glossary, the context map or a sibling spec.
ResolveTo(entry, id) == entry[id]

SameLink(l, from, rel, to) == l.from = from /\ l.rel = rel /\ l.to = to

\* One problem of the trace: the rule, its severity and the ID or link it is about.
Problem(code, sev, about) == [code |-> code, sev |-> sev, about |-> about]

\* T1: both ends of a link resolve, and neither is withdrawn.
LinkT1(l, entry) ==
  LET ends == {ResolveFrom(entry, l.from), ResolveTo(entry, l.to)}
  IN  {Problem("T1", "E", l) : r \in ends \cap {"missing"}}
      \cup {Problem("T1", "W", l) : r \in ends \cap {"withdrawn"}}

T1(trace, entry) == UNION {LinkT1(l, entry) : l \in ToSet(trace)}

\* T2: the rel is one of the table, and joins these prefixes.
T2(trace) ==
  {Problem("T2", "E", l) : l \in {m \in ToSet(trace) : ~RelAllowed(m.rel, m.from, m.to)}}

\* T3: no earlier link says the same.
T3(trace) ==
  {Problem("T3", "E", trace[i]) :
     i \in {j \in DOMAIN trace :
              \E k \in 1..(j - 1) :
                 SameLink(trace[k], trace[j].from, trace[j].rel, trace[j].to)}}

\* The findings of the spec are its live RAF and DAF blocks.
IsFinding(id) == id.home = "spec" /\ id.prefix \in {"RAF", "DAF"}

\* T5: every live finding says what it affects.
T5(trace, entry) ==
  {Problem("T5", "E", id) :
     id \in {x \in DOMAIN entry :
               /\ IsFinding(x) /\ entry[x] = "live"
               /\ ~\E l \in ToSet(trace) : l.from = x /\ l.rel = "affects"}}

\* The problems a link can have by itself or with the others: what trace_link must not add.
LinkProblems(trace, entry) == T1(trace, entry) \cup T2(trace) \cup T3(trace)

\* checkTrace without T4, which reads the prose of block fields.
TraceProblems(trace, entry) == LinkProblems(trace, entry) \cup T5(trace, entry)

TraceErrors(trace, entry) == {p \in TraceProblems(trace, entry) : p.sev = "E"}
=============================================================================
