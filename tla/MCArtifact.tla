------------------------------ MODULE MCArtifact ------------------------------
(***************************************************************************)
(* Designs: two good files, one with a line above its first section, and   *)
(* every file that goes another way from some line of one of them on, for  *)
(* at most MaxAstray lines.                                                *)
(***************************************************************************)
EXTENDS Artifact

CONSTANT MaxAstray

Section(name) == [t |-> "section", name |-> name]
Block(prefix, id) == [t |-> "block", prefix |-> prefix, id |-> id, formed |-> TRUE]
Key_(key, form, values) == [t |-> "key", key |-> key, form |-> form, values |-> values]
Plain(t) == [t |-> t, value |-> "words"]
Item(value) == [t |-> "item", value |-> value]

Good ==
  <<Section("Overview"), Plain("other"),
    Section("Elements"), Block("DES", "DES-1"),
    Key_("kind", "scalar", <<"interface">>), Key_("interface", "text", <<>>), Plain("indented"),
    Key_("depends_on", "list", <<>>), Item("DES-1"),
    Section("Decisions"), Block("ADR", "ADR-1"),
    Key_("status", "scalar", <<"accepted">>),
    Key_("options", "list", <<>>), Item("DES-1"), Item("DES-1"),
    Section("Notes"), Plain("other")>>

MCLine ==
  ToSet(Good) \cup {Plain(t) : t \in {"malformed", "title", "blank"}}
  \cup {Key_("withdrawn", "scalar", <<"why">>),
          Key_("depends_on", "scalar", <<"DES-1">>), Item("DES-2")}

Prefaced == <<Plain("other")>> \o SubSeq(Good, 1, 6) \o <<Section("Decisions")>>

MCMayGrow(ls) ==
  \E good \in {Good, Prefaced} :
    \E n \in (Len(ls) + 1 - MaxAstray)..Len(ls) : IsPrefix(SubSeq(ls, 1, n), good)

MCSections ==
  <<[name |-> "Overview", nonEmpty |-> TRUE, prefixes |-> {}],
    [name |-> "Elements", nonEmpty |-> FALSE, prefixes |-> {"DES"}],
    [name |-> "Decisions", nonEmpty |-> FALSE, prefixes |-> {"ADR"}]>>

Takes(required, takes) == [required |-> required, takes |-> takes, of |-> {}, many |-> TRUE, min |-> 0]
MCKeys ==
  [DES |-> [kind |-> [Takes(TRUE, "enum") EXCEPT !.of = {"interface", "flow"}],
            interface |-> Takes(FALSE, "text"),
            depends_on |-> [Takes(FALSE, "ref") EXCEPT !.of = "DES"]],
   ADR |-> [status |-> [Takes(TRUE, "enum") EXCEPT !.of = {"proposed", "accepted"}],
            options |-> [Takes(TRUE, "list") EXCEPT !.min = 2]]]
MCNeeds ==
  [DES |-> {[key |-> "kind", values |-> {"interface"}, needs |-> "interface"]}, ADR |-> {}]
=============================================================================
