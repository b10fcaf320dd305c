------------------------------- MODULE Artifact -------------------------------
(***************************************************************************)
(* How spec-lint reads a Markdown artifact (parseMarkdown) and judges its  *)
(* shape (checkStructure): the loop over the lines, one action per branch, *)
(* and the rules S1-S6, S9 and S10 on what the loop has made of them.      *)
(*                                                                         *)
(* The file is written while it is read: each step brings its next line,   *)
(* and every state is a whole file, so that the rules are judged in each.  *)
(* A line is what the regular expressions of the parser tell it apart by,  *)
(* comments blanked and the frontmatter split off:                         *)
(*   section    ## name                 block      ### ID . title          *)
(*   malformed  any other ###           title      # title                 *)
(*   key        - key: values           item       two blanks, - value     *)
(*   indented   two blanks, value       blank, other                       *)
(***************************************************************************)
EXTENDS Naturals, FiniteSets, Ordered, SequencesExt

CONSTANTS
  Line,      \* the lines a file may have
  MayGrow(_),  \* bound: the files that get another line
  Sections,  \* SECTIONS[kind]: the sections in order, their names and what they hold
  Keys,      \* BLOCKS: of each block prefix, its keys and what they take
  Needs      \* of each block prefix, the keys that a value of another key calls for

VARIABLES
  lines,  \* the file so far
  place,  \* of each line, the role the parser gave it and the line that owns it
  sec,    \* lines of the section, of the block and of the field that is read, or 0
  cur,
  last,
  sink    \* inside a malformed heading

ASSUME LineAssumption == \A l \in Line : l.t = "key" => l.values \in Seq(STRING)
ASSUME SectionsAssumption ==
  Sections \in Seq([name : STRING, nonEmpty : BOOLEAN, prefixes : SUBSET STRING])

vars == <<lines, place, sec, cur, last, sink>>

None == 0
Here == Len(lines) + 1
InNotes == sec # None /\ lines[sec].name = "Notes"

\* How parseInlineValue and an empty value make the kind of a field.
IsList(k) == lines[k].form = "list"

\* Faulty: one map of fields for the file.
FaultyHasKey(block, key) ==
  \E k \in DOMAIN place : place[k].role = "field" /\ lines[k].key = key

\* cur.fields.has(key).
HasKey(block, key) ==
  \E k \in DOMAIN place : place[k] = [role |-> "field", of |-> block] /\ lines[k].key = key

---------------------------------------------------------------------------
Init ==
  /\ lines = <<>> /\ place = <<>>
  /\ sec = None /\ cur = None /\ last = None
  /\ sink = FALSE

Put(l, role, owner) ==
  /\ lines' = Append(lines, l)
  /\ place' = Append(place, [role |-> role, of |-> owner])

NewSection(l) ==
  /\ l.t = "section"
  /\ Put(l, "section", None)
  /\ sec' = Here /\ cur' = None /\ last' = None
  /\ sink' = FALSE

SkipNotes(l) ==
  /\ l.t # "section" /\ InNotes
  /\ Put(l, "notes", sec)
  /\ UNCHANGED <<sec, cur, last, sink>>

Title(l) ==
  /\ l.t = "title" /\ sec = None
  /\ Put(l, "title", None)
  /\ UNCHANGED <<sec, cur, last, sink>>

NewBlock(l) ==
  /\ l.t = "block" /\ ~InNotes /\ sec # None
  /\ Put(l, "block", sec)
  /\ cur' = Here /\ last' = None /\ sink' = FALSE
  /\ UNCHANGED sec

\* S3: the heading opens nothing, and the lines up to the next heading are swallowed.
BadHeading(l) ==
  /\ ~InNotes
  /\ l.t = "malformed" \/ (l.t = "block" /\ sec = None)
  /\ Put(l, "malformed", None)
  /\ cur' = None /\ last' = None /\ sink' = TRUE
  /\ UNCHANGED sec

\* What the tests above let through.
IsText(l) ==
  /\ ~InNotes
  /\ l.t \notin {"section", "block", "malformed"}
  /\ ~(l.t = "title" /\ sec = None)

Swallow(l) ==
  /\ IsText(l) /\ sink
  /\ Put(l, "swallowed", None)
  /\ UNCHANGED <<sec, cur, last, sink>>

SkipBlank(l) ==
  /\ IsText(l) /\ ~sink /\ l.t = "blank"
  /\ Put(l, "blank", None)
  /\ UNCHANGED <<sec, cur, last, sink>>

\* Outside a block: a loose line of its section, or nothing when no section has begun.
Loose(l) ==
  /\ IsText(l) /\ ~sink /\ l.t # "blank" /\ cur = None
  /\ Put(l, IF sec # None THEN "loose" ELSE "dropped", sec)
  /\ UNCHANGED <<sec, cur, last, sink>>

InBlock(l) == IsText(l) /\ ~sink /\ l.t # "blank" /\ cur # None

\* S4: what follows a duplicate key is read into the duplicate, and forgotten with it.
Key(l) ==
  /\ InBlock(l) /\ l.t = "key"
  /\ Put(l, IF HasKey(cur, l.key) THEN "duplicate" ELSE "field", cur)
  /\ last' = Here
  /\ UNCHANGED <<sec, cur, sink>>

\* A nested bullet is an item of a list, and otherwise more of the value.
Attaches(l) == last # None /\ (l.t = "item" \/ (l.t = "indented" /\ ~IsList(last)))

More(l) ==
  /\ InBlock(l) /\ Attaches(l)
  /\ Put(l, IF IsList(last) THEN "item" ELSE "more", last)
  /\ UNCHANGED <<sec, cur, last, sink>>

\* S2.
Stray(l) ==
  /\ InBlock(l) /\ l.t # "key" /\ ~Attaches(l)
  /\ Put(l, "stray", cur)
  /\ UNCHANGED <<sec, cur, last, sink>>

Read(l) ==
  \/ NewSection(l) \/ SkipNotes(l) \/ Title(l)
  \/ NewBlock(l) \/ BadHeading(l) \/ Swallow(l)
  \/ SkipBlank(l) \/ Loose(l)
  \/ Key(l) \/ More(l) \/ Stray(l)

Next == MayGrow(lines) /\ \E l \in Line : Read(l)

Spec == Init /\ [][Next]_vars
---------------------------------------------------------------------------
\* What the loop made of the file: the lines of a role, and the values of a field.
Placed(role) == {i \in DOMAIN place : place[i].role = role}
Owned(role, owner) == {i \in Placed(role) : place[i].of = owner}
Fields(b) == Owned("field", b)
FieldsNamed(b, key) == {k \in Fields(b) : lines[k].key = key}
FieldAt(b, key) == CHOOSE k \in FieldsNamed(b, key) : TRUE
Values(k) ==
  lines[k].values \o
  LET more == InOrder(Owned("item", k) \cup Owned("more", k))
  IN  [i \in DOMAIN more |-> lines[more[i]].value]

\* fieldList: what is no list is one item, however many lines it has.
Length(k) == IF IsList(k) \/ Values(k) = <<>> THEN Len(Values(k)) ELSE 1

\* Faulty: the first word counts.
FaultyIs(k, vs) == Values(k) # <<>> /\ Values(k)[1] \in vs

\* A bullet below what is no list stays in the value, dash and all.
Bulleted(k) == ~IsList(k) /\ \E j \in Owned("more", k) : lines[j].t = "item"

\* fieldScalar is one of some values when there is one value, which no dash changes; two are
\* joined to another.
Is(k, vs) == ~Bulleted(k) /\ Len(Values(k)) = 1 /\ Values(k)[1] \in vs
Prefix(b) == lines[b].prefix
Known == {b \in Placed("block") : Prefix(b) \in DOMAIN Keys}
IdsOf(prefix) == {lines[b].id : b \in {x \in Placed("block") : Prefix(x) = prefix}}

\* checkSections.  The loop stands before the expected section that comes next.
SectionNames == LET at == InOrder(Placed("section")) IN [i \in DOMAIN at |-> lines[at[i]].name]
Expected == [i \in DOMAIN Sections |-> Sections[i].name]
Rank(name) == SelectInSeq(Expected, LAMBDA e : e = name)
NextSection(at, name) ==
  IF at.broken \/ Rank(name) # at.next
  THEN [next |-> at.next, broken |-> TRUE]
  ELSE [next |-> at.next + 1, broken |-> FALSE]
AfterAll(names) ==
  LET at[i \in 0..Len(names)] ==
        IF i = 0 THEN [next |-> 1, broken |-> FALSE]
        ELSE IF names[i] = "Notes" THEN at[i - 1]
        ELSE NextSection(at[i - 1], names[i])
  IN  at[Len(names)]
S1 ==
  LET end == AfterAll(SectionNames)
      notes == SelectInSeq(SectionNames, LAMBDA n : n = "Notes")
  IN  \/ end.broken \/ end.next <= Len(Sections)
      \/ notes \notin {0, Len(SectionNames)}

\* checkSectionContents, for the sections that SECTIONS knows.
SpecOf(s) == Sections[Rank(lines[s].name)]
Checked == {s \in Placed("section") : Rank(lines[s].name) # 0}
S2 ==
  \/ Placed("stray") # {}
  \/ \E s \in Checked : SpecOf(s).prefixes # {} /\ Owned("loose", s) # {}
S3 ==
  \/ Placed("malformed") # {}
  \/ \E b \in Placed("block") : b \notin Known \/ ~lines[b].formed
  \/ \E s \in Checked : \E b \in Owned("block", s) : Prefix(b) \notin SpecOf(s).prefixes

\* The fields whose key takes something of a kind.
Taking(kind) ==
  {k \in Placed("field") :
     LET b == place[k].of
     IN  /\ b \in Known /\ lines[k].key \in DOMAIN Keys[Prefix(b)]
         /\ Keys[Prefix(b)][lines[k].key].takes = kind}
SpecOfField(k) == Keys[Prefix(place[k].of)][lines[k].key]

\* checkBlockFields: keys that are unknown, given twice, missing, or called for and missing;
\* values that are none of an enumeration, or refer to no block of the file.
S4 ==
  \/ Placed("duplicate") # {}
  \/ \E b \in Known :
       \/ \E k \in Fields(b) : lines[k].key \notin DOMAIN Keys[Prefix(b)] \cup {"withdrawn"}
       \/ \E key \in DOMAIN Keys[Prefix(b)] :
            Keys[Prefix(b)][key].required /\ FieldsNamed(b, key) = {}
       \/ \E n \in Needs[Prefix(b)] :
            /\ FieldsNamed(b, n.key) # {} /\ Is(FieldAt(b, n.key), n.values)
            /\ FieldsNamed(b, n.needs) = {}
  \/ \E k \in Taking("ref") : IsList(k) /\ ~SpecOfField(k).many /\ Len(Values(k)) > 1

S5 == \E k \in Taking("enum") : ~Is(k, SpecOfField(k).of)
S9 ==
  \E k \in Taking("ref") :
    LET ids == IdsOf(SpecOfField(k).of)
    IN  IF IsList(k) THEN ~ToSet(Values(k)) \subseteq ids ELSE ~Is(k, ids)
S6 == \E b, c \in Placed("block") : b # c /\ lines[b].id = lines[c].id

\* Prose that must be there, and checkCounts: a withdrawn block need not have its items.
S10 ==
  \/ \E s \in Checked : SpecOf(s).nonEmpty /\ Owned("loose", s) = {}
  \/ \E k \in Taking("list") : /\ FieldsNamed(place[k].of, "withdrawn") = {}
                               /\ Length(k) < SpecOfField(k).min

Clean == ~(S1 \/ S2 \/ S3 \/ S4 \/ S5 \/ S6 \/ S9 \/ S10)
---------------------------------------------------------------------------
\* The file read without a parser: what a line is follows from where the headings are.
SectionOf(s, i) ==
  /\ s \in 1..i /\ lines[s].t = "section"
  /\ \A j \in (s + 1)..i : lines[j].t # "section"
InNotesAt(i) == \E s \in 1..i : SectionOf(s, i) /\ lines[s].name = "Notes"
Heading(i) ==
  \/ lines[i].t = "section"
  \/ lines[i].t \in {"block", "malformed"} /\ ~InNotesAt(i)
Under(h, i) == h \in 1..(i - 1) /\ Heading(h) /\ \A j \in (h + 1)..i : ~Heading(j)
BlockOf(b, i) == Under(b, i) /\ lines[b].t = "block" /\ \E s \in 1..b : SectionOf(s, b)
\* The key that a line follows in its block.
KeyOf(k, i) ==
  /\ k \in 1..(i - 1) /\ lines[k].t = "key"
  /\ \E b \in 1..k : BlockOf(b, k) /\ BlockOf(b, i)
  /\ \A j \in (k + 1)..i : lines[j].t # "key"

ReadAt(i) ==
  LET role == place[i].role
      of == place[i].of
  IN  /\ role = "notes" <=> lines[i].t # "section" /\ InNotesAt(i)
      /\ role \in {"block", "malformed"} <=> lines[i].t # "section" /\ Heading(i)
      /\ role = "block" => SectionOf(of, i)
      /\ role \in {"field", "duplicate", "item", "more", "stray"} <=>
           lines[i].t # "blank" /\ \E b \in 1..i : BlockOf(b, i)
      /\ role \in {"field", "duplicate"} => lines[i].t = "key" /\ BlockOf(of, i)
      /\ role = "duplicate" <=>
           /\ role \in {"field", "duplicate"}
           /\ \E k \in (of + 1)..(i - 1) : lines[k].t = "key" /\ lines[k].key = lines[i].key
      /\ role \in {"item", "more"} => KeyOf(of, i) /\ (role = "item" <=> IsList(of))
      /\ role = "stray" => lines[i].t # "key" /\ BlockOf(of, i)
      /\ role = "loose" => SectionOf(of, i) /\ \A j \in (of + 1)..i : ~Heading(j)

\* The parser gives every line to the block and to the key that a reader would: the nearest
\* heading above it, if that one is a well-formed block, and the nearest key below that
\* heading.  Nothing leaks over a heading, good or bad, out of Notes, or from a key to the
\* next; a key counts once, where it is given first.
ReadsAsWritten == \A i \in DOMAIN lines : ReadAt(i)

\* What the linter lets pass has the shape of the grammar: the sections in their order; text
\* only in prose and blocks only where they belong; every required key once in its block, and
\* nothing between its heading and the next that changes the one word an enumeration takes.
\* No line from the first section on is lost.
CleanIsComplete ==
  Clean =>
    /\ SectionNames \in {Expected, Append(Expected, "Notes")}
    /\ \A i \in DOMAIN lines :
         ~InNotesAt(i) /\ (\E s \in 1..i : SectionOf(s, i)) =>
           place[i].role \in {"section", "block", "blank", "loose", "field", "item", "more"}
    /\ \A b \in Placed("block") : \E s \in 1..b :
         /\ SectionOf(s, b) /\ Prefix(b) \in SpecOf(s).prefixes
         /\ \A i \in Placed("loose") : SectionOf(s, i) => SpecOf(s).prefixes = {}
         /\ \A key \in DOMAIN Keys[Prefix(b)] : Keys[Prefix(b)][key].required =>
              \E k \in DOMAIN lines :
                /\ lines[k].t = "key" /\ lines[k].key = key /\ BlockOf(b, k)
                /\ \A j \in DOMAIN lines :
                     lines[j].t = "key" /\ lines[j].key = key /\ BlockOf(b, j) => j = k
                /\ Keys[Prefix(b)][key].takes = "enum" =>
                     Cardinality({j \in DOMAIN lines : KeyOf(k, j) /\ lines[j].t # "blank"})
                       + Len(lines[k].values) = 1
=============================================================================
