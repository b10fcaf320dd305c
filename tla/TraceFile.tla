------------------------------- MODULE TraceFile -------------------------------
(***************************************************************************)
(* trace_link on the text of trace.yaml (packages/pi-spec-tools/src/       *)
(* trace-link.ts).  The tool never re-serialises the file: it finds the    *)
(* lines of a link and splices them out, or splices one new line in, so    *)
(* that comments, header and the order of everything else survive.         *)
(*                                                                         *)
(* The file is a sequence of lines.  A line has a kind and the link items  *)
(* that start on it:                                                       *)
(*   "header"   the header mapping            "note"  a comment            *)
(*   "blank"    an empty line                                              *)
(*   "links"    `links:` with no value on the line (a block list or null)  *)
(*   "flow"     `links: [...]` closed on its line, with its items          *)
(*   "flow["    `links: [...` left open, continued by "row"s up to "row]"  *)
(*   "item"     `- {...}` on one line                                      *)
(*   "item+"    an item continued on the next line, a "cont"               *)
(* An item is a link, or Malformed: a mapping that lacks from, rel or to.  *)
(***************************************************************************)
EXTENDS TraceRules, Ordered, SequencesExt, FiniteSetsExt

CONSTANTS
  Id, Step, Run, Human, NoRun, NoOne, Calls, HumanLinks, MaxLinks,  \* as in LinkStore
  Malformed,    \* an item without from, rel or to
  Files,        \* the trace.yaml files a spec may start with
  Editable      \* the IDs whose blocks the steps edit

VARIABLES
  lines,        \* trace.yaml, line by line
  entry, who    \* as in LinkStore

vars == <<lines, entry, who>>

KeyKind == {"links", "flow", "flow["}
ItemKind == {"item", "item+"}
RowKind == {"row", "row]"}
Kind == KeyKind \cup ItemKind \cup RowKind \cup {"header", "note", "blank", "cont"}

---------------------------------------------------------------------------
(* Reading: parseTrace and locate.                                         *)

\* YAML accepts the text: continuations follow what they continue, one links key,
\* block items only below a block key and flow rows only below an open one.
Parses(f) ==
  /\ Cardinality({i \in DOMAIN f : f[i].kind \in KeyKind}) <= 1
  /\ \A i \in DOMAIN f :
       /\ f[i].kind \in {"flow[", "row"} =>
            i < Len(f) /\ f[i + 1].kind \in {"row", "row]"}
       /\ f[i].kind \in {"row", "row]"} => i > 1 /\ f[i - 1].kind \in {"flow[", "row"}
       /\ f[i].kind = "item+" => i < Len(f) /\ f[i + 1].kind = "cont"
       /\ f[i].kind = "cont" => i > 1 /\ f[i - 1].kind = "item+"
       /\ f[i].kind \in ItemKind =>
            \E k \in 1..(i - 1) : /\ f[k].kind = "links"
                                  /\ \A m \in k..i : f[m].kind # "header"

HasHeader(f) == \E i \in DOMAIN f : f[i].kind = "header"

\* Every item of the links list in file order, with the line it starts on.
Items(f) ==
  FlattenSeq([i \in DOMAIN f |-> [j \in DOMAIN f[i].items |->
                                    [item |-> f[i].items[j], line |-> i]]])

\* parseTrace: the well-formed links; malformed items are reported (S4) and skipped.
Parsed(f) == Selected(Items(f), LAMBDA x : x.item # Malformed)

LinksOf(f) ==
  LET parsed == Parsed(f) IN [i \in DOMAIN parsed |-> parsed[i].item]

LineEnd(f, i) == IF f[i].kind = "item+" THEN i + 1 ELSE i

\* locate: the lines of every item, and the link taken to be on them: the first
\* parsed link of that line, else the parsed link of the same rank.
Spans(f) ==
  LET items == Items(f)
      parsed == Parsed(f)
      onLine(i) == {m \in DOMAIN parsed : parsed[m].line = i}
      rank(k) == IF onLine(items[k].line) # {} THEN Min(onLine(items[k].line)) ELSE k
      located == InOrder({k \in DOMAIN items : rank(k) \in DOMAIN parsed})
  IN  [n \in DOMAIN located |->
         LET k == located[n]
         IN  [link |-> parsed[rank(k)].item,
              start |-> items[k].line, end |-> LineEnd(f, items[k].line)]]

KeyLines(f) == {i \in DOMAIN f : f[i].kind \in KeyKind}
FlowLinks(f) == \E i \in KeyLines(f) : f[i].kind \in {"flow", "flow["}

---------------------------------------------------------------------------
(* Writing: the splices of traceLink, and write.                           *)

\* lines.splice(from - 1, upto - from + 1, ...new)
Splice(f, from, upto, new) ==
  SubSeq(f, 1, from - 1) \o new \o SubSeq(f, upto + 1, Len(f))

KeyLine == [kind |-> "links", items |-> <<>>]
BlankLine == [kind |-> "blank", items |-> <<>>]
ItemLine(l) == [kind |-> "item", items |-> <<l>>]

\* while (lines[lines.length - 1] === "") lines.pop()
WithoutTrailingBlanks(f) ==
  LET kept == {i \in DOMAIN f : f[i].kind # "blank"}
  IN  IF kept = {} THEN <<>> ELSE SubSeq(f, 1, Max(kept))

\* Faulty: the list that replaces an empty flow list takes the next line with it.
InsertedOverNext(f, l) ==
  LET key == CHOOSE i \in KeyLines(f) : TRUE
  IN  IF KeyLines(f) # {} THEN Splice(f, key, key + 1, <<KeyLine, ItemLine(l)>>) ELSE <<>>

\* Where a new link goes; <<>> stands for the refusal of a non-empty flow list.
Inserted(f, l) ==
  LET spans == Spans(f)
      key == CHOOSE i \in KeyLines(f) : TRUE
  IN  CASE spans # <<>> /\ ~FlowLinks(f) ->
             Splice(f, Last(spans).end + 1, Last(spans).end, <<ItemLine(l)>>)
        [] FlowLinks(f) /\ spans = <<>> -> Splice(f, key, key, <<KeyLine, ItemLine(l)>>)
        [] KeyLines(f) # {} /\ ~FlowLinks(f) /\ spans = <<>> ->
             Splice(f, key + 1, key, <<ItemLine(l)>>)
        [] KeyLines(f) = {} ->
             WithoutTrailingBlanks(f) \o <<KeyLine, ItemLine(l), BlankLine>>
        [] OTHER -> <<>>

\* write: refuses a text that no longer parses, or has no header.
Writable(f) == Parses(f) /\ HasHeader(f)

Hits(f, from, rel, to) ==
  LET spans == Spans(f) IN {n \in DOMAIN spans : SameLink(spans[n].link, from, rel, to)}

\* Faulty: one line too many, after or before the link.
RemovedWithNext(f, span) == Splice(f, span.start, span.end + 1, <<>>)
RemovedWithPrevious(f, span) == Splice(f, span.start - 1, span.end, <<>>)

Removed(f, span) == Splice(f, span.start, span.end, <<>>)

\* headerBlock (step-runner): the text before the first `links:` line, or all of it.  As
\* lines, the text before a line ends with the empty piece after its newline.
HeaderBlock(f) ==
  IF KeyLines(f) = {} THEN f ELSE SubSeq(f, 1, Min(KeyLines(f)) - 1) \o <<BlankLine>>

---------------------------------------------------------------------------
Store == INSTANCE LinkStore WITH links <- LinksOf(lines)

ASSUME EditableAssumption == Editable \subseteq Id
ASSUME CallsAssumption == Calls \subseteq [from : Id, rel : Rel, to : Id]
ASSUME HumanLinksAssumption == HumanLinks \subseteq Store!Link
ASSUME MalformedAssumption == Malformed \notin Store!Link

Line == [kind : Kind, items : Seq(Store!Link \cup {Malformed})]

Init ==
  /\ lines \in Files
  /\ entry \in [Id -> {"live", "missing"}]
  /\ \A id \in Id \ Editable : entry[id] = "live"
  /\ who = NoOne

BeginStep(s, r) == UNCHANGED lines /\ Store!BeginStep(s, r)
EndStep == UNCHANGED lines /\ Store!EndStep

\* Faulty: the same link is written again.
AddAgain(from, rel, to) ==
  /\ who # NoOne
  /\ Parses(lines)
  /\ Store!Addable(entry, who.step, from, rel, to)
  /\ Len(LinksOf(lines)) < MaxLinks
  /\ LET after == Inserted(lines, Store!Stamped(who, from, rel, to))
     IN  after # <<>> /\ Writable(after) /\ lines' = after
  /\ UNCHANGED <<entry, who>>

\* traceLink with action "add": every check, then one of the splices, then write.
AddLink(from, rel, to) ==
  /\ who # NoOne
  /\ Parses(lines)
  /\ Store!Addable(entry, who.step, from, rel, to)
  /\ Hits(lines, from, rel, to) = {}
  /\ Len(LinksOf(lines)) < MaxLinks
  /\ LET after == Inserted(lines, Store!Stamped(who, from, rel, to))
     IN  after # <<>> /\ Writable(after) /\ lines' = after
  /\ UNCHANGED <<entry, who>>

\* traceLink with action "remove": the first span that matches, if this step wrote its link.
RemoveLink(from, rel, to) ==
  /\ who # NoOne
  /\ Parses(lines)
  /\ Hits(lines, from, rel, to) # {}
  /\ LET hit == Spans(lines)[Min(Hits(lines, from, rel, to))]
     IN  /\ hit.link.by = who.step
         /\ Writable(Removed(lines, hit))
         /\ lines' = Removed(lines, hit)
  /\ UNCHANGED <<entry, who>>

\* The write and edit tools change the step's own artifact, and so what its IDs resolve to.
EditBlock(id, res) == UNCHANGED lines /\ Store!EditBlock(id, res)

\* A person adds an item at the end of a block list, or deletes one with its lines.
HumanAdd(l) ==
  /\ who = NoOne
  /\ Spans(lines) # <<>> /\ ~FlowLinks(lines)
  /\ Len(LinksOf(lines)) < MaxLinks
  /\ lines' = Inserted(lines, l)
  /\ UNCHANGED <<entry, who>>

HumanDrop(n) ==
  /\ who = NoOne
  /\ ~FlowLinks(lines)
  /\ lines' = LET i == Parsed(lines)[n].line IN Splice(lines, i, LineEnd(lines, i), <<>>)
  /\ UNCHANGED <<entry, who>>

Next ==
  \/ \E s \in Step, r \in Run : BeginStep(s, r)
  \/ EndStep
  \/ \E c \in Calls : \/ AddLink(c.from, c.rel, c.to)
                     \/ RemoveLink(c.from, c.rel, c.to)
  \/ \E id \in Editable, res \in Resolution : EditBlock(id, res)
  \/ \E l \in HumanLinks : HumanAdd(l)
  \/ \E n \in DOMAIN Parsed(lines) : HumanDrop(n)

Spec == Init /\ [][Next]_vars

---------------------------------------------------------------------------
\* No two items begin on a line, none on the line of the key, and none that the tool
\* cannot read stands before one that it can.
Tidy(f) ==
  /\ f \in Seq(Line)
  /\ \A i \in DOMAIN f : f[i].items # <<>> =>
       Len(f[i].items) = 1 /\ f[i].kind \in ItemKind \cup RowKind
  /\ \A i, j \in DOMAIN f :
       f[i].items = <<Malformed>> /\ f[j].items # <<>> /\ i < j => f[j].items = <<Malformed>>

\* The layouts of which everything below holds (trace_file_flow shows another one).
Orderly(f) ==
  /\ Tidy(f)
  /\ Parses(f)
  /\ KeyLines(f) = {} => f = WithoutTrailingBlanks(f) \o <<BlankLine>>

\* Whatever calls and edits come, the file keeps such a layout: each link on lines of its
\* own, so that locate (trace-link.ts) gives every link its own lines.
LayoutKept == Orderly(lines)

\* The text implements the list of LinkStore: every call of the tool, and every edit
\* between steps, is a step of the list (trace-link.ts, comment above traceLink).
ImplementsLinkStore == [][Store!Next]_(Store!storeVars)

\* While a step runs, nothing of trace.yaml changes except the list: the header, the
\* comments and the items the tool cannot read stay, in their order ("the header and
\* every other line stay byte-for-byte").  Blank lines are not text anyone wrote.
Kept(f) == Selected(f, LAMBDA x : \/ x.kind \in {"header", "note"}
                                  \/ \E j \in DOMAIN x.items : x.items[j] = Malformed)
OtherLinesKept == [][who # NoOne => Kept(lines') = Kept(lines)]_vars

\* What headerBlock reads never changes while a step runs: the tool cannot make the runner
\* report a header that the agent changed (RunResult.headersIntact, run.ts).
HeaderBlockKept == [][who # NoOne => HeaderBlock(lines') = HeaderBlock(lines)]_vars

\* The links of people and of other steps stay, in their order, whatever a step does
\* with the tool ("Refuses ... removing another step's or a human's link").
ForeignLinks(f, step) == Selected(LinksOf(f), LAMBDA l : l.by # step)
ForeignLinksKept ==
  [][who # NoOne => ForeignLinks(lines', who.step) = ForeignLinks(lines, who.step)]_vars

\* No splice makes a text that YAML rejects, or one without its header, out of a file in
\* which no flow list is spread over several lines, whatever layout earlier calls and people
\* left: there the check in write (trace-link.ts:163-168) is a net that catches nothing.
SplicesReadable ==
  Writable(lines) /\ (\A i \in KeyLines(lines) : lines[i].kind # "flow[") =>
    /\ \A c \in Calls, s \in Step :
         LET l == Store!Stamped([step |-> s, run |-> NoRun], c.from, c.rel, c.to)
         IN  Writable(Inserted(lines, l))
    /\ \A n \in DOMAIN Spans(lines) : Writable(Removed(lines, Spans(lines)[n]))

\* Removing what was just added gives the same file back, byte for byte, whenever the
\* file had a list or a null `links:` (trace-link.test.ts, "add then remove restores the file").
RoundTrip ==
  \A c \in Calls, s \in Step :
    LET l == Store!Stamped([step |-> s, run |-> NoRun], c.from, c.rel, c.to)
        added == Inserted(lines, l)
        hit == Spans(added)[Min(Hits(added, c.from, c.rel, c.to))]
    IN  /\ Writable(lines) /\ KeyLines(lines) # {} /\ ~FlowLinks(lines)
        /\ Hits(lines, c.from, c.rel, c.to) = {}
        => Removed(added, hit) = lines
=============================================================================
