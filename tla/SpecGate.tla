------------------------------- MODULE SpecGate -------------------------------
(***************************************************************************)
(* The gate of spec-lint over the life of a spec: the coverage rules C1    *)
(* and C3-C9 (rules/trace.ts), the finding rules F1-F6 (rules/findings.ts) *)
(* and what the linter calls blocking (index.ts), while steps write the    *)
(* blocks of their artifact and link them with trace_link, people edit     *)
(* anything, and artifacts whose gate is open are approved.                *)
(*                                                                         *)
(* A block is a record: its state and the fields the rules read.  C2 and   *)
(* C4 are warnings and T4 reads prose: they are left out.                  *)
(***************************************************************************)
EXTENDS TraceRules, SequencesExt

CONSTANTS
  Id, Step, Run, Human, NoRun, NoOne, Calls, MaxLinks,  \* as in LinkStore
  Written    \* for every block ID, the blocks its writers may leave under it

VARIABLES
  status,    \* of every file: "absent", or the status of its header
  blocks,    \* the blocks of the spec, by ID
  links,     \* trace.yaml
  who        \* the step that is running

vars == <<status, blocks, links, who>>

BlockId == DOMAIN Written
File == {"intent", "requirements-analysis", "requirements", "design-analysis", "design"}

ASSUME WrittenAssumption ==
  /\ BlockId = {id \in Id : id.home = "spec" /\ id.prefix # "AC"}
  /\ \A id \in BlockId : /\ [state |-> "missing"] \in Written[id]
                         /\ \A b \in Written[id] : b.state \in Resolution
ASSUME CallsAssumption == Calls \subseteq [from : Id, rel : Rel, to : Id]
ASSUME IdentityAssumption == NoOne \notin [step : Step, run : Run]

Link == [from : Id, rel : Rel, to : Id, by : Step, run : Run]

\* SPEC_FILES and the block tables: the file a block is in.
FileOf(id) ==
  CASE id.prefix = "RAF" -> "requirements-analysis"
    [] id.prefix = "REQ" -> "requirements"
    [] id.prefix = "DAF" -> "design-analysis"
    [] id.prefix \in {"DES", "ADR"} -> "design"
    [] OTHER -> "intent"

\* The ID index of loadWorkspace: an AC is an item of the acceptance of its REQ, and is
\* withdrawn with it.
Here(id) == blocks[id].state # "missing"
Parents(ac) == {r \in BlockId : r.prefix = "REQ" /\ Here(r) /\ ac \in blocks[r].acceptance}
Entry ==
  [id \in Id |->
     IF id.home # "spec" THEN "live"
     ELSE IF id.prefix # "AC" THEN blocks[id].state
     ELSE IF Parents(id) = {} THEN "missing"
     ELSE blocks[CHOOSE r \in Parents(id) : TRUE].state]

Store == INSTANCE LinkStore WITH entry <- Entry, HumanLinks <- {}

---------------------------------------------------------------------------
\* The blocks a rule looks at: live ones.
Live(prefix) == {id \in BlockId : id.prefix = prefix /\ blocks[id].state = "live"}
Finding == Live("RAF") \cup Live("DAF")
Linked(from, rel) == {l.to : l \in {m \in ToSet(links) : m.from = from /\ m.rel = rel}}

\* derivesTo, realized: by links, whatever has become of the blocks that they come from.
DerivedFrom(goal) ==
  {l \in ToSet(links) : l.rel = "derives-from" /\ l.to = goal /\ l.from.prefix = "REQ"}

Realized(req) ==
  \E l \in ToSet(links) : l.rel = "realizes" /\ l.to \in {req} \cup blocks[req].acceptance

Must(id) == blocks[id].priority = "must"
HasReq == status["requirements"] # "absent"
HasDesign == status["design"] # "absent"

\* checkCoverage.
C1 == {Problem("C1", "G", g) : g \in {x \in Live("GOAL") : HasReq /\ Must(x) /\ DerivedFrom(x) = {}}}
C3 == {Problem("C3", "G", r) : r \in {x \in Live("REQ") : Linked(x, "derives-from") = {}}}
C5 == {Problem("C5", "G", r) : r \in {x \in Live("REQ") : HasDesign /\ Must(x) /\ ~Realized(x)}}
C6 == {Problem("C6", "G", r) :
         r \in {x \in Live("REQ") : HasDesign /\ blocks[x].type = "nfr" /\ ~Realized(x)}}
C7 == {Problem("C7", "G", d) : d \in {x \in Live("DES") : Linked(x, "realizes") = {}}}
C8 == {Problem("C8", "G", a) :
         a \in {x \in Live("ADR") : /\ blocks[x].status = "accepted"
                                    /\ Linked(x, "decides") \cup Linked(x, "addresses") = {}}}
C9 == {Problem("C9", "E", r) :
         r \in {x \in Live("REQ") : blocks[x].priority = "wont" /\ Realized(x)}}
Coverage == C1 \cup C3 \cup C5 \cup C6 \cup C7 \cup C8 \cup C9

\* isAgent: resolved_by names a step.
IsAgent(by) == by \in Step

Closed(f) == blocks[f].status # "open"

\* Faulty: F2 forgets who accepted the risk.
F2OpenOnly(f) == blocks[f].severity = "major" /\ ~Closed(f)

F2(f) ==
  /\ blocks[f].severity = "major"
  /\ Closed(f) => blocks[f].status = "accepted-risk" /\ IsAgent(blocks[f].by)

\* checkFindings, for one finding.  Recorded: resolution, resolved_by and round are there.
FindingProblems(f) ==
  LET b == blocks[f]
      Raise(code, sev, cond) == IF cond THEN {Problem(code, sev, f)} ELSE {}
  IN  UNION {
        Raise("F1", "G", ~Closed(f) /\ b.severity = "blocker"),
        Raise("F2", "G", F2(f)),
        Raise("F3", "E", Closed(f) /\ ~b.recorded),
        Raise("F4", "E", Closed(f) /\ b.route \in {"human", "architect"} /\ IsAgent(b.by)),
        Raise("F5", "G", /\ f.prefix = "DAF" /\ b.status = "resolved"
                         /\ b.type \in {"boundary-challenge", "requirement-change"}
                         /\ ~\E t \in Linked(f, "resolved-by") :
                               t.prefix \in {"REQ", "AC", "TERM", "domain-context"})}

Questions == {Problem("F6", "G", q) : q \in {x \in Live("Q") : ~Closed(x)}}

Problems ==
  TraceProblems(links, Entry) \cup Coverage \cup Questions
  \cup UNION {FindingProblems(f) : f \in Finding}

\* Faulty: a G of a file that is no draft blocks only at a gate.
BlocksAtGate(p, gate) == p.sev = "E" \/ (p.sev = "G" /\ gate)

\* lint: an E blocks; a G does at a gate, and when the file it is in is no draft any more.
Blocks(p, gate) ==
  p.sev = "E" \/ (p.sev = "G" /\ (gate \/ status[FileOf(p.about)] # "draft"))

Blocking(gate) == \E p \in Problems : Blocks(p, gate)

---------------------------------------------------------------------------
Init ==
  /\ status = [f \in File |-> IF f = "intent" THEN "draft" ELSE "absent"]
  /\ blocks = [id \in BlockId |-> [state |-> "missing"]]
  /\ links = <<>>
  /\ who = NoOne

\* The artifact a step writes (workflow.md section 4).
Writes(step) ==
  CASE step = "req-analysis" -> "requirements-analysis"
    [] step = "req-generation" -> "requirements"
    [] step = "design-analysis" -> "design-analysis"
    [] step = "design-generation" -> "design"
    [] OTHER -> "intent"

\* A step starts with its artifact, which is created as a draft when it is not there.
BeginStep(s, r) ==
  /\ who = NoOne
  /\ status[Writes(s)] # "approved"
  /\ who' = [step |-> s, run |-> r]
  /\ status' = [status EXCEPT ![Writes(s)] = "draft"]
  /\ UNCHANGED <<blocks, links>>

EndStep ==
  /\ who # NoOne
  /\ who' = NoOne
  /\ UNCHANGED <<status, blocks, links>>

\* trace_link.  Bound: a step asks only for links of its own blocks, as the steps' prompts
\* tell it; LinkStore has the calls of any step for any block.
TraceLink(call) ==
  /\ who # NoOne /\ Writes(who.step) = FileOf(call.from)
  /\ UNCHANGED <<status, blocks>>
  /\ \/ Store!AddLink(call.from, call.rel, call.to)
     \/ Store!RemoveLink(call.from, call.rel, call.to)

\* A step edits its artifact; between steps a person edits any, approved ones too.
EditBlock(id, b) ==
  /\ status[FileOf(id)] # "absent"
  /\ who # NoOne => Writes(who.step) = FileOf(id)
  /\ blocks[id] # b
  /\ blocks' = [blocks EXCEPT ![id] = b]
  /\ UNCHANGED <<status, links, who>>

HumanDrop(i) ==
  /\ who = NoOne
  /\ links' = RemoveAt(links, i)
  /\ UNCHANGED <<status, blocks, who>>

\* The reconciler approves a draft when lint --gate passes (workflow.md section 3, rules
\* 9 and 10).
Approve(f) ==
  /\ who = NoOne
  /\ status[f] = "draft" /\ ~Blocking(TRUE)
  /\ status' = [status EXCEPT ![f] = "approved"]
  /\ UNCHANGED <<blocks, links, who>>

Next ==
  \/ \E s \in Step, r \in Run : BeginStep(s, r)
  \/ EndStep
  \/ \E c \in Calls : TraceLink(c)
  \/ \E id \in BlockId : \E b \in Written[id] : EditBlock(id, b)
  \/ \E i \in DOMAIN links : HumanDrop(i)
  \/ \E f \in File : Approve(f)

Spec == Init /\ [][Next]_vars

---------------------------------------------------------------------------
\* Every variable has its type: in particular a block is one its writers may leave, and a
\* link joins known IDs, whether or not something is there under them.
TypeOK ==
  /\ status \in [File -> {"absent", "draft", "approved"}]
  /\ blocks \in [BlockId -> UNION {Written[id] : id \in BlockId}]
  /\ \A id \in BlockId : blocks[id] \in Written[id]
  /\ links \in Seq(Link)
  /\ who \in [step : Step, run : Run] \cup {NoOne}

\* A plain lint, without --gate, passes and has no T1 warning.
Clean == ~Blocking(FALSE) /\ ~\E p \in Problems : p.code = "T1"
Approved(files) == \A f \in files : status[f] = "approved"
LiveFrom(rel, to) == {l.from : l \in {m \in ToSet(links) : m.rel = rel /\ m.to \in to
                                                           /\ Entry[m.from] = "live"}}

\* Once a file is approved, every lint that passes, and not only the one at the gate, says
\* that what the file promises is covered, whatever steps and people have edited since:
\* goals by live requirements, requirements by live designs, through their ACs or not; and
\* nothing that was ruled out is built.  With a T1 warning it says nothing of the kind.
ApprovedIsCovered ==
  Clean =>
    /\ Approved({"intent", "requirements"}) =>
         \A g \in Live("GOAL") : Must(g) => LiveFrom("derives-from", {g}) # {}
    /\ Approved({"requirements", "design"}) =>
         \A r \in Live("REQ") :
           LET by == LiveFrom("realizes", {r} \cup blocks[r].acceptance)
           IN  /\ Must(r) \/ blocks[r].type = "nfr" => by # {}
               /\ blocks[r].priority = "wont" => by = {}

\* In an approved analysis that lints, no finding is open that is a blocker or a major one,
\* and an agent closed none that was a person's to decide.  An agent may accept the risk of
\* a blocker that is routed to itself: no rule looks at those.
PeopleDecide ==
  ~Blocking(FALSE) =>
    \A f \in Finding : status[FileOf(f)] = "approved" =>
      /\ blocks[f].severity \in {"blocker", "major"} => Closed(f)
      /\ Closed(f) /\ IsAgent(blocks[f].by) =>
           /\ blocks[f].route \notin {"human", "architect"}
           /\ blocks[f].status = "accepted-risk" => blocks[f].severity # "major"
=============================================================================
