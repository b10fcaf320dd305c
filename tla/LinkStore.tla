------------------------------- MODULE LinkStore -------------------------------
(***************************************************************************)
(* What trace_link promises (packages/pi-spec-tools/src/trace-link.ts, the *)
(* comment above traceLink, and contracts/workflow.md section 4): the      *)
(* links of a spec are a list; the step whose identity is in the           *)
(* environment adds links the rules allow, each stamped with that          *)
(* identity, and removes only its own; nobody else's link moves.           *)
(*                                                                         *)
(* TraceFile implements this list as the text of trace.yaml; StepRunner    *)
(* uses it as the trace of a step's workspace.                             *)
(***************************************************************************)
EXTENDS TraceRules, SequencesExt

CONSTANTS
  Id,        \* the IDs links and edits mention
  Step,      \* step names, as SPEC_STEP holds them
  Run,       \* what SPEC_RUN may hold: run ids, and NoRun if it may be unset
  Human,     \* the author of a link a person wrote
  NoRun,     \* no run id: SPEC_RUN unset, or a link without `run`
  NoOne,     \* SPEC_STEP unset: no step is running
  Calls,     \* the (from, rel, to) the steps ask trace_link for
  HumanLinks,  \* the links people write between steps
  MaxLinks   \* bound: the length of the list

VARIABLES
  links,     \* the links of the spec, in file order
  entry,     \* what each ID resolves to: the spec's blocks and the domain
  who        \* the identity in the environment: NoOne, or [step, run]

storeVars == <<links, entry, who>>

ASSUME IdAssumption ==
  Id \subseteq [prefix : Prefix, home : {"spec", "domain", "sibling"}, n : Nat]
ASSUME AuthorAssumption == Human \notin Step
ASSUME IdentityAssumption == NoOne \notin [step : Step, run : Run]
ASSUME CallsAssumption == Calls \subseteq [from : Id, rel : Rel, to : Id]
ASSUME HumanLinksAssumption ==
  HumanLinks \subseteq
    [from : Id, rel : Rel, to : Id, by : Step \cup {Human}, run : Run \cup {NoRun}]
ASSUME MaxLinksAssumption == MaxLinks \in Nat

Identity == [step : Step, run : Run]
Link == [from : Id, rel : Rel, to : Id, by : Step \cup {Human}, run : Run \cup {NoRun}]

TypeOK ==
  /\ links \in Seq(Link)
  /\ entry \in [Id -> Resolution]
  /\ who \in Identity \cup {NoOne}

\* STEP_RELS: the only step workflow.md section 4 restricts is req-analysis.
StepRels(step) == IF step = "req-analysis" THEN {"affects"} ELSE Rel

\* Faulty: the target is never looked up.
AddableAnywhere(e, step, from, rel, to) ==
  rel \in StepRels(step) /\ RelAllowed(rel, from, to) /\ ResolveFrom(e, from) = "live"

\* The checks traceLink makes before it touches the file (T2, T1, workflow.md section 4).
Addable(e, step, from, rel, to) ==
  /\ rel \in StepRels(step)
  /\ RelAllowed(rel, from, to)
  /\ ResolveFrom(e, from) = "live"
  /\ ResolveTo(e, to) = "live"

Stamped(w, from, rel, to) ==
  [from |-> from, rel |-> rel, to |-> to, by |-> w.step, run |-> w.run]

\* The positions that hold the link (from, rel, to), whoever wrote it.
Holding(trace, from, rel, to) ==
  {i \in DOMAIN trace : SameLink(trace[i], from, rel, to)}

---------------------------------------------------------------------------
Init ==
  /\ links = <<>>
  /\ entry \in [Id -> Resolution]
  /\ who = NoOne

\* The runner puts the identity of the step into the environment, and takes it out again.
BeginStep(s, r) ==
  /\ who = NoOne
  /\ who' = [step |-> s, run |-> r]
  /\ UNCHANGED <<links, entry>>

EndStep ==
  /\ who # NoOne
  /\ who' = NoOne
  /\ UNCHANGED <<links, entry>>

\* trace_link add, when it is neither refused nor a repetition.
AddLink(from, rel, to) ==
  /\ who # NoOne
  /\ Addable(entry, who.step, from, rel, to)
  /\ Holding(links, from, rel, to) = {}
  /\ Len(links) < MaxLinks
  /\ links' = Append(links, Stamped(who, from, rel, to))
  /\ UNCHANGED <<entry, who>>

\* Faulty: nobody asks who wrote the link.
RemoveAnyLink(from, rel, to) ==
  /\ who # NoOne
  /\ \E i \in Holding(links, from, rel, to) :
       /\ \A j \in Holding(links, from, rel, to) : i <= j
       /\ links' = RemoveAt(links, i)
  /\ UNCHANGED <<entry, who>>

\* trace_link remove: the first link that matches, if this step wrote it.
RemoveLink(from, rel, to) ==
  /\ who # NoOne
  /\ \E i \in Holding(links, from, rel, to) :
       /\ \A j \in Holding(links, from, rel, to) : i <= j
       /\ links[i].by = who.step
       /\ links' = RemoveAt(links, i)
  /\ UNCHANGED <<entry, who>>

\* The step writes, withdraws or deletes a block of its artifact (write and edit tools).
EditBlock(id, res) ==
  /\ who # NoOne
  /\ id.home = "spec"
  /\ entry' = [entry EXCEPT ![id] = res]
  /\ UNCHANGED <<links, who>>

\* Between steps people edit trace.yaml by hand: no rule stops them.
HumanAdd(l) ==
  /\ who = NoOne
  /\ Len(links) < MaxLinks
  /\ links' = Append(links, l)
  /\ UNCHANGED <<entry, who>>

HumanDrop(i) ==
  /\ who = NoOne
  /\ links' = RemoveAt(links, i)
  /\ UNCHANGED <<entry, who>>

Next ==
  \/ \E s \in Step, r \in Run : BeginStep(s, r)
  \/ EndStep
  \/ \E c \in Calls : \/ AddLink(c.from, c.rel, c.to)
                     \/ RemoveLink(c.from, c.rel, c.to)
  \/ \E id \in Id, res \in Resolution : EditBlock(id, res)
  \/ \E l \in HumanLinks : HumanAdd(l)
  \/ \E i \in DOMAIN links : HumanDrop(i)

Spec == Init /\ [][Next]_storeVars

---------------------------------------------------------------------------
\* Whatever a step does with the tool, the links of people and of other steps are the
\* same afterwards, none lost and none added in another's name (traceLink: "Refuses ...
\* removing another step's or a human's link").
ForeignLinks(trace, step) == {l \in ToSet(trace) : l.by # step}
ForeignLinksStay ==
  [][who # NoOne => ForeignLinks(links', who.step) = ForeignLinks(links, who.step)]_storeVars

\* A call of the tool adds no T1, T2 or T3 problem, not even a warning, whatever problems
\* people and edits of blocks left before it: what the tool accepts the linter accepts
\* (api.ts, "a tool never accepts what the linter would reject").
NoNewLinkProblems ==
  [][who # NoOne /\ entry' = entry =>
       LinkProblems(links', entry) \subseteq LinkProblems(links, entry)]_storeVars
=============================================================================
