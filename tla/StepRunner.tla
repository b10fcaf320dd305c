------------------------------ MODULE StepRunner ------------------------------
(***************************************************************************)
(* runStep (packages/step-runner/src/run.ts): one agent step, run on one   *)
(* case in a clean temporary workspace, with a lint and repair loop, and   *)
(* its outputs published to runs/<case>/<run>.  The module follows a       *)
(* process that makes the runs of Plan one after the other, as run-step,   *)
(* run-suite and the tests do, with the agent free to call any tool in any *)
(* order while it has a prompt, and with every await, and the process      *)
(* itself, free to fail.  Two runs of Plan may have the same case and the  *)
(* same id (run-step --run-id): they share a directory, and the second     *)
(* writes over what the first left there.                                  *)
(*                                                                         *)
(* The analysis the step writes is a record: whether its header is the one *)
(* the runner gave it ("given", "changed", or "absent": no frontmatter),   *)
(* what each of its finding blocks is, and whether anything else in it is  *)
(* an error for the linter.  The links of trace.yaml are those of          *)
(* LinkStore, with what became of the text above them.                     *)
(***************************************************************************)
EXTENDS TraceRules, SequencesExt

CONSTANTS
  Id, Step, Run, Human, NoRun, NoOne, Calls, MaxLinks,  \* as in LinkStore
  Case,            \* the eval cases, [trace: the links of the input trace.yaml, pinned,
                   \* loose: that file has no links key and does not end in one blank line]
  Plan,            \* the runs, in order: a sequence of [case, step, run]
  RepairAttempts,  \* limits.repair_attempts of pipeline.lock.yaml
  Texts,           \* the analyses an agent may write
  Skeleton,        \* the analysis materialise creates: empty sections, a given header
  None             \* an output that is not there

VARIABLES
  stage,       \* where the current run is
  turn,        \* the number of runs started
  route,       \* how model calls go: "litellm", or "none" (direct or injected model)
  env, saved,  \* SPEC_STEP and SPEC_RUN of the process, and what finally puts back
  doc,         \* requirements-analysis.md in the workspace
  links,       \* the links of trace.yaml in the workspace
  head,        \* the text above them: "given" or "changed"
  inputs,      \* the other files of the workspace: "as given" or "changed"
  attempts,    \* prompts sent in this run
  errors,      \* the last lint found an E
  usage,       \* the spend read back: "none", "partial" or "complete"
  copied,      \* the files of spec/ that this run has copied
  spec, lint, summary,  \* runs/<case>/<run>: spec/, lint.json, run.json
  fate         \* what the caller of runStep saw of every run of the plan

session == <<route, env, saved>>
workspace == <<doc, links, head, inputs>>
loop == <<attempts, errors, usage, copied>>
outputs == <<spec, lint, summary>>
vars == <<stage, turn, session, workspace, loop, outputs, fate>>

Header == {"given", "changed", "absent"}
Analysis == [header : Header, blocks : [{id \in Id : IsFinding(id)} -> Resolution], bad : BOOLEAN]
Link == [from : Id, rel : Rel, to : Id, by : Step \cup {Human}, run : Run \cup {NoRun}]

\* The outputs of a run: the two files of spec/ a step may change, lint.json and run.json.
HeadKind == {"given", "changed"}
TraceOut == [links : Seq(Link), head : HeadKind]
SpecOut == [doc : Analysis \cup {None}, trace : TraceOut \cup {None}]
LintOut == [errors : BOOLEAN]
SummaryOut == [attempts : Nat, intact : BOOLEAN, errors : BOOLEAN, ok : BOOLEAN,
               gateway : {"litellm", "none"}, usage : {"none", "partial", "complete"}]

\* One call of runStep.
Invocation == [case : Case, step : Step, run : Run]

ASSUME RepairAssumption == RepairAttempts \in Nat
ASSUME TextsAssumption == Texts \subseteq Analysis /\ Skeleton \in Analysis
ASSUME CaseAssumption ==
  \A c \in Case : c.trace \in Seq(Link) /\ {c.pinned, c.loose} \subseteq BOOLEAN
ASSUME LooseAssumption == \A c \in Case : c.loose => c.trace = <<>>
ASSUME PlanAssumption == Plan \in Seq(Invocation)
ASSUME CallsInType == Calls \subseteq [from : Id, rel : Rel, to : Id]
ASSUME NoneAssumption == None \notin Analysis \cup TraceOut \cup LintOut \cup SummaryOut

Now == Plan[turn]
Identity(p) == [step |-> p.step, run |-> p.run]

\* runDir: where a run puts its outputs.
DirOf(p) == [case |-> p.case, run |-> p.run]
Dir == {DirOf(Plan[i]) : i \in DOMAIN Plan}
Here == DirOf(Now)

\* loadWorkspace: a file without frontmatter is not an artifact, so none of its blocks exist.
View(d) == [id \in Id |->
              IF ~IsFinding(id) THEN "live"
              ELSE IF d.header = "absent" THEN "missing" ELSE d.blocks[id]]

Store == INSTANCE LinkStore
           WITH entry <- View(doc), who <- env, HumanLinks <- {}

\* lint of the workspace has an E: in the analysis itself, in the pin of trace.yaml to an
\* analysis that is not there (H3), or in the links.
HasErrors(d, l, pinned) ==
  \/ d.header # "absent" /\ d.bad
  \/ d.header = "absent" /\ pinned
  \/ TraceErrors(l, View(d)) # {}

\* Faulty: guard lets the agent write trace.yaml too.
PermittedTrace(path) == path \in {"analysis", "trace"}

\* guard: what the agent may write with the write and edit tools.
Permitted(path) == path = "analysis"

---------------------------------------------------------------------------
Init ==
  /\ stage = "idle" /\ turn = 0
  /\ route = "none" /\ env = NoOne /\ saved = NoOne
  /\ doc = Skeleton /\ links = <<>> /\ head = "given" /\ inputs = "as given"
  /\ attempts = 0 /\ errors = FALSE /\ usage = "none" /\ copied = {}
  /\ spec = [d \in Dir |-> [doc |-> None, trace |-> None]]
  /\ lint = [d \in Dir |-> None] /\ summary = [d \in Dir |-> None]
  /\ fate = [i \in DOMAIN Plan |-> "none"]

\* materialise: a clean workspace, with the analysis and, unless the case brings one,
\* trace.yaml created with their headers.
Materialise(c) ==
  doc' = Skeleton /\ links' = c.trace /\ head' = "given" /\ inputs' = "as given"

\* Faulty: the spec/ that an earlier run left is removed.
SetupClears ==
  /\ stage = "idle" /\ turn < Len(Plan)
  /\ turn' = turn + 1
  /\ fate' = [fate EXCEPT ![turn + 1] = "running"]
  /\ stage' = "gateway"
  /\ Materialise(Plan[turn + 1].case)
  /\ attempts' = 0 /\ errors' = FALSE /\ usage' = "none" /\ copied' = {}
  /\ route' \in {"litellm", "none"}
  /\ spec' = [spec EXCEPT ![DirOf(Plan[turn + 1])] = [doc |-> None, trace |-> None]]
  /\ UNCHANGED <<env, saved, lint, summary>>

\* The lock, the case and runDir are there, and materialise builds the workspace: the
\* input trace.yaml is kept, the analysis is created with its header.  A directory that an
\* earlier run has filled is taken as it is.
Setup ==
  /\ stage = "idle" /\ turn < Len(Plan)
  /\ turn' = turn + 1
  /\ fate' = [fate EXCEPT ![turn + 1] = "running"]
  /\ stage' = "gateway"
  /\ Materialise(Plan[turn + 1].case)
  /\ attempts' = 0 /\ errors' = FALSE /\ usage' = "none" /\ copied' = {}
  /\ route' \in {"litellm", "none"}
  /\ UNCHANGED <<env, saved, outputs>>

\* An exception ends the run: the caller sees it, nothing more is written.
Throw ==
  /\ stage' = "idle"
  /\ fate' = [fate EXCEPT ![turn] = "threw"]
  /\ UNCHANGED <<turn, route, workspace, loop, outputs>>

\* The gateway does not answer, there is no key or no model, or the resources do not load.
SetupThrows == stage = "gateway" /\ Throw /\ UNCHANGED <<env, saved>>

\* Faulty: an identity that is already in the environment wins.
OpenSessionAsIs ==
  /\ stage = "gateway"
  /\ saved' = env
  /\ env' = IF env = NoOne THEN Identity(Now) ELSE env
  /\ stage' = "prompt"
  /\ attempts' = 1
  /\ UNCHANGED <<turn, route, workspace, errors, usage, copied, outputs, fate>>

\* The identity goes into the environment before the session exists, and the first
\* prompt is sent.
OpenSession ==
  /\ stage = "gateway"
  /\ saved' = env
  /\ env' = Identity(Now)
  /\ stage' = "prompt"
  /\ attempts' = 1
  /\ UNCHANGED <<turn, route, workspace, errors, usage, copied, outputs, fate>>

\* createAgentSession throws, before the try that would restore the environment.
OpenSessionThrows ==
  /\ stage = "gateway"
  /\ saved' = env
  /\ env' = Identity(Now)
  /\ Throw

\* The agent calls write or edit on one of the files of the workspace.
WriteFile(path, text) ==
  /\ stage = "prompt"
  /\ Permitted(path)
  /\ doc' = IF path = "analysis" THEN text ELSE doc
  /\ links' = IF path = "trace" THEN <<>> ELSE links
  /\ inputs' = IF path = "intent" THEN "changed" ELSE inputs
  /\ UNCHANGED <<stage, turn, session, head, loop, outputs, fate>>

\* The agent calls trace_link, which reads the identity of the environment.  In a loose file
\* the key for the first link goes in place of the last line, or below a text that did not
\* end its line, so the text above the links is not what it was (HeaderBlockKept of
\* TraceFile asks for the other layouts).
TraceLink(c) ==
  /\ stage = "prompt"
  /\ UNCHANGED <<stage, turn, session, doc, inputs, loop, outputs, fate>>
  /\ \/ /\ Store!AddLink(c.from, c.rel, c.to)
        /\ head' = IF Now.case.loose THEN "changed" ELSE head
     \/ Store!RemoveLink(c.from, c.rel, c.to) /\ UNCHANGED head

\* What follows a prompt, with the lint result, the bound on repairs, the count after a
\* repair and the environment after the loop as parameters; the faulty variants differ
\* in one of them.
AfterPrompt(verdict, limit, count, identity) ==
  /\ stage = "prompt"
  /\ errors' = verdict
  /\ IF errors' /\ attempts < limit
     THEN attempts' = count /\ UNCHANGED <<stage, env>>
     ELSE stage' = "usage" /\ env' = identity /\ UNCHANGED attempts
  /\ UNCHANGED <<turn, route, saved, workspace, usage, copied, outputs, fate>>
Linted == HasErrors(doc, links, Now.case.pinned)

\* Faulty: one repair too few, repairs that are not counted, no lint after a repair, and an
\* environment that keeps the identity.
PromptReturnsEarly == AfterPrompt(Linted, RepairAttempts, attempts + 1, saved)
PromptReturnsUncounted == AfterPrompt(Linted, 1 + RepairAttempts, attempts, saved)
PromptReturnsUnlinted ==
  AfterPrompt(IF attempts = 1 THEN Linted ELSE errors, 1 + RepairAttempts, attempts + 1, saved)
PromptReturnsDirty == AfterPrompt(Linted, 1 + RepairAttempts, attempts + 1, env)

\* The session ends its turn; lint, then either a repair prompt with the errors or the end
\* of the loop, where finally puts the environment back.
PromptReturns ==
  /\ stage = "prompt"
  /\ errors' = HasErrors(doc, links, Now.case.pinned)
  /\ IF errors' /\ attempts < 1 + RepairAttempts
     THEN /\ attempts' = attempts + 1
          /\ UNCHANGED <<stage, env>>
     ELSE /\ stage' = "usage"
          /\ env' = saved
          /\ UNCHANGED attempts
  /\ UNCHANGED <<turn, route, saved, workspace, usage, copied, outputs, fate>>

\* The prompt or the lint throws: finally restores, nothing is published.
PromptThrows == stage = "prompt" /\ Throw /\ env' = saved /\ UNCHANGED saved

\* Through the gateway, the spend is read back until it is complete or time is up.
ReadUsage ==
  /\ stage = "usage"
  /\ stage' = "copy"
  /\ usage' \in IF route = "litellm" THEN {"partial", "complete"} ELSE {"none"}
  /\ UNCHANGED <<turn, session, workspace, attempts, errors, copied, outputs, fate>>

\* The outputs, one file after the other: spec/, lint.json, run.json.  cpSync of the folder
\* copies its files in the order the file system lists them, over those that are there.
SpecFile == {"doc", "trace"}
Written(f) == IF f = "doc" THEN doc ELSE [links |-> links, head |-> head]
Copied(f) ==
  /\ stage = "copy" /\ f \notin copied
  /\ copied' = copied \cup {f}
  /\ stage' = IF copied' = SpecFile THEN "lint" ELSE "copy"
  /\ UNCHANGED <<turn, session, workspace, attempts, errors, usage, lint, summary, fate>>

\* Faulty: a file that is there is kept.
CopyKeeps(f) ==
  Copied(f) /\ spec' = IF spec[Here][f] = None THEN [spec EXCEPT ![Here][f] = Written(f)] ELSE spec

CopyFile(f) == Copied(f) /\ spec' = [spec EXCEPT ![Here][f] = Written(f)]

\* Faulty: a clean run leaves no lint.json.
WriteLintErrors ==
  /\ stage = "lint"
  /\ stage' = "summary"
  /\ lint' = IF errors THEN [lint EXCEPT ![Here] = [errors |-> errors]] ELSE lint
  /\ UNCHANGED <<turn, session, workspace, loop, spec, summary, fate>>

WriteLint ==
  /\ stage = "lint"
  /\ stage' = "summary"
  /\ lint' = [lint EXCEPT ![Here] = [errors |-> errors]]
  /\ UNCHANGED <<turn, session, workspace, loop, spec, summary, fate>>

\* headersIntact was computed on the same workspace just before the copy, for the analysis
\* and for trace.yaml.
Intact == doc.header = "given" /\ head = "given"

RunJson == [attempts |-> attempts, intact |-> Intact, errors |-> errors,
            ok |-> ~errors /\ Intact, gateway |-> route, usage |-> usage]

WriteSummary ==
  /\ stage = "summary"
  /\ stage' = "cleanup"
  /\ summary' = [summary EXCEPT ![Here] = RunJson]
  /\ UNCHANGED <<turn, session, workspace, loop, spec, lint, fate>>

\* The temporary directories go, and runStep returns.
Return ==
  /\ stage = "cleanup"
  /\ stage' = "idle"
  /\ fate' = [fate EXCEPT ![turn] = "returned"]
  /\ UNCHANGED <<turn, session, workspace, loop, outputs>>

\* A copy, a write or a removal fails: no space, no permission, a file in use.
PublishThrows ==
  stage \in {"copy", "lint", "summary", "cleanup"} /\ Throw /\ UNCHANGED <<env, saved>>

\* The process dies and a new one makes the runs that are left.
Crash ==
  /\ stage # "idle"
  /\ stage' = "idle" /\ env' = NoOne /\ saved' = NoOne
  /\ fate' = [fate EXCEPT ![turn] = "crashed"]
  /\ UNCHANGED <<turn, route, workspace, loop, outputs>>

\* What the runner does by itself; the agent's tool calls and the failures are not its own.
RunnerStep ==
  \/ Setup \/ OpenSession \/ PromptReturns \/ ReadUsage
  \/ (\E f \in SpecFile : CopyFile(f)) \/ WriteLint \/ WriteSummary \/ Return

AgentStep ==
  \/ \E path \in {"analysis", "trace", "intent"}, text \in Texts : WriteFile(path, text)
  \/ \E c \in Calls : TraceLink(c)

Failure == SetupThrows \/ OpenSessionThrows \/ PromptThrows \/ PublishThrows \/ Crash

Next == RunnerStep \/ AgentStep \/ Failure

\* The runner is never blocked but by an await, and every await of it ends: requests have
\* timeouts, and the model is taken to end its turn some day.
Fairness == WF_vars(RunnerStep)

Spec == Init /\ [][Next]_vars
FairSpec == Spec /\ Fairness

---------------------------------------------------------------------------
Stage == {"idle", "gateway", "prompt", "usage", "copy", "lint", "summary", "cleanup"}
Fate == {"none", "running", "returned", "threw", "crashed"}

\* Every variable has its type, and no run sends more prompts than the lock allows.
TypeOK ==
  /\ stage \in Stage
  /\ turn \in 0..Len(Plan)
  /\ stage # "idle" => turn > 0
  /\ route \in {"litellm", "none"}
  /\ env \in Store!Identity \cup {NoOne} /\ saved \in Store!Identity \cup {NoOne}
  /\ doc \in Analysis /\ links \in Seq(Link) /\ head \in HeadKind
  /\ inputs \in {"as given", "changed"}
  /\ attempts \in 0..(1 + RepairAttempts) /\ errors \in BOOLEAN
  /\ usage \in {"none", "partial", "complete"} /\ copied \subseteq SpecFile
  /\ spec \in [Dir -> SpecOut] /\ lint \in [Dir -> LintOut \cup {None}]
  /\ summary \in [Dir -> SummaryOut \cup {None}]
  /\ fate \in [DOMAIN Plan -> Fate]

\* The runs that were started, by their place in the plan, and their directories.
Started == 1..turn
Home(i) == DirOf(Plan[i])

\* What is in the directory of a run is that run's own: no other run was started there, or
\* it was the last one there and returned.  A run under a used id that fails between its
\* outputs leaves some of the run before it next to its own.
Alone(i) == \A j \in Started : Home(j) = Home(i) => j = i
LastThere(i) == \A j \in Started : Home(j) = Home(i) => j <= i
Owns(i) == Alone(i) \/ (LastThere(i) /\ fate[i] = "returned")

Whole(d) == spec[d].doc # None /\ spec[d].trace # None

\* run.json speaks of the spec next to it: its error count, its headersIntact and its ok
\* are those of the files copied to spec/, not of an earlier state of the workspace, nor of
\* an earlier run that left its outputs in the directory (RunResult, "No E after the last
\* attempt, and headers intact").
Vouched(s, out, pinned) ==
  LET bad == HasErrors(out.doc, out.trace.links, pinned)
      intact == out.doc.header = "given" /\ out.trace.head = "given"
  IN  s.errors = bad /\ s.intact = intact /\ s.ok = (~bad /\ intact)
SummaryVouches ==
  \A i \in Started :
    Owns(i) /\ summary[Home(i)] # None =>
      Whole(Home(i)) /\ Vouched(summary[Home(i)], spec[Home(i)], Plan[i].case.pinned)

\* What the case gives the step leaves it unchanged: the input files, and the links of
\* people and of other steps, in the workspace and in what is published (guard, "change
\* trace.yaml only through trace_link").
SameForeign(l, p) == Store!ForeignLinks(l, p.step) = Store!ForeignLinks(p.case.trace, p.step)
InputsKept ==
  /\ stage # "idle" => inputs = "as given" /\ SameForeign(links, Now)
  /\ \A i \in Started : Owns(i) /\ spec[Home(i)].trace # None =>
       SameForeign(spec[Home(i)].trace.links, Plan[i])

\* A link that a run made says so: its `by` is the step and its `run` the run whose prompt
\* made it, even after an earlier run of the process left its own identity behind
\* (workflow.md section 4, "The model never supplies them").
Minted(l, p) ==
  \A x \in ToSet(l) : x \in ToSet(p.case.trace) \/ (x.by = p.step /\ x.run = p.run)
LinksMinted ==
  /\ stage # "idle" => Minted(links, Now)
  /\ \A i \in Started : Owns(i) /\ spec[Home(i)].trace # None =>
       Minted(spec[Home(i)].trace.links, Plan[i])

\* A run gives up on errors only when it has used every repair the lock allows.
NoEarlyGiveUp ==
  \A i \in Started :
    Owns(i) /\ summary[Home(i)] # None /\ summary[Home(i)].errors =>
      summary[Home(i)].attempts = 1 + RepairAttempts

\* The outputs appear in an order a reader may rely on, whatever fails or dies between
\* them and whatever was in the directory before: run.json only after lint.json, with the
\* same verdict, lint.json only after all of spec/, and a run that returned has all three.
OutputsOrdered ==
  /\ \A d \in Dir :
       /\ summary[d] # None => lint[d] # None
       /\ lint[d] # None => Whole(d)
  /\ \A i \in Started :
       /\ fate[i] = "returned" => summary[Home(i)] # None
       /\ Owns(i) /\ summary[Home(i)] # None => lint[Home(i)].errors = summary[Home(i)].errors

\* An identity is in the environment only during the prompts of its run, unless opening
\* the session threw: a run that got as far as a prompt leaves the environment as it found
\* it, and a run that left its identity behind published nothing.
Unpublished(d) ==
  spec[d].doc = None /\ spec[d].trace = None /\ lint[d] = None /\ summary[d] = None
NoStrayIdentity ==
  env # NoOne =>
    \/ stage = "prompt" /\ env = Identity(Now)
    \/ \E i \in Started : /\ env = Identity(Plan[i]) /\ fate[i] = "threw"
                           /\ Alone(i) => Unpublished(Home(i))

\* Every run that starts ends, however the agent and the lint go on.
EveryRunEnds == \A i \in DOMAIN Plan : fate[i] = "running" ~> fate[i] # "running"
=============================================================================
