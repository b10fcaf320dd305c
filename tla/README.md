# spec-contracts in TLA+

Models, checks and proofs for the code under `packages/`: the linter of specs
(`spec-lint`), the tools agents call (`pi-spec-tools`), the runner of one agent step
(`step-runner`) and the evaluation of runs (`eval-runner`).

## 1. The system

A *spec* is a folder of Markdown artifacts (intent, requirements analysis, requirements, design)
and a `trace.yaml` that links their blocks. Agent steps write the artifacts, one step per session;
`spec-lint` decides whether what they wrote is well-formed; a run of a step is scored against what
its eval case expects, and a suite of cases decides whether a change may be released.

| Component | State it keeps | Operations | Interacts with |
|---|---|---|---|
| `trace_link` (`pi-spec-tools/src/trace-link.ts`) | the text of `trace.yaml` | add, remove | reads `SPEC_STEP`/`SPEC_RUN` from the environment at every call; uses spec-lint's tables and ID index; people edit the same file |
| traceability rules (`spec-lint/src/rules/trace.ts`) | none | T1–T5, coverage C1–C9 | shared by the linter and `trace_link` |
| finding rules and the gate (`rules/findings.ts`, `index.ts`) | none; `status` in the headers | F1–F6, blocking or not | steps and people close findings; the reconciler approves at an open gate |
| git-aware rules (`rules/header.ts`, `rules/structure.ts`, `rules/domain.ts`, `git.ts`) | none; reads the working tree, `HEAD`, the branch's commits and `main` | pins H2–H4, H5, S7, S11, D15 | branches of several specs share `domain/` |
| `runStep` (`step-runner/src/run.ts`) | a temporary workspace, the process environment, `runs/<case>/<run>/` | set-up, prompt, lint, repair, outputs | pi session (agent), gateway, linter |
| spend readback (`step-runner/src/gateway.ts`) | the last good answer, a deadline | poll | litellm, which writes its logs in batches |
| seeded and golden score (`eval-runner/src/score.ts`) | none between calls | match, align, metrics, verdict | the artifacts a run left |
| `runSuite` (`eval-runner/src/suite.ts`) | verdicts so far, `score.json`, the report | k runs per case, aggregate, report | `runStep`, the scores |
| Markdown parser and structure rules (`parse/markdown.ts`, `rules/structure.ts`) | the section, block and field a line belongs to | one pass over the lines, then S1–S10 on what it made | every other rule reads the blocks it made |
| CML parser, other lint rules, read-only tools, lock, command lines | none | text in, diagnostics or text out | — |
| reconciler (`contracts/workflow.md`) | — | — | specified, not written: there is no code |

What is hard about it, and what makes each part correct:

* **trace_link** splices lines so that comments and layout survive. Which lines an item spans, and
  which link an item is, come from two readings of the file that can disagree. Correct: a call
  changes one link of its own step and no other text, adds nothing the linter rejects, and leaves a
  file that can be read again after any sequence of calls.
* **runStep** changes the environment of its process, loops on an agent that may do anything its
  guard allows, and publishes a folder and two files one after the other, into a directory that may
  hold those of an earlier run. Any await may throw and the process may die. Correct: the published summary speaks of the published spec; links bear the identity of
  the run that made them; inputs stay; the environment is put back; the loop is bounded.
* **spend readback** polls a source that is late, incomplete and unreliable. Correct: it returns
  in bounded time, forgets nothing, and says *complete* only of all. The last does not hold when the
  gateway logs more calls than pi counted (gateway.ts:139, see the end of section 3).
* **scores** depend on greedy loops over a total order and on ratios with roundings and empty
  denominators. Correct: one-to-one, best first, and a verdict of PASS that the exact ratios earn.
* **runSuite** has no `try`: anything ends it. Correct: a report speaks of every case and all k
  runs, hard metrics are judged on the worst run and the others on the mean.
* **coverage and the gate** read links that outlive the blocks they join, and a gate that was open
  once does not stay open by itself. Correct: while an approved spec lints, its goals and
  requirements are covered by live blocks and no finding was closed by the wrong hand.
* **git-aware rules** decide about a history (rebases, merges, deletions) from snapshots of it.
  Correct: a branch that lints clean changed version and status only through the reconciler, and
  tactical elements only through `ddd-tactical` or people; while a file stays on
  `main` its approved IDs stay, and new ones continue after them; what is merged was made from
  versions that exist and are the newest that `main` had. IDs do leave `main` with a file that a
  branch deletes (`ids_gone`).
* **the parser** keeps five variables that each kind of line resets in its own way. Correct: no line
  leaks over a heading, out of Notes or into another key's value, and what the structure rules let
  pass has the shape of the grammar, with no line lost.

## 2. Modules

| Module | Models | Composes |
|---|---|---|
| `TraceRules` | `ALLOWED`, `relError`, `resolveTo`, T1–T3 and T5 as operators | |
| `LinkStore` | what `trace_link` promises: a list of links, signed | `TraceRules` |
| `TraceFile` | `trace_link` on the lines of `trace.yaml` | implements `LinkStore` (`Store == INSTANCE LinkStore WITH links <- LinksOf(lines)`) |
| `StepRunner` | `runStep` over the runs of one process after the other | uses `LinkStore`'s actions for the agent's calls of `trace_link` (`entry <- View(doc)`, `who <- env`) |
| `SpendReadback` | `fetchGatewayUsage` | `StepRunner`'s `ReadUsage` is its outcome |
| `Scoring`, `Alignment` | `scoreSeeded`, `scoreGolden` | |
| `Suite` | `runSuite`, `aggregate`; a run is an outcome with metrics | |
| `SpecGate` | coverage, finding rules and what blocks, over the life of a spec | `TraceRules`, and `LinkStore`'s actions for `trace_link` (`entry <- Entry`) |
| `BranchHistory` | H5, S7 and D15 on one file of a branch, with what git does to it | |
| `Pins` | H2–H4 over several artifacts, a branch, `main` and the constitution outside git | |
| `Artifact` | the loop of `parseMarkdown`, one action per branch, and S1–S6, S9, S10 on what it made | |
| `Ordered` | `filter` and ascending order without recursion, so that proofs can open them | |
| `*_proofs`, `Lemmas` | theorems and the lemmas they share, see section 5 | |
| `MC*` | small instances | |

Correspondence, where it is not by name:

* **IDs** are records of prefix, home (this spec, the domain, a sibling spec) and number. What an ID
  resolves to is the function `entry`: `live`, `withdrawn` or `missing` (`ws.ids`, `resolveTo`).
* **Lines** of `trace.yaml` have a kind and the items that start on them. `Parses` says which
  sequences YAML accepts; `Spans` is `locate` with its fallback `?? parsed.links[i]`; `Inserted` and
  `Removed` are the splices; `Writable` is the check of `write`. `Orderly` names the layouts of which
  the theorems speak.
* **The analysis** an agent writes is abstracted to what the runner can tell: its header (`given`,
  `changed`, `absent` frontmatter), its finding blocks, and whether any other rule reports an error.
  `View` is the ID index of `loadWorkspace`: a file without frontmatter is not an artifact, so its
  findings are not there; `HasErrors` is `counts.E > 0`.
* **The identity** in the environment is `env` (in `LinkStore`, `who`); `saved` is what `finally`
  puts back. `OpenSessionThrows` is `createAgentSession` throwing before the `try`.
* **A run directory** is `DirOf` of an entry of `Plan`: its case and its run id. `mkdirSync` does not
  ask whether it is there, so two entries may share one and the later writes over what is there.
  `spec/` is copied file by file, in any order (`CopyFile`), and a failure or a crash may come
  between. Of `trace.yaml` the runner reads the links and the text above them (`head`, which
  `headersIntact` compares); `loose` is a case whose file is one of those that `trace_link` cannot
  extend without changing that text.
* **fate** is what the caller of `runStep` saw, for each entry of `Plan`. `Throw` is any exception; `Crash` is the death of
  the process, after which a new process makes the runs that are left.
* **Blocks** in `SpecGate` are records of the fields the rules read; `Entry` is the ID index, in which
  an AC lives and is withdrawn with its REQ. `Blocks` is the test on `statuses` in `lint`.
* **A file on a branch** is its version and status and its items: block IDs, each a
  number in a series (the prefix, or the hundred of a REQ), or tactical elements. `Content` is `git show`, `Touching` is `git log main..HEAD -- file`. git leaves out what
  lies behind a merge that took the file of the tip of `main` as it was, and shows it again once
  `main` has moved on: that is `met`. `owed` is what the accountable commits left, kept beside the
  rules to be compared with what they let pass. A textual conflict is not resolved in the model
  (`contracts/workflow.md` section 9 escalates it). A branch may delete the file and be merged. A block
  is its ID: two branches that give the same ID to different blocks are not told apart.
* **Ratios** are in thousandths as `round3` leaves them. In `Suite` a metric of a run is an exact
  ratio, so that the roundings of the code can be compared with it.

* **A file in `Artifact`** is written while it is read: each step brings one line and takes one turn
  of the loop, so that every prefix is a whole file that the rules judge. A line is what the regular
  expressions tell it apart by. `place` is what the parser made of each line: its role, and the line
  of the section, block or key that owns it; the records of the code (`Section.loose`,
  `Block.fields`, `Field.value`) are read off it (`Owned`, `FieldAt`, `Values`). `sec`, `cur`, `last`
  and `sink` are the variables of the code; `inNotes` is a question about `sec`.
* **An artifact in `Pins`** is its version, status, pins and the contexts its elements name. A merge
  sets the status of what the branch touched, as the reconciler does. The constitution has a version
  and no history.

Definitions whose comment begins with *Faulty* are not part of any specification. Each is a
definition with a plausible mistake, kept to show which property notices it.

## 3. Runs

| Run | States | What it shows | Bounds, and why they are enough |
|---|---|---|---|
| `link_store` | 147,285 | steps, people and block edits interleaved: only own links change, and no call adds a T1–T3 problem | two findings and targets in each resolution, three links: a duplicate, an own and a foreign link can meet in every order |
| `trace_file_block` | 10,566 | on nine layouts (block, null, flow over several lines, continued items, header last, header missing, no key, a malformed item at the end) the splices implement the list, and so keep foreign links; other lines and the header block stay; no splice of a file that can be read is refused by `write`; add then remove restores it | three links: first, middle and last item are all removed; the layouts are those the branches of `traceLink` tell apart; that all nine are `Orderly`, as the theorems ask, is an assumption of `MCTraceFile` that TLC evaluates |
| `trace_file_flow` | violated | `links: [{…}, {…}]` on one line: removing one's own link deletes the others on that line | |
| `step` | 360,401 | two runs of a process with throws and crashes in between: the summary vouches for the spec, no early end, outputs in order, environment and identity, inputs and foreign links, every run ends | a leftover needs one earlier run; two repairs end the loop at each attempt; the second case brings a person's link and one of an earlier run of the same step |
| `step_again` | 386,597 | the same run id twice: whatever fails in either run, a `run.json` never stands without the rest of the outputs, and after a run that returned all of them are its own | one directory and two runs, each ending anywhere; the case has no links and a file that the first link changes above its list |
| `spend` | 1,700 | the readback with two own logs and one of another run, written in any batches, requests that are answered late, fail or hang | a timeout of 5, an interval of 2 and a request limit of 3 are in no ratio that would align their ends |
| `evaluation` | 76,692 | all pairs of small cases and analyses, of small references and runs, and suites of two cases, one with a golden case, two runs each, in which any step may throw: matching, alignment, verdicts and report | one module for the three programs, with one initial state per input of each. Seeded: up to three findings against up to three expectations, so that chains of ties, contested pairs, extras and empty matchings occur. Golden: sets of up to three requirements over four terms, with similarities on both sides of 0.4 and 0.6, merges, ties. Suite: values on both sides of each limit and such that the mean and the worst run disagree |
| `gate` | 250,716 | whatever is edited before and after approval, a lint that passes says the approved spec is covered and its findings were closed by the right hand | one goal, requirement with AC, design and finding, in the states the rules tell apart; three links, so that a requirement is realized directly and through its AC |
| `artifact` | 208,421 | on two good designs and every file that goes astray from any of their lines on, `ReadsAsWritten` compares the one pass with where the headings and keys are, and `CleanIsComplete` what S1–S10 let pass with the grammar | three lines astray: a wrong heading, a line under it and one more, or a key given twice with an item; 17 lines reach every branch with every section, list, text and enumeration before it |
| `pins` | 112,864 | every order of writing, dropping, rebasing and merging a design, its requirements and a shared context while another spec and the constitution move: what reaches `main` resolves, is fresh, and an up-to-date branch passes | two versions, three of the shared one: a pin can be old, current, ahead of `main`, and reverted |
| `history` | 2.8 million | over commits of steps, people and the reconciler, merges, rebases, deletions and a moving `main`: on a context, accountable headers and tactical elements on a branch that lints; on a glossary and a design that people also supersede, that while the file is on `main` no approved ID is lost and no new one is at or below the highest of its series | context: three commits, a change, its disguise (a revert, a deletion, a merge) and one after it, and two items and three headers, so that a revert exists. Markdown (the state constraint `Fits` tells the kinds apart; the run checks safety only): three IDs in two hundreds of REQ, so that a gap, a reuse and a first ID of a series exist; two commits, one of a glossary, which differs in that no lint passes without it; `main` with another branch's new IDs, ahead of and beside the branch's own |
| `ids_gone` | violated | a branch deletes the design, lints, and is merged | |

`CHECK_DEADLOCK FALSE` is set where the program ends: `runStep` after the runs of the plan, the
scores and the suite after their verdict, the readback after its return.

**Excluded from `trace_file_block` and from the theorems about `TraceFile`, and why.** Items on the
line of the key, or several on one line, as in `trace_file_flow`: removing one removes the line, and
with it the key or the other items. A malformed item before a link: the fallback of `locate`
(trace-link.ts:81) gives it the next item's link, and removing that link deletes the malformed item
and leaves the link. And a file with no `links:` key that ends in blank lines, or in none: there
`lines.pop()` (trace-link.ts:154), or the newline that is added, changes text that `headerBlock`
(workspace.ts:42) counts as header, so the first link the agent adds makes `headersIntact` false
although no header changed.

**Seen while modelling, and kept in the models as the code has it.** `derivesTo` counts
links from requirements that were withdrawn (trace.ts:120): a must-GOAL whose only requirement was
withdrawn has no C1, and the gate opens with no more than a T1 warning, where
`contracts/block-grammar.md` line 48 says that a withdrawn block "is excluded from coverage";
`ApprovedIsCovered` asks for a lint without T1. `trace_link` accepts a link that realizes a
wont-requirement (trace-link.ts:130), which the linter reports as C9, although `api.ts` line 3 says
"a tool never accepts what the linter would reject"; `NoNewLinkProblems` is about T1–T3. Text above
the first `##` of an artifact is dropped without a word, where `contracts/block-grammar.md` line
4 says "The parser rejects anything it doesn't recognise"; `CleanIsComplete` begins at the first
section. A nested bullet under a scalar is joined to it, dash and all (markdown.ts:189).
S7 looks only at files that are there (structure.ts:190): a deletion is merged without a word
(`ids_gone`), and a later branch that makes the file again is compared with nothing, so its numbers
may be those of blocks that were approved once. A run under a used id that fails between two outputs
leaves a directory with some of each run, whose `run.json` need not speak of the `spec/` beside it;
`SummaryVouches` asks only about directories whose last run returned, or that one run alone used. The
readback calls the spend complete as soon as as many logs carry the run's tag as pi counted calls
(gateway.ts:139): with calls the gateway logged more often than pi counted them (a retry, a run id used
again), or none expected, that may be a part, and its cost is reported as that of the run. No property
of `SpendReadback` speaks of completeness: one that excluded these cases would say nothing. An
empty flow list that is spread over lines (`links: [` and `]`) is the one layout in which `traceLink`
builds a text that `write` has to refuse.
H4 compares with `main` before the merge, so a branch that raises an artifact and leaves another's
pin to it behind passes; H3 asks for the artifact in the working tree and rejects a pin to one that
is on `main` only, where `contracts/validation-rules.md` line 21 allows either; and two branches that
each write version 2 of a file are told apart by git's conflict only, not by a pin. With the lock's
`repair_attempts: 3` a step may be prompted four times; `contracts/workflow.md` section 3 speaks of
`attempts < 3`. `runSuite` refuses a golden case when its turn comes, after all runs of the cases
before it. The mean of metrics is a mean of rounded values, itself rounded: a mean up to a
thousandth below its limit can pass (5/7 and 23/26 pass a limit of .8), which is the slack in
`SuitePassIsEarned`; the other way round no rounding fails a case (`FailIsDeserved`). The greedy matching of findings is not the one of largest recall; the rule in
`evals/scoring.md` asks for best pairs first, and that is what `BestFirst` states. An agent may
accept the risk of its own blocker: F2 looks at `major` only (findings.ts:25), where
`contracts/workflow.md` line 158 says "not allowed for blockers". H5 compares nothing across a
commit that deletes a file or breaks its header (header.ts:209), so a file that is deleted and made
again may come back with another version or status, which line 179 of the workflow leaves to the
reconciler; `HeadersAccounted` leaves such branches out. `contracts/validation-rules.md` line 23
says that H5 compares the last commit's trailer; the code looks at every commit of the branch.

## 4. Fairness

* `StepRunner`: weak fairness of `RunnerStep`, the steps the runner takes when an await returns. The
  gateway requests have timeouts; `session.prompt` has none of the runner's, so the model ending its
  turn is an assumption about pi and the provider. Nothing is assumed of the agent's tool calls, of
  failures or of crashes. Under it every run that starts ends (`EveryRunEnds`).
* `SpendReadback`: the clock advances, a request is aborted when `AbortSignal.timeout` is due and a
  sleep ends when it is due. Nothing is assumed of the gateway. Under it the readback `Returns`.

All other properties are safety properties and need no fairness.

## 5. Proofs

Proved with TLAPS for all values of the constants, under the named assumptions of the modules (types
of the constants; a step is never the name of a person). Where a theorem
needs more, its hypothesis has a name and stands in its statement; those are listed here.

* `LinkStore_proofs`: type correctness; `ForeignLinksStay`; `NoNewLinkProblems`. For the rules: a
  subset of the links has a subset of the T1 and T2 problems, removing a link removes no first
  occurrence of another, and an added link that passed `Addable` is live at both ends, allowed and
  not held yet.
* `TraceFile_proofs`: that the text implements the list (`ImplementsLinkStore`), `OtherLinesKept`,
  `HeaderBlockKept`, `SplicesReadable`, `RoundTrip`, `ForeignLinksKept`, for files of any length, any
  comments and layout of rows and continued items, and any calls and edits. The hypothesis is
  `OrderlyFiles`: the files a spec may start with parse, have at most one item on a line and none on
  the line of the key, no unreadable item before a link, and without a key one blank line at the end.
  It is needed: of the files that parse, those it leaves out are the ones section 3 excludes. And it is asked
  of the first file only: that every call and edit leaves such a file (`LayoutKept`) is the first
  theorem, and `Orderly` the inductive invariant (`FileInv`, with who is in the environment). Then
  `locate` pairs each link with the lines it begins on (`LinksAre`), so that a call edits at the
  place it means: a splice moves the places below it by a fixed distance (`Spliced`, `Shifted`),
  which gives the list afterwards (`SpliceAppends`, `SpliceRemoves`), the rest of the text
  (`SpliceKept`, `SpliceHeader`) and that YAML still accepts it (`ParsesGrown`, `ParsesShrunk`, `ParsesBegun`), which is
  all that `write` checks. The
  refinement is of steps: a spec may start with links in its list, which `LinkStore` lets people and
  steps write.
* `StepRunner_proofs`, first part: type correctness, `SummaryVouches`, `InputsKept`, `LinksMinted`,
  `NoEarlyGiveUp`, `OutputsOrdered`, `NoStrayIdentity`, for any plan, with ids used again or not. None is inductive alone:
  what is published agrees with what was linted only because the workspace does not change after
  the last lint, and links are signed well only because during prompts `env` is the identity of the
  run. `IInv` is the types, `RunsWell` (in each stage, how `doc`, `links`, `head`, `errors`, `env`, the
  files copied so far and what is published relate for the current run; for the runs before it and
  every directory, what may be there), and where a stray identity in `env` or `saved` may come from: a
  run that threw and, if alone in its directory, published nothing. Each action keeps `IInv`, and each
  property follows from it.
* `StepRunner_proofs`, second part, about `SpendReadback`: type correctness, `NeverTooLate`,
  `NothingForgotten`. The invariant bounds `since` in each stage: a
  sleep begins before the deadline, so a request begins less than an interval after it and ends
  within its limit; and an answer under way holds at least what the last good one did, because logs
  are only added.
* `Scoring_proofs`, about `Scoring`: the matching is one-to-one, `BestFirst`,
  `BlockersStopThePipeline`, `PassIsEarned`. The loop keeps that what it took comes before what it
  has not looked at, and that what it passed over clashes with something it took before. The last
  two are about roundings. That all expected blockers were rated as blockers needs fewer than 2000
  of them (`FewBlockers`): 1999 of 2000 rounds to one. That the exact ratios meet the limits needs limits
  in steps of .05 (`CoarseLimits`; all of `thresholds.yaml` are) and fewer than 50 expected and 100
  actual findings (`FewFindings`): a ratio with a denominator below 100 is either at least such a
  limit or misses it by more than a rounding makes up for. Nothing is assumed of the findings.
* `Scoring_proofs`, about `Alignment`: `AlignedOneToOne`, `MergedIntoMatched`, `CoveredIsDecided`,
  `NearestFirst`. The same invariant for the first loop, kept through the second: a merge finds an
  equivalent because the pair that took its requirement came before it, and equivalents come first.
  That coming first means being at least as near, also across the line of 0.6, is a lemma about
  products.
* `Scoring_proofs`, about `Suite`: `ReportIsComplete`, `SuitePassIsEarned`, `FailIsDeserved`. The
  invariant says that the verdicts so far are those of `CaseVerdict` on the scores beside the runs.
  The sums of `aggregate` are recursive functions; that each lies within half a unit per run of
  the exact sum is an induction over the runs. A pass is earned exactly on the hard metrics, which
  are judged on the worst run, when the hard limits are in steps of .05 and the hard ratios have
  denominators below 100 (`CoarseHardLimits`, `FewInEachRun`), and within a thousandth on the means
  of the others. `FailIsDeserved` needs no hypothesis.
* `SpecGate_proofs`: type correctness, `ApprovedIsCovered`, `PeopleDecide`. Both hold in every typed
  state, whatever steps and people did to reach it: the proofs go from what a passing lint rules out
  (no blocking C1 to C9, F1 to F4, T1) to the links and fields that must be there.
* `Lint_proofs`, about `BranchHistory`: type correctness, `TacticalAccounted`, `HeadersAccounted`, `IdsStay`. The
  last needs no history: S7 compares the tree with `main` as it is at the merge, and git's three-way
  merge of the two adds nothing that either lacks. For the others the invariant carries what the accountable commits owe: `owed` is what the base of the branch held,
  changed by each commit that may change it, so on a branch where no commit of `Touching` breaks H5
  or D15 it is what the tip holds. Since git leaves out what lies behind a merge that took the file
  of `main`, the same is carried from `met` on, for as long as the file of `main` is the one that was
  taken. A rebase replays the commits on `main`, and the invariant holds of each replayed prefix.
* `Pins_proofs`: `PinsResolveOnMain`, `MergedIsFresh`, `UpToDatePasses`. The rules look at the tree
  and at the tip of `main`; the invariant says how far the two can be from the base of the branch:
  an artifact of `main` is that of the base, or pins nothing; versions of `main` and of the tree are
  not below those of the base; and what is on `main` was approved. With git's conflicts on top, a
  pin that resolved before the merge resolves after it.
* `Lint_proofs`, about `Artifact`: `ReadsAsWritten` and `CleanIsComplete`, for any set of lines and any grammar.
  The first speaks of the whole file, the loop only of the line it is at: the invariant says
  that `sec`, `cur`, `last` and `sink` stand where the headings and keys of the file so far put
  them, that a field is the first of its name in its block, and that every line so far was read as
  written. A line that is added changes nothing above it (`Settled`), and puts the loop where the
  next line needs it (one lemma per kind of line). The second adds `LossIsSeen`: whatever line the
  loop did not keep left a problem that S1 to S10 report. The order of the sections comes from the walk
  of S1 over the headings (`AfterAll`).
* `Lemmas`: least and greatest members of sets of numbers, appending to and removing from a list,
  and what recursive functions need; the members of a set of numbers in ascending order (`InOrder`),
  as the set grows, shrinks or is moved, and a flattening of lists of at most one member
  (`FlattenSingles`). `Ordered` is there because the provers cannot open the `SortSeq` and
  `SelectSeq` of the libraries. The library's induction theorems take an operator as a
  parameter and cannot be cited, but an induction over numbers can be stated of the *set* where a
  fact holds (`Induction`, `InductionTo`: the least number outside it has a predecessor in it), and
  `Recursion` says that a function defined step by step over the numbers exists.

**Only model-checked.** Liveness, which the provers cannot do: `EveryRunEnds` and `Returns`. All
other properties of passing runs are proved. With `ImplementsLinkStore` the theorems about the list
are theorems about the list in the file. The type invariants of `LinkStore`, `StepRunner` and
`SpendReadback`, the one-to-one matching of `Scoring`, `LayoutKept`, and `ForeignLinksKept` on the
layouts it holds of, are proved and no passing run repeats them; the
run `trace_file_flow` shows why `ForeignLinksKept` needs the layout.

## 6. Not modelled

* The CML parser, the language, KB and domain rules other than D15, the tools that only read, the
  lock's hashes, the command lines: functions of their input without state; what the modelled parts
  see of them is a verdict.
* Of artifacts: the frontmatter, the blanking of comments, the text of headings and keys (a line
  comes with what the expressions make of it), blank lines inside a `|` text, S8, the forms of IDs
  and keys, integers and lists of fixed words, the type of a REQ against its section,
  `nfr_category` on a functional REQ, the counts of an intent.
* Of pins: their `id`, headers that do not parse, `trace.yaml`'s pins.
* `T4` (IDs in prose), the warnings C2 and C4, H6, H7 and S11, `scoreJudge`, budgets and layouts of
  reports. The instance of `gate` has no ADR, DAF or Q block: C8, F5 and F6 are in the module and
  decide nothing in that run.
* The reconciler, which only the contract describes, and the Python prototypes.

## 7. Plan

1. *done* — trace: `TraceRules`, `LinkStore`, `TraceFile` and the proofs about the store.
2. *done* — `StepRunner` and `SpendReadback` with their proofs.
3. *done* — `Scoring`, `Alignment`, `Suite`.
4. *done* — `SpecGate`, `BranchHistory`; proofs about `Scoring`, `Alignment` and `Suite`.
5. *done* — `Pins`; `Artifact` with the proof that the parser reads as written; the proofs about `Pins`.
6. *done* — proofs about the verdicts of `Scoring` and `Suite`, about `SpecGate`,
   `BranchHistory`, and that what the structure rules pass is complete (`Artifact`).
   `TraceFile` implements `LinkStore` step by step on orderly layouts, and leaves the rest alone.
7. An instance of `SpecGate` with a design analysis (F5, C8) and an intent (S10); `RunnerStep` with
   budgets.
8. Agreement of `kb_search`/`term_lookup` with the rules that use the same indexes; the CML parser.
