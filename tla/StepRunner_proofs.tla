--------------------------- MODULE StepRunner_proofs ---------------------------
(***************************************************************************)
(* For every plan of runs, every case and every behaviour of the agent:    *)
(* what a run publishes, what it leaves of its inputs, and what it leaves  *)
(* in the environment of the process, also where runs share a directory.   *)
(* For every gateway, every number of calls and every choice of the three  *)
(* times: the readback of its spend ends in time and loses nothing.        *)
(***************************************************************************)
EXTENDS StepRunner, SpendReadback, Lemmas, TLAPS

\* The published outputs of a run agree with each other and with the case.
RunOK(i) ==
  LET o == spec[Home(i)]
      l == lint[Home(i)]
      s == summary[Home(i)]
      p == Plan[i]
  IN  /\ o.trace # None => SameForeign(o.trace.links, p) /\ Minted(o.trace.links, p)
      /\ l # None => /\ o.doc # None /\ o.trace # None
                     /\ l.errors = HasErrors(o.doc, o.trace.links, p.case.pinned)
      /\ s # None => /\ l # None /\ s.errors = l.errors
                     /\ s.intact = (o.doc.header = "given" /\ o.trace.head = "given")
                     /\ s.ok = (~s.errors /\ s.intact)
                     /\ s.errors => s.attempts = 1 + RepairAttempts

\* The run under way: its workspace, and what of its outputs is there at which stage, over
\* what an earlier run may have left.
AllCopied ==
  spec[Here].doc = doc /\ spec[Here].trace = [links |-> links, head |-> head]
RunsWell ==
  /\ turn \in DOMAIN Plan /\ fate[turn] = "running"
  /\ inputs = "as given" /\ SameForeign(links, Now) /\ Minted(links, Now)
  /\ stage = "prompt" => env = Identity(Now)
  /\ stage \in {"usage", "copy", "lint", "summary", "cleanup"} =>
       /\ errors = HasErrors(doc, links, Now.case.pinned)
       /\ errors => attempts = 1 + RepairAttempts
  /\ stage \in {"gateway", "prompt", "usage"} => copied = {}
  /\ "doc" \in copied => spec[Here].doc = doc
  /\ "trace" \in copied => spec[Here].trace = [links |-> links, head |-> head]
  /\ stage \in {"lint", "summary", "cleanup"} => AllCopied
  /\ stage \in {"summary", "cleanup"} => lint[Here] = [errors |-> errors]
  /\ stage = "cleanup" => summary[Here] = RunJson

\* A run that is alone in its directory finds nothing there but what it put there itself.
OwnOutputs ==
  Alone(turn) =>
    /\ stage \in {"gateway", "prompt", "usage", "copy"} =>
         /\ "doc" \notin copied => spec[Here].doc = None
         /\ "trace" \notin copied => spec[Here].trace = None
    /\ stage \notin {"summary", "cleanup"} => lint[Here] = None
    /\ stage # "cleanup" => summary[Here] = None

\* A run that is over has left outputs that agree if they are its own, and if it returned
\* it has left them all.
RunFacts(i) ==
  /\ Owns(i) /\ fate[i] # "running" => RunOK(i)
  /\ fate[i] = "running" => stage # "idle" /\ i = turn
  /\ fate[i] = "returned" => summary[Home(i)] # None

\* The outputs of a directory appear in order, whoever wrote them, and a directory that no
\* run was started in is empty.
DirOK(d) == (summary[d] # None => lint[d] # None) /\ (lint[d] # None => Whole(d))
Untouched == \A d \in Dir : (\A i \in Started : Home(i) # d) => Unpublished(d)

\* An identity outside its prompts is that of a run that threw before it published anything.
Stray(e) ==
  e # NoOne => \E i \in Started : /\ e = Identity(Plan[i]) /\ fate[i] = "threw"
                                  /\ Alone(i) => Unpublished(Home(i))
Strays == Stray(saved) /\ (stage # "prompt" => Stray(env))

Settled == (\A i \in Started : RunFacts(i)) /\ (\A d \in Dir : DirOK(d)) /\ Untouched

IInv ==
  /\ TypeOK
  /\ stage # "idle" => RunsWell /\ OwnOutputs
  /\ Settled
  /\ Strays

---------------------------------------------------------------------------
\* The elements of Plan are runs, each with its directory.
LEMMA PlanFacts ==
  /\ Len(Plan) \in Nat /\ DOMAIN Plan = 1..Len(Plan)
  /\ \A i \in DOMAIN Plan : Plan[i] \in Invocation
  /\ \A i \in DOMAIN Plan : /\ Plan[i].case \in Case /\ Plan[i].step \in Step
                            /\ Plan[i].run \in Run
  /\ \A i \in DOMAIN Plan : Home(i) \in Dir
<1>1. Plan \in Seq(Invocation)
  BY PlanAssumption
<1>2. Len(Plan) \in Nat /\ DOMAIN Plan = 1..Len(Plan)
  BY <1>1
<1>3. \A i \in DOMAIN Plan : Plan[i] \in Invocation
  BY <1>1
<1>4. \A i \in DOMAIN Plan : Plan[i].case \in Case /\ Plan[i].step \in Step /\ Plan[i].run \in Run
  BY <1>3 DEF Invocation
<1>5. \A i \in DOMAIN Plan : Home(i) \in Dir
  BY DEF Home, Dir
<1> QED BY <1>2, <1>3, <1>4, <1>5

\* The counter of prompts stays within the lock's limit.
LEMMA AttemptFacts ==
  /\ 0 \in 0..(1 + RepairAttempts) /\ 1 \in 0..(1 + RepairAttempts)
  /\ \A a \in 0..(1 + RepairAttempts) :
       a \in Nat /\ (a < 1 + RepairAttempts => a + 1 \in 0..(1 + RepairAttempts))
       /\ (~(a < 1 + RepairAttempts) => a = 1 + RepairAttempts)
BY RepairAssumption

\* The next run of the plan is one of the plan.
LEMMA NextTurn ==
  ASSUME NEW t \in 0..Len(Plan), t < Len(Plan)
  PROVE  t + 1 \in DOMAIN Plan /\ t + 1 \in 0..Len(Plan) /\ t + 1 > 0
BY PlanFacts

LEMMA InitIInv == Init => IInv
<1> SUFFICES ASSUME Init PROVE IInv
  OBVIOUS
<1>1. TypeOK
  <2>1. <<>> \in Seq(Link)
    OBVIOUS
  <2>2. stage \in Stage /\ turn \in 0..Len(Plan) /\ stage = "idle"
    <3>1. turn = 0 /\ stage = "idle"
      BY DEF Init
    <3>2. 0 \in 0..Len(Plan)
      BY PlanFacts
    <3> QED BY <3>1, <3>2 DEF Stage
  <2>3. attempts \in 0..(1 + RepairAttempts)
    BY AttemptFacts DEF Init
  <2>4. spec \in [Dir -> SpecOut] /\ lint \in [Dir -> LintOut \cup {None}]
        /\ summary \in [Dir -> SummaryOut \cup {None}] /\ fate \in [DOMAIN Plan -> Fate]
    BY DEF Init, Fate, SpecOut
  <2> QED BY <2>1, <2>2, <2>3, <2>4, TextsAssumption DEF Init, TypeOK, HeadKind
<1>2. Started = {}
  <2>1. turn = 0
    BY DEF Init
  <2> QED BY <2>1 DEF Started
<1>3. \A d \in Dir : Unpublished(d) /\ DirOK(d)
  BY DEF Init, Unpublished, DirOK
<1>4. Strays
  BY DEF Init, Strays, Stray
<1>5. stage = "idle"
  BY DEF Init
<1> QED BY <1>1, <1>2, <1>3, <1>4, <1>5 DEF IInv, Settled, Untouched

\* What a call of trace_link does to the links of the workspace: it appends one that
\* carries the identity in the environment, or removes one that carries its step.
LEMMA LinkCases ==
  ASSUME TypeOK, NEW c \in Calls, TraceLink(c)
  PROVE  /\ env # NoOne
         /\ links' \in Seq(Link)
         /\ \/ \E x \in Link : /\ x.by = env.step /\ x.run = env.run
                             /\ ToSet(links') = ToSet(links) \cup {x}
            \/ \E x \in ToSet(links) : /\ x.by = env.step
                                     /\ ToSet(links') \subseteq ToSet(links)
                                     /\ ToSet(links) \subseteq ToSet(links') \cup {x}
<1>1. links \in Seq(Link) /\ env \in Store!Identity \cup {NoOne}
  BY DEF TypeOK
<1>2. c.from \in Id /\ c.rel \in Rel /\ c.to \in Id
  BY CallsInType
<1>3. CASE Store!AddLink(c.from, c.rel, c.to)
  <2>1. env # NoOne /\ links' = Append(links, Store!Stamped(env, c.from, c.rel, c.to))
    BY <1>3 DEF Store!AddLink
  <2>2. PICK x : x = Store!Stamped(env, c.from, c.rel, c.to)
    OBVIOUS
  <2>3. x \in Link /\ x.by = env.step /\ x.run = env.run
    BY <1>1, <1>2, <2>1, <2>2 DEF Store!Stamped, Store!Identity, Link
  <2>4. links' = Append(links, x)
    BY <2>1, <2>2
  <2>5. links' \in Seq(Link)
    BY <1>1, <2>3, <2>4
  <2>6. ToSet(links') = ToSet(links) \cup {x}
    BY <1>1, <2>3, <2>4, AppendElements
  <2> QED BY <2>1, <2>3, <2>5, <2>6
<1>4. CASE Store!RemoveLink(c.from, c.rel, c.to)
  <2>1. env # NoOne
    BY <1>4 DEF Store!RemoveLink
  <2>2. PICK i \in DOMAIN links : links[i].by = env.step /\ links' = RemoveAt(links, i)
    BY <1>4 DEF Store!RemoveLink, Store!Holding, Store!RemoveAt, RemoveAt
  <2>3. i \in 1..Len(links)
    BY <1>1, <2>2
  <2>4. links' \in Seq(Link)
    BY <1>1, <2>2, <2>3, RemoveAtProperties, RemoveAtElements
  <2>5. /\ ToSet(links') \subseteq ToSet(links)
        /\ ToSet(links) \subseteq ToSet(links') \cup {links[i]}
    BY <1>1, <2>2, <2>3, RemoveAtProperties, RemoveAtElements
  <2>6. links[i] \in ToSet(links)
    BY <2>2 DEF ToSet
  <2> QED BY <2>1, <2>2, <2>4, <2>5, <2>6
<1> QED BY <1>3, <1>4 DEF TraceLink

\* Every action keeps the types.
LEMMA StepTypeOK == TypeOK /\ (stage # "idle" => RunsWell) /\ [Next]_vars => TypeOK'
<1> SUFFICES ASSUME TypeOK, stage # "idle" => RunsWell, [Next]_vars PROVE TypeOK'
  OBVIOUS
<1>a. ASSUME stage # "idle"
      PROVE  /\ turn \in DOMAIN Plan /\ Here \in Dir
             /\ Identity(Now) \in Store!Identity
  BY <1>a, PlanFacts DEF RunsWell, Now, Here, Home, Identity, Store!Identity
<1>b. ASSUME Setup
      PROVE  /\ turn + 1 \in DOMAIN Plan /\ turn' \in 0..Len(Plan) /\ turn' > 0
             /\ Plan[turn + 1].case.trace \in Seq(Link)
  <2>1. turn \in 0..Len(Plan)
    BY DEF TypeOK
  <2>2. turn < Len(Plan) /\ turn' = turn + 1
    BY <1>b DEF Setup
  <2>3. turn + 1 \in DOMAIN Plan /\ turn + 1 \in 0..Len(Plan) /\ turn + 1 > 0
    BY <2>1, <2>2, NextTurn
  <2>4. Plan[turn + 1].case \in Case
    BY <2>3, PlanFacts
  <2>5. \A c \in Case : c.trace \in Seq(Link)
    BY CaseAssumption
  <2> QED BY <2>2, <2>3, <2>4, <2>5
<1> USE DEF TypeOK, Stage, Fate, session, workspace, loop, outputs
<1>1. CASE Setup
  <2>1. fate' \in [DOMAIN Plan -> Fate]
    BY <1>1, <1>b DEF Setup
  <2>2. doc' \in Analysis /\ links' \in Seq(Link) /\ head' \in HeadKind
    BY <1>1, <1>b, TextsAssumption DEF Setup, Materialise, HeadKind
  <2> QED BY <1>1, <1>b, <2>1, <2>2, AttemptFacts DEF Setup, Materialise
<1>2. CASE OpenSession
  <2>1. 1 \in 0..(1 + RepairAttempts)
    BY AttemptFacts
  <2>2. env' \in Store!Identity /\ attempts' = 1 /\ saved' = env /\ stage' = "prompt"
    BY <1>a, <1>2 DEF OpenSession
  <2> QED BY <1>2, <2>1, <2>2 DEF OpenSession
<1>3. CASE PromptReturns
  <2>1. errors' \in BOOLEAN
    BY <1>3 DEF PromptReturns, HasErrors
  <2> QED BY <1>3, <2>1, AttemptFacts DEF PromptReturns
<1>4. CASE ReadUsage
  BY <1>4 DEF ReadUsage
<1>5. ASSUME NEW f \in SpecFile, CopyFile(f) PROVE TypeOK'
  <2>1. spec' \in [Dir -> SpecOut]
    <3>1. Here \in Dir
      BY <1>a, <1>5 DEF CopyFile, Copied
    <3>2. CASE f = "doc"
      <4>1. spec' = [spec EXCEPT ![Here].doc = doc]
        BY <1>5, <3>2 DEF CopyFile, Written
      <4> QED BY <3>1, <4>1 DEF SpecOut
    <3>3. CASE f = "trace"
      <4>1. spec' = [spec EXCEPT ![Here].trace = [links |-> links, head |-> head]]
        BY <1>5, <3>3 DEF CopyFile, Written
      <4>2. [links |-> links, head |-> head] \in TraceOut
        BY DEF TraceOut
      <4> QED BY <3>1, <4>1, <4>2 DEF SpecOut
    <3> QED BY <3>2, <3>3 DEF SpecFile
  <2> QED BY <1>5, <2>1 DEF CopyFile, Copied
<1>6. CASE WriteLint
  BY <1>a, <1>6 DEF WriteLint, LintOut
<1>7. CASE WriteSummary
  <2>1. RunJson \in SummaryOut
    BY AttemptFacts DEF RunJson, Intact, SummaryOut
  <2> QED BY <1>a, <1>7, <2>1 DEF WriteSummary
<1>8. CASE Return
  BY <1>a, <1>8 DEF Return
<1>9. ASSUME NEW path, NEW text \in Texts, WriteFile(path, text) PROVE TypeOK'
  BY <1>9, TextsAssumption DEF WriteFile, Permitted
<1>10. ASSUME NEW c \in Calls, TraceLink(c) PROVE TypeOK'
  <2>1. links' \in Seq(Link) /\ head' \in HeadKind
    BY <1>10, LinkCases DEF TraceLink, HeadKind
  <2> QED BY <1>10, <2>1 DEF TraceLink
<1>11. CASE Failure
  BY <1>a, <1>11 DEF Failure, SetupThrows, OpenSessionThrows, PromptThrows, PublishThrows,
        Crash, Throw
<1>12. CASE UNCHANGED vars
  BY <1>12 DEF vars
<1> QED BY <1>1, <1>2, <1>3, <1>4, <1>5, <1>6, <1>7, <1>8, <1>9, <1>10, <1>11, <1>12
       DEF Next, RunnerStep, AgentStep

---------------------------------------------------------------------------
\* The run under way was the last to start.  An earlier run whose outputs are its own has
\* another directory.
LEMMA StartedFacts ==
  ASSUME TypeOK, turn \in DOMAIN Plan
  PROVE  /\ turn \in Started /\ Here = Home(turn) /\ Here \in Dir
         /\ \A i \in Started : i \in DOMAIN Plan /\ Home(i) \in Dir /\ i <= turn
         /\ LastThere(turn)
         /\ \A i \in Started : i # turn /\ Owns(i) => Home(i) # Here
         /\ \A i \in Started : i # turn /\ Alone(i) => Home(i) # Here
<1>1. turn \in Nat /\ Len(Plan) \in Nat /\ turn \in 1..Len(Plan)
  BY PlanFacts
<1>2. turn \in Started /\ \A i \in Started : i \in DOMAIN Plan /\ i <= turn /\ i \in Nat
  BY <1>1, PlanFacts DEF Started
<1>3. Here = Home(turn) /\ Here \in Dir /\ \A i \in Started : Home(i) \in Dir
  BY <1>2, PlanFacts DEF Here, Home, Now
<1>4. LastThere(turn)
  BY <1>2 DEF LastThere
<1>5. \A i \in Started : i # turn /\ Alone(i) => Home(i) # Here
  BY <1>2, <1>3 DEF Alone
<1>6. \A i \in Started : i # turn /\ LastThere(i) => Home(i) # Here
  BY <1>1, <1>2, <1>3 DEF LastThere
<1> QED BY <1>2, <1>3, <1>4, <1>5, <1>6 DEF Owns

\* Who shares a directory with whom depends on the runs started so far alone.
LEMMA OwnersKept ==
  ASSUME turn' = turn
  PROVE  /\ Started' = Started /\ Now' = Now /\ Here' = Here
         /\ \A i : (Alone(i)' <=> Alone(i)) /\ (LastThere(i)' <=> LastThere(i))
<1>1. Started' = Started /\ Now' = Now
  BY DEF Started, Now
<1> QED BY <1>1 DEF Here, Alone, LastThere

\* The outputs of the run under way agree as soon as it is alone in its directory, and
\* otherwise once it has written them all.
LEMMA OwnRunOK ==
  ASSUME TypeOK, stage # "idle", RunsWell, OwnOutputs, Alone(turn) \/ stage = "cleanup"
  PROVE  RunOK(turn)
<1>1. Here = Home(turn) /\ Now = Plan[turn] /\ Here \in Dir
  BY StartedFacts DEF RunsWell, Now
<1>2. /\ SameForeign(links, Now) /\ Minted(links, Now)
      /\ stage \in {"summary", "cleanup"} => errors = HasErrors(doc, links, Now.case.pinned)
      /\ stage = "cleanup" => (errors => attempts = 1 + RepairAttempts)
  BY DEF RunsWell
<1>3. [links |-> links, head |-> head] # None /\ doc # None
  <2>1. [links |-> links, head |-> head] \in TraceOut /\ doc \in Analysis
    BY DEF TypeOK, TraceOut
  <2> QED BY <2>1, NoneAssumption
<1>4. spec[Here].trace # None => spec[Here].trace = [links |-> links, head |-> head]
  <2>1. CASE stage \in {"lint", "summary", "cleanup"}
    BY <2>1 DEF RunsWell, AllCopied
  <2>2. CASE stage \notin {"lint", "summary", "cleanup"}
    <3>1. stage \in {"gateway", "prompt", "usage", "copy"} /\ stage # "cleanup"
      BY <2>2 DEF TypeOK, Stage
    <3> QED BY <3>1 DEF RunsWell, OwnOutputs
  <2> QED BY <2>1, <2>2
<1>5. lint[Here] # None => /\ stage \in {"summary", "cleanup"} /\ AllCopied
                          /\ lint[Here] = [errors |-> errors]
  BY DEF RunsWell, OwnOutputs
<1>6. summary[Here] # None => stage = "cleanup" /\ summary[Here] = RunJson
  BY DEF RunsWell, OwnOutputs
<1>7. ASSUME spec[Here].trace # None
      PROVE  SameForeign(spec[Here].trace.links, Now) /\ Minted(spec[Here].trace.links, Now)
  <2>1. spec[Here].trace.links = links
    BY <1>4, <1>7
  <2> QED BY <1>2, <2>1
<1>8. ASSUME lint[Here] # None
      PROVE  /\ spec[Here].doc # None /\ spec[Here].trace # None
             /\ lint[Here].errors =
                  HasErrors(spec[Here].doc, spec[Here].trace.links, Now.case.pinned)
  <2>1. spec[Here].doc = doc /\ spec[Here].trace = [links |-> links, head |-> head]
    BY <1>5, <1>8 DEF AllCopied
  <2>2. spec[Here].trace.links = links
    BY <2>1
  <2> QED BY <1>2, <1>3, <1>5, <1>8, <2>1, <2>2
<1>9. ASSUME summary[Here] # None
      PROVE  /\ lint[Here] # None /\ summary[Here].errors = lint[Here].errors
             /\ summary[Here].intact =
                  (spec[Here].doc.header = "given" /\ spec[Here].trace.head = "given")
             /\ summary[Here].ok = (~summary[Here].errors /\ summary[Here].intact)
             /\ summary[Here].errors => summary[Here].attempts = 1 + RepairAttempts
  <2>1. /\ spec[Here].doc = doc /\ spec[Here].trace = [links |-> links, head |-> head]
        /\ lint[Here] = [errors |-> errors] /\ summary[Here] = RunJson
    BY <1>6, <1>9 DEF RunsWell, AllCopied
  <2>2. /\ RunJson.errors = errors /\ RunJson.attempts = attempts
        /\ RunJson.intact = (doc.header = "given" /\ head = "given")
        /\ RunJson.ok = (~errors /\ RunJson.intact)
    BY DEF RunJson, Intact
  <2>3. spec[Here].trace.head = head /\ lint[Here].errors = errors
    BY <2>1
  <2>4. lint[Here] # None
    <3>1. [errors |-> errors] \in LintOut
      BY DEF TypeOK, LintOut
    <3> QED BY <2>1, <3>1, NoneAssumption
  <2> QED BY <1>2, <1>6, <1>9, <2>1, <2>2, <2>3, <2>4
<1> QED BY <1>1, <1>7, <1>8, <1>9 DEF RunOK

---------------------------------------------------------------------------
\* A step of the run under way touches the outputs of its own directory alone, and never
\* removes one.  It keeps what is settled of the other runs and directories, and of its own
\* if the outputs there are still in order and, once the run is over, agree.
LEMMA SettledStep ==
  ASSUME IInv, stage # "idle", turn' = turn,
         \A d \in Dir : d # Here =>
           spec'[d] = spec[d] /\ lint'[d] = lint[d] /\ summary'[d] = summary[d],
         \A d \in Dir : summary[d] # None => summary'[d] # None,
         \A i \in DOMAIN Plan : i # turn => fate'[i] = fate[i],
         \A d \in Dir : d = Here => DirOK(d)',
         \A i \in Started : i = turn => RunFacts(i)'
  PROVE  Settled' /\ \A e : Stray(e) => Stray(e)'
<1>1. TypeOK /\ RunsWell /\ turn \in DOMAIN Plan /\ fate[turn] = "running"
  BY DEF IInv, RunsWell
<1>2. /\ Started' = Started
      /\ \A i : (Alone(i)' <=> Alone(i)) /\ (LastThere(i)' <=> LastThere(i))
  BY OwnersKept
<1>3. /\ turn \in Started /\ Here = Home(turn)
      /\ \A i \in Started : i \in DOMAIN Plan /\ Home(i) \in Dir /\ i <= turn
      /\ \A i \in Started : i # turn /\ Owns(i) => Home(i) # Here
      /\ \A i \in Started : i # turn /\ Alone(i) => Home(i) # Here
  BY <1>1, StartedFacts
<1>4. ASSUME NEW i \in Started PROVE RunFacts(i)'
  <2>1. CASE i = turn
    BY <2>1
  <2>2. CASE i # turn
    <3>1. fate'[i] = fate[i] /\ RunFacts(i)
      BY <1>3, <2>2 DEF IInv, Settled
    <3>2. fate[i] # "running"
      BY <2>2, <3>1 DEF RunFacts
    <3>3. Owns(i)' <=> Owns(i)
      BY <1>2, <3>1 DEF Owns
    <3>4. ASSUME Owns(i) PROVE RunOK(i)'
      <4>1. Home(i) \in Dir /\ Home(i) # Here /\ RunOK(i)
        BY <1>3, <2>2, <3>1, <3>2, <3>4 DEF RunFacts
      <4> QED BY <4>1 DEF RunOK
    <3>5. fate[i] = "returned" => summary'[Home(i)] # None
      BY <1>3, <3>1 DEF RunFacts
    <3> QED BY <3>1, <3>2, <3>3, <3>4, <3>5 DEF RunFacts
  <2> QED BY <2>1, <2>2
<1>5. ASSUME NEW d \in Dir PROVE DirOK(d)'
  <2>1. CASE d = Here
    BY <2>1
  <2>2. CASE d # Here
    BY <2>2 DEF IInv, Settled, DirOK, Whole
  <2> QED BY <2>1, <2>2
<1>6. ASSUME NEW d \in Dir, \A i \in Started : Home(i) # d PROVE Unpublished(d)'
  <2>1. d # Here /\ Unpublished(d)
    BY <1>3, <1>6 DEF IInv, Settled, Untouched
  <2> QED BY <2>1 DEF Unpublished
<1>7. ASSUME NEW e, Stray(e) PROVE Stray(e)'
  <2>1. CASE e = NoOne
    BY <2>1 DEF Stray
  <2>2. CASE e # NoOne
    <3>1. PICK i \in Started : /\ e = Identity(Plan[i]) /\ fate[i] = "threw"
                               /\ Alone(i) => Unpublished(Home(i))
      BY <1>7, <2>2 DEF Stray
    <3>2. i # turn /\ fate'[i] = "threw"
      BY <1>1, <1>3, <3>1
    <3>3. Alone(i)' => Unpublished(Home(i))'
      BY <1>2, <1>3, <3>1, <3>2 DEF Unpublished
    <3> QED BY <1>2, <3>1, <3>2, <3>3 DEF Stray
  <2> QED BY <2>1, <2>2
<1> QED BY <1>2, <1>4, <1>5, <1>6, <1>7 DEF Settled, Untouched

\* In particular a step that touches no output and decides nothing of the run.
LEMMA QuietStep ==
  ASSUME IInv, stage # "idle", stage' # "idle", UNCHANGED <<turn, outputs, fate>>
  PROVE  Settled' /\ \A e : Stray(e) => Stray(e)'
<1>1. spec' = spec /\ lint' = lint /\ summary' = summary /\ fate' = fate /\ turn' = turn
  BY DEF outputs
<1>2. \A d \in Dir : DirOK(d)'
  BY <1>1 DEF IInv, Settled, DirOK, Whole
<1>3. ASSUME NEW i \in Started, i = turn PROVE RunFacts(i)'
  <2>1. fate'[i] = "running"
    BY <1>1, <1>3 DEF IInv, RunsWell
  <2> QED BY <1>1, <1>3, <2>1 DEF RunFacts
<1> QED BY <1>1, <1>2, <1>3, SettledStep

\* Setup starts the next run of the plan.  It has published nothing yet, and nobody has in
\* its directory unless an earlier run shares it.
LEMMA SetupKeeps ==
  ASSUME IInv, Setup
  PROVE  RunsWell' /\ OwnOutputs' /\ Settled' /\ Strays'
<1> DEFINE new == Plan[turn + 1]
<1>1. TypeOK /\ turn \in 0..Len(Plan) /\ turn < Len(Plan) /\ turn' = turn + 1
  BY DEF IInv, TypeOK, Setup
<1>2. turn + 1 \in DOMAIN Plan /\ Started' = Started \cup {turn + 1}
  <2>1. 1..(turn + 1) = (1..turn) \cup {turn + 1} /\ turn + 1 \in DOMAIN Plan
    BY <1>1, NextTurn
  <2> QED BY <1>1, <2>1 DEF Started
<1>3. Now' = new /\ Here' = Home(turn + 1)
  BY <1>1 DEF Now, Here, Home
<1>4. /\ UNCHANGED <<env, saved, spec, lint, summary>> /\ copied' = {}
      /\ stage' = "gateway" /\ stage = "idle"
  BY DEF Setup, outputs
<1>5. \A i \in Started : i \in DOMAIN Plan /\ Home(i) \in Dir /\ i # turn + 1 /\ i <= turn
  BY <1>1, PlanFacts DEF Started
<1>6. \A i \in Started : (Alone(i)' => Alone(i)) /\ (LastThere(i)' => LastThere(i))
  BY <1>2 DEF Alone, LastThere
<1>7. fate'[turn + 1] = "running" /\ \A i \in DOMAIN Plan : i # turn + 1 => fate'[i] = fate[i]
  <2>1. fate' = [fate EXCEPT ![turn + 1] = "running"] /\ fate \in [DOMAIN Plan -> Fate]
    BY <1>1 DEF Setup, TypeOK
  <2> QED BY <1>2, <2>1
<1>8. OwnOutputs'
  <2>1. ASSUME Alone(turn)' PROVE Unpublished(Here')
    <3>1. \A i \in Started : Home(i) # Home(turn + 1)
      BY <1>1, <1>2, <1>5, <2>1 DEF Alone
    <3>2. Home(turn + 1) \in Dir
      BY <1>2, PlanFacts
    <3> QED BY <1>3, <3>1, <3>2 DEF IInv, Settled, Untouched
  <2> QED BY <1>4, <2>1 DEF OwnOutputs, Unpublished
<1>9. RunsWell'
  <2>1. links' = new.case.trace /\ inputs' = "as given"
    BY DEF Setup, Materialise
  <2>2. SameForeign(links', new) /\ Minted(links', new)
    BY <2>1 DEF SameForeign, Minted
  <2> HIDE DEF new
  <2> QED BY <1>1, <1>2, <1>3, <1>4, <1>7, <2>1, <2>2 DEF RunsWell
<1>10. ASSUME NEW i \in Started' PROVE RunFacts(i)'
  <2>1. CASE i = turn + 1
    BY <1>1, <1>4, <1>7, <2>1 DEF RunFacts
  <2>2. CASE i \in Started
    <3>1. fate'[i] = fate[i] /\ RunFacts(i)
      BY <1>5, <1>7, <2>2 DEF IInv, Settled
    <3>2. fate[i] # "running"
      BY <1>4, <3>1 DEF RunFacts
    <3>3. Owns(i)' => Owns(i)
      BY <1>6, <2>2, <3>1 DEF Owns
    <3>4. RunOK(i) => RunOK(i)'
      BY <1>4 DEF RunOK
    <3> QED BY <1>4, <3>1, <3>2, <3>3, <3>4 DEF RunFacts
  <2> QED BY <1>2, <2>1, <2>2
<1>11. ASSUME NEW d \in Dir PROVE DirOK(d)'
  BY <1>4 DEF IInv, Settled, DirOK, Whole
<1>12. Untouched'
  BY <1>2, <1>4 DEF IInv, Settled, Untouched, Unpublished
<1>13. ASSUME NEW e, Stray(e) PROVE Stray(e)'
  <2>1. \A i \in Started : i \in Started' /\ fate'[i] = fate[i]
    BY <1>2, <1>5, <1>7
  <2>2. \A d : Unpublished(d)' <=> Unpublished(d)
    BY <1>4 DEF Unpublished
  <2> QED BY <1>6, <1>13, <2>1, <2>2 DEF Stray
<1>14. Strays'
  <2>1. Stray(saved) /\ Stray(env)
    BY <1>4 DEF IInv, Strays
  <2> QED BY <1>4, <1>13, <2>1 DEF Strays, Stray
<1> QED BY <1>8, <1>9, <1>10, <1>11, <1>12, <1>14 DEF Settled

\* A link that trace_link adds or removes is one of the run under way.
LEMMA TraceLinkKeeps ==
  ASSUME IInv, NEW c \in Calls, TraceLink(c)
  PROVE  RunsWell'
<1>1. TypeOK /\ RunsWell /\ stage = "prompt" /\ env = Identity(Now)
  BY DEF IInv, TraceLink, RunsWell
<1>2. env.step = Now.step /\ env.run = Now.run
  BY <1>1 DEF Identity
<1>3. /\ UNCHANGED <<stage, turn, env, inputs, copied, outputs, fate>>
      /\ Now' = Now /\ copied = {}
  BY <1>1 DEF TraceLink, session, loop, Now, RunsWell
<1>4. SameForeign(links', Now) /\ Minted(links', Now)
  <2>1. SameForeign(links, Now) /\ Minted(links, Now)
    BY <1>1 DEF RunsWell
  <2>2. CASE \E x \in Link : /\ x.by = env.step /\ x.run = env.run
                            /\ ToSet(links') = ToSet(links) \cup {x}
    BY <1>2, <2>1, <2>2 DEF SameForeign, Minted, Store!ForeignLinks, Store!ToSet, ToSet
  <2>3. CASE \E x \in ToSet(links) : /\ x.by = env.step
                                    /\ ToSet(links') \subseteq ToSet(links)
                                    /\ ToSet(links) \subseteq ToSet(links') \cup {x}
    <3>1. Minted(links', Now)
      BY <2>1, <2>3 DEF Minted
    <3>2. {l \in ToSet(links') : l.by # Now.step} = {l \in ToSet(links) : l.by # Now.step}
      BY <1>2, <2>3
    <3>3. Store!ForeignLinks(links', Now.step) = Store!ForeignLinks(links, Now.step)
      BY <3>2 DEF Store!ForeignLinks, Store!ToSet, ToSet
    <3> QED BY <2>1, <3>1, <3>3 DEF SameForeign
  <2> QED BY <1>1, <2>2, <2>3, LinkCases
<1> QED BY <1>1, <1>3, <1>4 DEF RunsWell, outputs

\* The stages before the outputs: opening the session, the agent's work, lint and repair,
\* reading the spend back.
LEMMA WorkKeeps ==
  ASSUME IInv,
         OpenSession \/ AgentStep \/ PromptReturns \/ ReadUsage
  PROVE  RunsWell' /\ OwnOutputs' /\ Settled' /\ Strays'
<1> USE DEF session, workspace, loop
<1>1. UNCHANGED <<turn, outputs, fate, copied>> /\ stage # "idle" /\ stage' # "idle"
  BY DEF OpenSession, AgentStep, WriteFile, TraceLink, PromptReturns, ReadUsage
<1>2. RunsWell /\ TypeOK /\ Strays
  BY <1>1 DEF IInv
<1>3. /\ spec' = spec /\ lint' = lint /\ summary' = summary /\ fate' = fate
      /\ Now' = Now /\ Here' = Here
  BY <1>1, OwnersKept DEF outputs
<1>4. Settled' /\ \A e : Stray(e) => Stray(e)'
  BY <1>1, QuietStep
<1>a. /\ stage \in {"gateway", "prompt", "usage"} /\ stage' \in {"prompt", "usage", "copy"}
      /\ copied = {}
  BY <1>2 DEF OpenSession, AgentStep, WriteFile, TraceLink, PromptReturns, ReadUsage, RunsWell
<1>b. OwnOutputs'
  <2>1. Alone(turn)' => Alone(turn)
    BY <1>1, OwnersKept
  <2> QED BY <1>1, <1>3, <1>a, <2>1 DEF IInv, OwnOutputs
<1>5. CASE OpenSession
  <2>1. RunsWell'
    BY <1>1, <1>2, <1>3, <1>a, <1>5 DEF OpenSession, RunsWell
  <2>2. Stray(env) /\ saved' = env /\ stage' = "prompt"
    BY <1>2, <1>5 DEF Strays, OpenSession
  <2>3. Strays'
    BY <1>4, <2>2 DEF Strays, Stray
  <2> QED BY <1>4, <1>b, <2>1, <2>3
<1>6. CASE AgentStep
  <2>1. RunsWell'
    <3>1. ASSUME NEW path, NEW text \in Texts, WriteFile(path, text) PROVE RunsWell'
      BY <1>1, <1>2, <1>3, <1>a, <3>1 DEF WriteFile, Permitted, RunsWell
    <3> QED BY <1>6, <3>1, TraceLinkKeeps DEF AgentStep
  <2>2. UNCHANGED <<stage, env, saved>> /\ stage = "prompt"
    BY <1>6 DEF AgentStep, WriteFile, TraceLink
  <2>3. Strays'
    BY <1>2, <1>4, <2>2 DEF Strays, Stray
  <2> QED BY <1>4, <1>b, <2>1, <2>3
<1>7. CASE PromptReturns
  <2>1. UNCHANGED <<doc, links, inputs>> /\ errors' = HasErrors(doc, links, Now.case.pinned)
    BY <1>7 DEF PromptReturns
  <2>2. \/ stage' = stage /\ env' = env
        \/ /\ errors' => attempts = 1 + RepairAttempts
           /\ stage' = "usage" /\ env' = saved /\ attempts' = attempts
    <3>1. attempts \in 0..(1 + RepairAttempts)
      BY <1>2 DEF TypeOK
    <3>2. ~(attempts < 1 + RepairAttempts) => attempts = 1 + RepairAttempts
      BY <3>1, AttemptFacts
    <3>3. CASE errors' /\ attempts < 1 + RepairAttempts
      <4>1. UNCHANGED <<stage, env>>
        BY <1>7, <3>3 DEF PromptReturns
      <4> QED BY <4>1
    <3>4. CASE ~(errors' /\ attempts < 1 + RepairAttempts)
      <4>1. errors' => attempts = 1 + RepairAttempts
        BY <3>2, <3>4
      <4>2. stage' = "usage" /\ env' = saved /\ attempts' = attempts
        BY <1>7, <3>4 DEF PromptReturns
      <4> QED BY <4>1, <4>2
    <3> QED BY <3>3, <3>4
  <2>3. stage = "prompt" /\ saved' = saved
    BY <1>7 DEF PromptReturns
  <2>4. RunsWell'
    BY <1>1, <1>2, <1>3, <1>a, <2>1, <2>2, <2>3 DEF RunsWell
  <2>5. Strays'
    BY <1>2, <1>4, <2>2, <2>3 DEF Strays, Stray
  <2> QED BY <1>4, <1>b, <2>4, <2>5
<1>8. CASE ReadUsage
  <2>1. RunsWell'
    BY <1>1, <1>2, <1>3, <1>a, <1>8 DEF ReadUsage, RunsWell
  <2>2. Strays'
    BY <1>2, <1>4, <1>8 DEF ReadUsage, Strays, Stray
  <2> QED BY <1>4, <1>b, <2>1, <2>2
<1> QED BY <1>5, <1>6, <1>7, <1>8

\* The outputs, one after the other, and the return.
LEMMA PublishKeeps ==
  ASSUME IInv, (\E f \in SpecFile : CopyFile(f)) \/ WriteLint \/ WriteSummary \/ Return
  PROVE  (stage # "idle" => RunsWell /\ OwnOutputs)' /\ Settled' /\ Strays'
<1>1. /\ stage \in {"copy", "lint", "summary", "cleanup"} /\ stage # "idle"
      /\ UNCHANGED <<turn, env, saved, doc, links, head, inputs, errors, attempts, usage, route>>
  BY DEF CopyFile, Copied, WriteLint, WriteSummary, Return, session, workspace, loop
<1>2. RunsWell /\ TypeOK /\ Strays /\ OwnOutputs
  BY <1>1 DEF IInv
<1>3. /\ turn \in DOMAIN Plan /\ turn \in Started /\ Here \in Dir /\ Here = Home(turn)
      /\ fate[turn] = "running" /\ LastThere(turn)
  BY <1>2, StartedFacts DEF RunsWell
<1>4. /\ Now' = Now /\ Here' = Here /\ Started' = Started
      /\ Alone(turn)' <=> Alone(turn)
  BY <1>1, OwnersKept
<1>5. /\ spec \in [Dir -> SpecOut] /\ lint \in [Dir -> LintOut \cup {None}]
      /\ summary \in [Dir -> SummaryOut \cup {None}] /\ fate \in [DOMAIN Plan -> Fate]
  BY <1>2 DEF TypeOK
<1>6. doc # None /\ [links |-> links, head |-> head] # None /\ [errors |-> errors] # None
      /\ RunJson # None
  <2>1. [links |-> links, head |-> head] \in TraceOut /\ doc \in Analysis
    BY <1>2 DEF TypeOK, TraceOut
  <2>2. [errors |-> errors] \in LintOut
    BY <1>2 DEF TypeOK, LintOut
  <2>3. RunJson \in SummaryOut
    BY <1>2, AttemptFacts DEF TypeOK, RunJson, Intact, SummaryOut
  <2> QED BY <2>1, <2>2, <2>3, NoneAssumption
<1>7. DirOK(Here)
  BY <1>3 DEF IInv, Settled
<1>8. ASSUME \A d \in Dir : d # Here =>
               spec'[d] = spec[d] /\ lint'[d] = lint[d] /\ summary'[d] = summary[d],
             summary[Here] # None => summary'[Here] # None,
             fate' = fate, DirOK(Here)', stage' # "idle"
      PROVE  Settled' /\ \A e : Stray(e) => Stray(e)'
  <2>1. \A d \in Dir : d = Here => DirOK(d)'
    BY <1>4, <1>8 DEF DirOK, Whole
  <2>2. \A i \in Started : i = turn => RunFacts(i)'
    BY <1>1, <1>3, <1>8 DEF RunFacts
  <2>3. \A d \in Dir : summary[d] # None => summary'[d] # None
    BY <1>8
  <2>4. \A i \in DOMAIN Plan : i # turn => fate'[i] = fate[i]
    BY <1>8
  <2> QED BY <1>1, <1>8, <2>1, <2>2, <2>3, <2>4, SettledStep
<1>9. (Settled' /\ \A e : Stray(e) => Stray(e)') => Settled' /\ Strays'
  <2>1. stage # "prompt" /\ Stray(env) /\ Stray(saved)
    BY <1>1, <1>2 DEF Strays
  <2> QED BY <1>1, <2>1 DEF Strays, Stray
<1>10. CASE \E f \in SpecFile : CopyFile(f)
  <2>1. PICK f \in SpecFile : CopyFile(f)
    BY <1>10
  <2>2. /\ stage = "copy" /\ copied' = copied \cup {f}
        /\ stage' = IF copied' = SpecFile THEN "lint" ELSE "copy"
        /\ UNCHANGED <<lint, summary, fate>>
        /\ spec' = [spec EXCEPT ![Here][f] = Written(f)]
    BY <2>1 DEF CopyFile, Copied
  <2>3. stage' \in {"copy", "lint"} /\ stage' # "idle"
    BY <2>2
  <2>4. \A d \in Dir : d # Here => spec'[d] = spec[d]
    BY <1>3, <1>5, <2>2
  <2>5. /\ f = "doc" => spec'[Here].doc = doc /\ spec'[Here].trace = spec[Here].trace
        /\ f = "trace" => /\ spec'[Here].trace = [links |-> links, head |-> head]
                          /\ spec'[Here].doc = spec[Here].doc
    <3>1. spec[Here] \in SpecOut
      BY <1>3, <1>5
    <3>2. CASE f = "doc"
      <4>1. spec'[Here] = [spec[Here] EXCEPT !.doc = doc]
        BY <1>3, <1>5, <2>2, <3>2 DEF Written
      <4> QED BY <3>1, <3>2, <4>1 DEF SpecOut
    <3>3. CASE f = "trace"
      <4>1. spec'[Here] = [spec[Here] EXCEPT !.trace = [links |-> links, head |-> head]]
        BY <1>3, <1>5, <2>2, <3>3 DEF Written
      <4> QED BY <3>1, <3>3, <4>1 DEF SpecOut
    <3> QED BY <3>2, <3>3 DEF SpecFile
  <2>6. f \in {"doc", "trace"}
    BY DEF SpecFile
  <2>7. DirOK(Here)'
    <3>1. Whole(Here) => Whole(Here)'
      BY <1>4, <1>6, <2>5, <2>6 DEF Whole
    <3> QED BY <1>4, <1>7, <2>2, <3>1 DEF DirOK
  <2>8. Settled' /\ Strays'
    BY <1>8, <1>9, <2>2, <2>3, <2>4, <2>7
  <2>9. /\ "doc" \in copied' => spec'[Here].doc = doc
        /\ "trace" \in copied' => spec'[Here].trace = [links |-> links, head |-> head]
    <3>1. /\ "doc" \in copied => spec[Here].doc = doc
          /\ "trace" \in copied => spec[Here].trace = [links |-> links, head |-> head]
      BY <1>2 DEF RunsWell
    <3> QED BY <2>2, <2>5, <2>6, <3>1
  <2>10. stage' = "lint" => AllCopied'
    <3>1. stage' = "lint" => "doc" \in copied' /\ "trace" \in copied'
      BY <2>2 DEF SpecFile
    <3> QED BY <1>1, <1>4, <2>9, <3>1 DEF AllCopied
  <2>11. RunsWell'
    BY <1>1, <1>2, <1>4, <2>2, <2>3, <2>9, <2>10 DEF RunsWell
  <2>12. OwnOutputs'
    <3>1. Alone(turn) => /\ "doc" \notin copied => spec[Here].doc = None
                         /\ "trace" \notin copied => spec[Here].trace = None
                         /\ lint[Here] = None /\ summary[Here] = None
      BY <1>2, <2>2 DEF OwnOutputs
    <3>2. Alone(turn) => /\ "doc" \notin copied' => spec'[Here].doc = None
                         /\ "trace" \notin copied' => spec'[Here].trace = None
      BY <2>2, <2>5, <2>6, <3>1
    <3> QED BY <1>4, <2>2, <2>3, <3>1, <3>2 DEF OwnOutputs
  <2> QED BY <2>8, <2>11, <2>12
<1>11. CASE WriteLint
  <2>1. /\ stage = "lint" /\ stage' = "summary" /\ UNCHANGED <<spec, summary, fate, copied>>
        /\ lint' = [lint EXCEPT ![Here] = [errors |-> errors]]
    BY <1>11 DEF WriteLint, loop
  <2>2. lint'[Here] = [errors |-> errors] /\ \A d \in Dir : d # Here => lint'[d] = lint[d]
    BY <1>3, <1>5, <2>1
  <2>3. AllCopied
    BY <1>2, <2>1 DEF RunsWell
  <2>4. DirOK(Here)'
    <3>1. Whole(Here)'
      BY <1>4, <1>6, <2>1, <2>3 DEF Whole, AllCopied
    <3> QED BY <1>4, <1>6, <2>2, <3>1 DEF DirOK
  <2>5. Settled' /\ Strays'
    BY <1>8, <1>9, <2>1, <2>2, <2>4
  <2>6. RunsWell'
    <3>1. AllCopied'
      BY <1>1, <1>4, <2>1, <2>3 DEF AllCopied
    <3> QED BY <1>1, <1>2, <1>4, <2>1, <2>2, <3>1 DEF RunsWell
  <2>7. OwnOutputs'
    BY <1>2, <1>4, <2>1 DEF OwnOutputs
  <2> QED BY <2>5, <2>6, <2>7
<1>12. CASE WriteSummary
  <2>1. /\ stage = "summary" /\ stage' = "cleanup" /\ UNCHANGED <<spec, lint, fate, copied>>
        /\ summary' = [summary EXCEPT ![Here] = RunJson]
    BY <1>12 DEF WriteSummary, loop
  <2>2. summary'[Here] = RunJson /\ \A d \in Dir : d # Here => summary'[d] = summary[d]
    BY <1>3, <1>5, <2>1
  <2>3. lint[Here] = [errors |-> errors]
    BY <1>2, <2>1 DEF RunsWell
  <2>4. DirOK(Here)'
    BY <1>4, <1>6, <1>7, <2>1, <2>3 DEF DirOK, Whole
  <2>5. Settled' /\ Strays'
    BY <1>6, <1>8, <1>9, <2>1, <2>2, <2>4
  <2>6. RunsWell'
    <3>1. AllCopied'
      BY <1>1, <1>2, <1>4, <2>1 DEF AllCopied, RunsWell
    <3>2. RunJson' = RunJson
      BY <1>1 DEF RunJson, Intact
    <3> QED BY <1>1, <1>2, <1>4, <2>1, <2>2, <3>1, <3>2 DEF RunsWell
  <2>7. OwnOutputs'
    BY <2>1 DEF OwnOutputs
  <2> QED BY <2>5, <2>6, <2>7
<1>13. CASE Return
  <2>1. /\ stage = "cleanup" /\ stage' = "idle" /\ UNCHANGED <<spec, lint, summary>>
        /\ fate' = [fate EXCEPT ![turn] = "returned"]
    BY <1>13 DEF Return, outputs
  <2>2. fate'[turn] = "returned" /\ \A i \in DOMAIN Plan : i # turn => fate'[i] = fate[i]
    BY <1>3, <1>5, <2>1
  <2>3. RunOK(turn) /\ summary[Here] # None
    <3>1. summary[Here] = RunJson
      BY <1>2, <2>1 DEF RunsWell
    <3>2. RunOK(turn)
      BY <1>1, <1>2, <2>1, OwnRunOK
    <3> QED BY <1>6, <3>1, <3>2
  <2>4. ASSUME NEW i \in Started, i = turn PROVE RunFacts(i)'
    BY <1>3, <2>1, <2>2, <2>3, <2>4 DEF RunFacts, RunOK
  <2>5. \A d \in Dir : d = Here => DirOK(d)'
    BY <1>7, <2>1 DEF DirOK, Whole
  <2>6. Settled' /\ \A e : Stray(e) => Stray(e)'
    BY <1>1, <2>1, <2>2, <2>4, <2>5, SettledStep
  <2> QED BY <1>9, <2>1, <2>6
<1> QED BY <1>10, <1>11, <1>12, <1>13

\* The failures: the run leaves what it had written, and at most its identity.
LEMMA FailureKeeps ==
  ASSUME IInv, Failure
  PROVE  stage' = "idle" /\ Settled' /\ Strays'
<1>1. stage # "idle" /\ stage' = "idle" /\ UNCHANGED <<turn, outputs>>
  BY DEF Failure, SetupThrows, OpenSessionThrows, PromptThrows, PublishThrows, Crash, Throw
<1>2. /\ RunsWell /\ OwnOutputs /\ TypeOK /\ Stray(saved) /\ (stage # "prompt" => Stray(env))
  BY <1>1 DEF IInv, Strays
<1>3. PICK how \in {"threw", "crashed"} : fate' = [fate EXCEPT ![turn] = how]
  BY DEF Failure, SetupThrows, OpenSessionThrows, PromptThrows, PublishThrows, Crash, Throw
<1>4. /\ turn \in DOMAIN Plan /\ turn \in Started /\ Here \in Dir /\ Here = Home(turn)
      /\ fate'[turn] = how /\ \A i \in DOMAIN Plan : i # turn => fate'[i] = fate[i]
  <2>1. turn \in DOMAIN Plan /\ turn \in Started /\ Here \in Dir /\ Here = Home(turn)
    BY <1>2, StartedFacts DEF RunsWell
  <2>2. fate \in [DOMAIN Plan -> Fate]
    BY <1>2 DEF TypeOK
  <2> QED BY <1>3, <2>1, <2>2
<1>5. spec' = spec /\ lint' = lint /\ summary' = summary
  BY <1>1 DEF outputs
<1>6. /\ Started' = Started /\ \A i : Alone(i)' <=> Alone(i)
      /\ Now' = Now
  BY <1>1, OwnersKept
<1>7. ASSUME NEW i \in Started, i = turn PROVE RunFacts(i)'
  <2>1. fate'[i] # "running" /\ fate'[i] # "returned"
    BY <1>4, <1>7
  <2>2. Owns(i)' => Alone(turn)
    BY <1>6, <1>7, <2>1 DEF Owns
  <2>3. Alone(turn) => RunOK(turn)
    BY <1>1, <1>2, OwnRunOK
  <2>4. RunOK(turn) => RunOK(i)'
    BY <1>5, <1>7 DEF RunOK
  <2> QED BY <2>1, <2>2, <2>3, <2>4 DEF RunFacts
<1>8. Settled' /\ \A e : Stray(e) => Stray(e)'
  <2>1. \A d \in Dir : DirOK(d)'
    BY <1>5 DEF IInv, Settled, DirOK, Whole
  <2> QED BY <1>1, <1>4, <1>5, <1>7, <2>1, SettledStep
<1>9. Strays'
  <2>1. CASE SetupThrows \/ PublishThrows
    BY <1>1, <1>2, <1>8, <2>1 DEF SetupThrows, PublishThrows, Strays, Stray
  <2>2. CASE OpenSessionThrows
    <3>1. saved' = env /\ env' = Identity(Now) /\ stage = "gateway"
      BY <2>2 DEF OpenSessionThrows
    <3>2. fate'[turn] = "threw"
      <4>1. fate' = [fate EXCEPT ![turn] = "threw"] /\ fate \in [DOMAIN Plan -> Fate]
        BY <1>2, <2>2 DEF OpenSessionThrows, Throw, TypeOK
      <4> QED BY <1>4, <4>1
    <3>3. Alone(turn) => Unpublished(Here)
      <4>1. copied = {}
        BY <1>2, <3>1 DEF RunsWell
      <4>2. stage = "gateway" /\ OwnOutputs
        BY <1>2, <3>1
      <4> QED BY <4>1, <4>2 DEF OwnOutputs, Unpublished
    <3>4. Stray(Identity(Now))'
      <4>1. \A i : i = turn => (Alone(i)' => Unpublished(Home(i))')
        BY <1>4, <1>5, <1>6, <3>3 DEF Unpublished
      <4>2. Identity(Now)' = Identity(Plan[turn])
        BY <1>1 DEF Identity, Now
      <4> QED BY <1>1, <1>4, <1>6, <3>2, <4>1, <4>2 DEF Stray
    <3>5. Stray(env)' /\ Stray(saved)'
      BY <1>1, <1>2, <1>6, <1>8, <3>1, <3>4 DEF Stray, Identity, Now
    <3> QED BY <3>5 DEF Strays
  <2>3. CASE PromptThrows
    BY <1>1, <1>2, <1>8, <2>3 DEF PromptThrows, Strays, Stray
  <2>4. CASE Crash
    BY <2>4 DEF Crash, Strays, Stray
  <2> QED BY <2>1, <2>2, <2>3, <2>4 DEF Failure
<1> QED BY <1>1, <1>8, <1>9

\* IInv is inductive.
LEMMA StepIInv == IInv /\ [Next]_vars => IInv'
<1> SUFFICES ASSUME IInv, [Next]_vars PROVE IInv'
  OBVIOUS
<1>1. TypeOK'
  BY StepTypeOK DEF IInv
<1>2. CASE Setup
  BY <1>1, <1>2, SetupKeeps DEF IInv
<1>3. CASE OpenSession \/ AgentStep \/ PromptReturns \/ ReadUsage
  BY <1>1, <1>3, WorkKeeps DEF IInv
<1>4. CASE (\E f \in SpecFile : CopyFile(f)) \/ WriteLint \/ WriteSummary \/ Return
  BY <1>1, <1>4, PublishKeeps DEF IInv
<1>5. CASE Failure
  BY <1>1, <1>5, FailureKeeps DEF IInv
<1>6. CASE UNCHANGED vars
  <2>1. /\ UNCHANGED <<stage, turn, env, saved, doc, links, head, inputs, route, attempts,
                       errors, usage, copied, spec, lint, summary, fate>>
    BY <1>6 DEF vars, session, workspace, loop, outputs
  <2>2. /\ Started' = Started /\ Now' = Now /\ Here' = Here
        /\ \A i : (Alone(i)' <=> Alone(i)) /\ (LastThere(i)' <=> LastThere(i))
    BY <2>1, OwnersKept
  <2>3. (stage # "idle" => RunsWell /\ OwnOutputs)'
    <3>1. AllCopied' <=> AllCopied
      BY <2>1, <2>2 DEF AllCopied
    <3>2. RunJson' = RunJson
      BY <2>1 DEF RunJson, Intact
    <3> QED BY <2>1, <2>2, <3>1, <3>2 DEF IInv, RunsWell, OwnOutputs
  <2>4. Strays'
    BY <2>1, <2>2 DEF IInv, Strays, Stray, Unpublished
  <2>5. Settled'
    <3>1. ASSUME NEW i \in Started PROVE RunFacts(i)'
      BY <2>1, <2>2 DEF IInv, Settled, RunFacts, Owns, RunOK
    <3>2. \A d \in Dir : DirOK(d)'
      BY <2>1 DEF IInv, Settled, DirOK, Whole
    <3>3. Untouched'
      BY <2>1, <2>2 DEF IInv, Settled, Untouched, Unpublished
    <3> QED BY <2>2, <3>1, <3>2, <3>3 DEF Settled
  <2> QED BY <1>1, <2>3, <2>4, <2>5 DEF IInv
<1> QED BY <1>2, <1>3, <1>4, <1>5, <1>6 DEF Next, RunnerStep

LEMMA Inductive == Spec => []IInv
BY InitIInv, StepIInv, PTL DEF Spec

\* Whatever the stage, the outputs that are a run's own agree.
LEMMA OwnersOK == ASSUME IInv, NEW i \in Started, Owns(i) PROVE RunOK(i)
<1>1. TypeOK /\ RunFacts(i)
  BY DEF IInv, Settled
<1>2. CASE fate[i] # "running"
  BY <1>1, <1>2 DEF RunFacts
<1>3. CASE fate[i] = "running"
  <2>1. stage # "idle" /\ i = turn /\ Alone(i)
    BY <1>1, <1>3 DEF RunFacts, Owns
  <2> QED BY <1>1, <2>1, OwnRunOK DEF IInv
<1> QED BY <1>2, <1>3

---------------------------------------------------------------------------
\* For every plan and every agent, the variables keep their types and the prompts of a run
\* stay within limits.repair_attempts.
THEOREM TypeCorrect == Spec => []TypeOK
<1>1. IInv => TypeOK
  BY DEF IInv
<1> QED BY <1>1, Inductive, PTL

\* run.json always speaks of the files in spec/ next to it, whatever failed and whatever an
\* earlier run of the same id had left there, when the directory is the run's own.
THEOREM SummaryVouchesHolds == Spec => []SummaryVouches
<1>1. IInv => SummaryVouches
  <2> SUFFICES ASSUME IInv, NEW i \in Started, Owns(i), summary[Home(i)] # None
               PROVE  /\ Whole(Home(i))
                      /\ Vouched(summary[Home(i)], spec[Home(i)], Plan[i].case.pinned)
    BY DEF SummaryVouches
  <2>1. RunOK(i)
    BY OwnersOK
  <2> QED BY <2>1 DEF RunOK, Whole, Vouched
<1> QED BY <1>1, Inductive, PTL

\* No run changes an input file, or a link of a person or of another step, in its workspace
\* or in what it publishes.
THEOREM InputsKeptHolds == Spec => []InputsKept
<1>1. IInv => InputsKept
  <2> SUFFICES ASSUME IInv PROVE InputsKept
    OBVIOUS
  <2>1. stage # "idle" => inputs = "as given" /\ SameForeign(links, Now)
    BY DEF IInv, RunsWell
  <2>2. ASSUME NEW i \in Started, Owns(i), spec[Home(i)].trace # None
        PROVE  SameForeign(spec[Home(i)].trace.links, Plan[i])
    BY <2>2, OwnersOK DEF RunOK
  <2> QED BY <2>1, <2>2 DEF InputsKept
<1> QED BY <1>1, Inductive, PTL

\* Every link a run makes carries its own step and its own run id, although the identity is
\* read from an environment that an earlier run may have left dirty.
THEOREM LinksMintedHolds == Spec => []LinksMinted
<1>1. IInv => LinksMinted
  <2> SUFFICES ASSUME IInv PROVE LinksMinted
    OBVIOUS
  <2>1. stage # "idle" => Minted(links, Now)
    BY DEF IInv, RunsWell
  <2>2. ASSUME NEW i \in Started, Owns(i), spec[Home(i)].trace # None
        PROVE  Minted(spec[Home(i)].trace.links, Plan[i])
    BY <2>2, OwnersOK DEF RunOK
  <2> QED BY <2>1, <2>2 DEF LinksMinted
<1> QED BY <1>1, Inductive, PTL

\* A run that ends with errors has used every repair the lock allows.
THEOREM NoEarlyGiveUpHolds == Spec => []NoEarlyGiveUp
<1>1. IInv => NoEarlyGiveUp
  <2> SUFFICES ASSUME IInv, NEW i \in Started, Owns(i), summary[Home(i)] # None,
                      summary[Home(i)].errors
               PROVE  summary[Home(i)].attempts = 1 + RepairAttempts
    BY DEF NoEarlyGiveUp
  <2> QED BY OwnersOK DEF RunOK
<1> QED BY <1>1, Inductive, PTL

\* The outputs of every directory appear in order, and a run that returned has all of them,
\* although the directory may hold those of an earlier run.
THEOREM OutputsOrderedHolds == Spec => []OutputsOrdered
<1>1. IInv => OutputsOrdered
  <2> SUFFICES ASSUME IInv PROVE OutputsOrdered
    OBVIOUS
  <2>1. \A d \in Dir : (summary[d] # None => lint[d] # None) /\ (lint[d] # None => Whole(d))
    BY DEF IInv, Settled, DirOK
  <2>2. \A i \in Started : fate[i] = "returned" => summary[Home(i)] # None
    BY DEF IInv, Settled, RunFacts
  <2>3. ASSUME NEW i \in Started, Owns(i), summary[Home(i)] # None
        PROVE  lint[Home(i)].errors = summary[Home(i)].errors
    <3>1. summary[Home(i)].errors = lint[Home(i)].errors
      BY <2>3, OwnersOK DEF RunOK
    <3> QED BY <3>1
  <2> QED BY <2>1, <2>2, <2>3 DEF OutputsOrdered
<1> QED BY <1>1, Inductive, PTL

\* Outside its own prompts, an identity is in the environment only if opening the session
\* of its run threw, and that run published nothing.
THEOREM NoStrayIdentityHolds == Spec => []NoStrayIdentity
<1>1. IInv => NoStrayIdentity
  <2> SUFFICES ASSUME IInv, env # NoOne PROVE NoStrayIdentity
    BY DEF NoStrayIdentity
  <2>1. CASE stage = "prompt"
    BY <2>1 DEF IInv, RunsWell, NoStrayIdentity
  <2>2. CASE stage # "prompt"
    <3>1. Stray(env)
      BY <2>2 DEF IInv, Strays
    <3> QED BY <3>1 DEF Stray, NoStrayIdentity
  <2> QED BY <2>1, <2>2
<1> QED BY <1>1, Inductive, PTL

---------------------------------------------------------------------------
\* The readback of the spend.

\* The timers and what they bound: a request starts at most one sleep after the last
\* moment a sleep may start, and a sleep only starts before the timeout.
Timely ==
  /\ phase = "asked" => since < Timeout + Interval /\ now <= since + RequestLimit
  /\ phase = "asleep" => since < Timeout /\ now <= since + Interval
  /\ phase = "returned" => now = since

\* An answer is as late as its request, so it holds all that the answers before it said.
Fresh == answer.taken => last \subseteq answer.logs

ReadbackInv == ReadbackTypeOK /\ Timely /\ Fresh /\ now < Timeout + Interval + RequestLimit

LEMMA ReadbackInvInit == ReadbackInit => ReadbackInv
BY TimeAssumption DEF ReadbackInit, ReadbackInv, ReadbackTypeOK, Timely, Fresh, NotYet

LEMMA ReadbackInvStep == ReadbackInv /\ [ReadbackNext]_readbackVars => ReadbackInv'
<1> SUFFICES ASSUME ReadbackInv, [ReadbackNext]_readbackVars PROVE ReadbackInv'
  OBVIOUS
<1> USE TimeAssumption
<1>1. ASSUME NEW batch \in SUBSET Log, WriteBatch(batch) PROVE ReadbackInv'
  BY <1>1 DEF ReadbackInv, ReadbackTypeOK, Timely, Fresh, WriteBatch
<1>2. CASE TakeSnapshot
  BY <1>2 DEF ReadbackInv, ReadbackTypeOK, Timely, Fresh, TakeSnapshot
<1>3. ASSUME phase = "asked", Decide, last' \in SUBSET (written \cap Own) PROVE ReadbackInv'
  <2>1. ReadbackTypeOK'
    BY <1>3 DEF ReadbackInv, ReadbackTypeOK, Decide, NotYet
  <2>2. Timely'
    BY <1>3, <2>1 DEF ReadbackInv, ReadbackTypeOK, Timely, Fresh, Decide
  <2> QED BY <1>3, <2>1, <2>2 DEF ReadbackInv, Fresh, Decide, NotYet
<1>4. CASE Answered
  BY <1>3, <1>4 DEF ReadbackInv, ReadbackTypeOK, Answered, Summarised
<1>5. CASE Failed
  BY <1>3, <1>5 DEF ReadbackInv, ReadbackTypeOK, Failed
<1>6. CASE Wake
  BY <1>6 DEF ReadbackInv, ReadbackTypeOK, Timely, Fresh, Wake
<1>7. CASE Tick
  BY <1>7 DEF ReadbackInv, ReadbackTypeOK, Timely, Fresh, Tick
<1>8. CASE UNCHANGED readbackVars
  BY <1>8 DEF ReadbackInv, ReadbackTypeOK, Timely, Fresh, readbackVars, Enough
<1> QED BY <1>1, <1>2, <1>4, <1>5, <1>6, <1>7, <1>8 DEF ReadbackNext

LEMMA ReadbackInvHolds == ReadbackSpec => []ReadbackInv
BY ReadbackInvInit, ReadbackInvStep, PTL DEF ReadbackSpec

\* Every variable keeps its type.
THEOREM ReadbackTypeCorrect == ReadbackSpec => []ReadbackTypeOK
<1>1. ReadbackInv => ReadbackTypeOK
  BY DEF ReadbackInv
<1> QED BY <1>1, ReadbackInvHolds, PTL

\* The readback is over before one sleep and one request have passed since the timeout.
THEOREM BoundedTime == ReadbackSpec => []NeverTooLate
<1>1. ReadbackInv => NeverTooLate
  BY DEF ReadbackInv, NeverTooLate
<1> QED BY <1>1, ReadbackInvHolds, PTL

\* No answer, and no failure, makes it forget a call it has seen.
THEOREM NothingIsForgotten == ReadbackSpec => NothingForgotten
<1>1. ReadbackInv /\ [ReadbackNext]_readbackVars => [last \subseteq last']_readbackVars
  <2> SUFFICES ASSUME ReadbackInv, ReadbackNext PROVE last \subseteq last'
    BY DEF readbackVars
  <2>1. CASE Answered
    BY <2>1 DEF ReadbackInv, ReadbackTypeOK, Fresh, Answered, Summarised
  <2>2. CASE Failed
    BY <2>2 DEF Failed
  <2>3. CASE ~Answered /\ ~Failed
    BY <2>3 DEF ReadbackNext, WriteBatch, TakeSnapshot, Wake, Tick
  <2> QED BY <2>1, <2>2, <2>3
<1> QED BY <1>1, ReadbackInvHolds, PTL DEF ReadbackSpec, NothingForgotten
================================================================================
