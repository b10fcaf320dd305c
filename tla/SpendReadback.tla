----------------------------- MODULE SpendReadback -----------------------------
(***************************************************************************)
(* fetchGatewayUsage (packages/step-runner/src/gateway.ts): reading the    *)
(* calls of one run back from litellm's spend logs.  The gateway writes    *)
(* its logs in batches and in any order, its answer is a snapshot of some  *)
(* moment of the request, and the request may fail; the runner asks again  *)
(* until it has seen as many calls as pi counted, or until time is up.     *)
(*                                                                         *)
(* `now` is the clock since the first request.  Timers are taken to fire   *)
(* when they are due: a request is aborted RequestLimit after it was sent, *)
(* and the sleep between two requests lasts Interval.                      *)
(***************************************************************************)
EXTENDS Integers, FiniteSets

CONSTANTS
  Log,           \* the spend logs the gateway may write
  Own,           \* those tagged run:<run id>, of this run or of another under its id
  Expected,      \* the assistant messages pi counted (expectedCalls)
  Timeout,       \* opts.timeoutMs, 90 s
  Interval,      \* opts.intervalMs, 5 s
  RequestLimit   \* AbortSignal.timeout, 10 s

VARIABLES
  now,       \* the time
  written,   \* the logs the gateway has written
  phase,     \* "asked": a request is under way, "asleep", or "returned"
  since,     \* when this phase began
  answer,    \* the snapshot the gateway answers with, once it has taken it
  last       \* the own logs of the last good answer

readbackVars == <<now, written, phase, since, answer, last>>

ASSUME LogAssumption == IsFiniteSet(Log) /\ Own \subseteq Log
ASSUME ExpectedAssumption == Expected \in Nat
ASSUME TimeAssumption ==
  {Timeout, Interval, RequestLimit} \subseteq Nat \ {0}

NotYet == [taken |-> FALSE, logs |-> {}]

\* summariseSpend: only the logs that carry the tag of the run count.
Summarised(logs) == logs \cap Own

Enough(logs) == Cardinality(logs) >= Expected

ReadbackInit ==
  /\ now = 0 /\ written = {}
  /\ phase = "asked" /\ since = 0
  /\ answer = NotYet /\ last = {}

\* The gateway writes a batch, at any time, of this run or of others.
WriteBatch(batch) ==
  /\ batch # {} /\ batch \cap written = {}
  /\ written' = written \cup batch
  /\ UNCHANGED <<now, phase, since, answer, last>>

\* The gateway reads its logs for the request under way.
TakeSnapshot ==
  /\ phase = "asked" /\ ~answer.taken
  /\ answer' = [taken |-> TRUE, logs |-> written]
  /\ UNCHANGED <<now, written, phase, since, last>>

\* Faulty: one sleep too many.
DecideLate ==
  /\ phase' = IF Enough(last') \/ now > Timeout THEN "returned" ELSE "asleep"
  /\ since' = now /\ answer' = NotYet /\ UNCHANGED <<now, written>>

\* After a request, whatever came of it: return, or sleep.
Decide ==
  /\ phase' = IF Enough(last') \/ now >= Timeout THEN "returned" ELSE "asleep"
  /\ since' = now
  /\ answer' = NotYet
  /\ UNCHANGED <<now, written>>

\* A good answer replaces what the last one said.
Answered ==
  /\ phase = "asked" /\ answer.taken
  /\ last' = Summarised(answer.logs)
  /\ Decide

\* Faulty: a failed request forgets what the last good one said.
FailedBlank == phase = "asked" /\ last' = {} /\ Decide

\* The connection, the status or the JSON is bad, or the request takes too long: what the
\* last good answer said stays.
Failed ==
  /\ phase = "asked"
  /\ last' = last
  /\ Decide

\* Faulty: the timer is never due.
WakeLate ==
  /\ phase = "asleep" /\ now > since + Interval
  /\ phase' = "asked" /\ since' = now
  /\ UNCHANGED <<now, written, answer, last>>

\* The sleep is over: the next request.
Wake ==
  /\ phase = "asleep" /\ now >= since + Interval
  /\ phase' = "asked" /\ since' = now
  /\ UNCHANGED <<now, written, answer, last>>

\* Time passes, but not past a timer that is due.
Tick ==
  /\ phase = "asked" => now < since + RequestLimit
  /\ phase = "asleep" => now < since + Interval
  /\ phase # "returned"
  /\ now' = now + 1
  /\ UNCHANGED <<written, phase, since, answer, last>>

ReadbackNext ==
  \/ \E batch \in SUBSET Log : WriteBatch(batch)
  \/ TakeSnapshot \/ Answered \/ Failed \/ Wake \/ Tick

ReadbackSpec == ReadbackInit /\ [][ReadbackNext]_readbackVars

\* Time passes, and the timers fire when they are due: nothing is asked of the gateway.
ReadbackFairness ==
  /\ WF_readbackVars(Tick)
  /\ WF_readbackVars(Failed /\ now >= since + RequestLimit)
  /\ WF_readbackVars(Wake)

FairReadback == ReadbackSpec /\ ReadbackFairness

---------------------------------------------------------------------------
\* Every variable has its type, and what was read was written.
ReadbackTypeOK ==
  /\ now \in Nat /\ since \in 0..now
  /\ written \in SUBSET Log
  /\ phase \in {"asked", "asleep", "returned"}
  /\ answer \in [taken : BOOLEAN, logs : SUBSET written]
  /\ last \in SUBSET (written \cap Own)

\* The run is not held up: it is over less than one sleep and one request after the
\* timeout, however slow or broken the gateway is ("or timeoutMs passes").
NeverTooLate == now < Timeout + Interval + RequestLimit

\* What a good answer said is never lost again, not when later requests fail or when an
\* answer was taken before a batch that an earlier answer already held.
NothingForgotten == [][last \subseteq last']_readbackVars

\* The run goes on, in the end.
Returns == <>(phase = "returned")
=============================================================================
