# Kneepoint, specified

Kneepoint ramps simulated users against an LLM agent until it bends: it sends
multi-turn conversations at growing concurrency, can inject faults, watches what
the run costs, and reports where the knee is and how many sessions were really
resolved. This directory specifies the parts of it that are hard to test in
TLA+, checks them with TLC and proves what matters most with TLAPS.

## 1. Inventory

| Component | State it keeps | Operations | Talks to |
|---|---|---|---|
| load generator (`generator/ramp.py`, `pool.py`, `session.py`, `lifecycle.py`, `monitor.py`) | `RunEvidence` (records, attempts, sessions, statuses), worker tasks, the stop event | `run_ramp`, `run_level`, `run_session`, `wait_or_stop` | target client (await), observers (callbacks), controller (stop event) |
| observed spend controller (`analyze/budget.py`) | charged identities, known spend, usage coverage, first stop reason | `on_attempt_complete`, `snapshot` | generator (called back; sets its stop event) |
| command line run (`cli.py`) | its locals; request, session, meta, lifecycle and report files | `run`, `report` | all of them; other runs of the same second, through the files |
| target client (`targets/openai_compatible.py`) | none between calls | `run_turn`: one request, streamed | HTTP target |
| chaos (`chaos/`) | fault rates, fault log in memory and in a file | transport faults, tool proxy, `merge_fault_log` | generator's transport; the agent's tools; another process's file |
| knee analysis (`analyze/knee.py`, `timing.py`, `scaling.py`) | none | aggregation per level, contamination, knee criteria | records and metadata |
| outcome analysis (`analyze/retry.py`, `errors.py`, `resilience.py`, `resolution.py`, `slo.py`, `cost.py`) | none | summaries | records, sessions |
| judges (`judge/`) | none | deterministic check, sampled LLM judge | sessions; judge endpoint |
| configuration, schemas, writers (`config.py`, `collect/`) | files | validation, JSON lines | all |
| reports (`report/`) | none | render, rerender from files | files |
| demo (`demo/`) | an agent process, a proxy, an environment variable | `run_demo` | chaos, generator |
| example agents (`examples/`) | model slots, search queue, fetch limiter, statistics | serve requests | the generator, as its target |

What is hard, and what makes each part correct:

* **Generator.** Many tasks on one event loop; a stop event anybody can set at any
  await or from inside a callback; a failure in one worker that has to cancel and
  join the others; external cancellation at every await, also in `finally`
  blocks; callbacks that raise after the evidence was changed. Correct: no record
  without a completed attempt and no completed attempt without one; summaries that
  agree with the records; nothing left running; nothing admitted after stop; a
  status that tells how the run really ended; and it ends.
* **Controller.** Replays and conflicting completions, missing token counts, a cap
  met exactly, a cap of zero, requests in flight when the cap is reached.
* **Command line run.** Six files written at different moments, a kill or a full
  disk between and inside the writes, two runs in one second. Correct: what was
  accounted for is on disk, an exit code keeps its promise, and what a later
  `kneepoint report` says of partial evidence is not better than what happened.
* **Target client.** The stream can break at every point, the wall clock can end it,
  also while the response is being closed. Correct: a record says what happened.
* **Chaos.** A log file written by one process and read by another; calls that are
  held while their server is told to leave. Correct: a fault the agent met is on
  the session it hit, or is counted as not attributable.
* **Analysis.** Boundary rules (last level, too few samples, unknown values) and
  the rule that a contaminated level taints the later ones. Correct: a knee is
  claimed only where the curve warrants it, and missing evidence never turns into
  a pass.
* **Example agents.** Semaphores and a rate limiter under timeouts that cancel a
  request queued, just woken or served.

The hazards are listed, each at its line, in `PROJECT.json`.

## 2. The modules

| Module | What it is |
|---|---|
| `AdmissionControl` | abstract: what the generator promises about requests |
| `LoadGenerator` | the generator, its properties, its inductive invariant, the refinement mapping |
| `LoadGeneratorProofs` | `IndInv`; admission and the refinement of `AdmissionControl`; summaries, retries, outcomes |
| `SpendController` | the controller |
| `SpendControllerProofs` | its type, warranted stops, final reasons; the spend is that of the attempts seen |
| `CappedRun` | generator and controller sharing the stop event, as `cli.run` wires them |
| `CappedRunProofs` | both specifications are implemented; the cap and the dispatch; charging; the overshoot |
| `RunTurn` | one streamed request: `run_turn`, the chaos transport's answers, the retry rule |
| `RunTurnProofs` | `TurnInv` and what every record says of its request |
| `CliRun` | the runs of one second, their files, kills and failed writes, `kneepoint report` |
| `CliRunProofs` | `CliInv`, `Numbered`, `CliTold`; accounting on disk, exit codes, what a later report says |
| `FaultLog` | the tool proxy, its owners, its log and the merging of it |
| `FaultLogProofs` | `StopInv`, `LogInv`, `MergeInv`; what a stop leaves, faults reach their session |
| `Analysis` | knee report and the three service level objectives over growing evidence |
| `AnalysisProofs` | `AnalysisInv`; warranted knees; lost evidence stays lost |
| `LanternDesk` | the multi-agent example: slots, queue, limiter, statistics |
| `LanternDeskProofs` | `DeskInv`, `StatsInv`; slots and wakeups, the rate of the fetches, the statistics |
| `MC...` | the instances TLC checks |

### LoadGenerator and the code

asyncio runs a task without interruption until it awaits something that is not
ready. The variable `loop` holds the task that is running; the steps of a task
between two awaits follow each other while it holds the loop, and stop,
cancellation, answers and timers come in only when the loop is `Idle`. A worker's
`pc` and the main task's `runPc` name the awaits and the decision points between
them.

| Code | Model |
|---|---|
| `for level in spec.levels()`, the two stop checks, `else`, the two `except` | `StartLevel`, `StopRamp`, `ReturnFromLevel`, `EndRamp`, `BudgetEndsRamp`, `RaiseFromLevel` |
| `run_level`: client, tasks, `gather`, the inner and outer `except`, `finally` | `StartLevel`/`ClientDoesNotOpen`, `GatherReturns`, `GatherRaises`, `JoinTasks`, `CloseClient`, `JoinSampler`, `FinishMonitor` |
| `worker`: `while not stop`, `on_record`, deadline | `StopWorker`, `StartSession`, `FinishSession` |
| `run_session`: turn loop, attempt loop, stop re-check, request, retry, think time | `EndTurns` ... `ThinkEnds` |
| its `except` and `finally` | `CancelSession`, `HandleException` |
| `evidence.attempts`, `.records`, `.sessions` + `.session_status`, `.status`, `.level_status` | `attempts` + `dispatched`, `records`, `sessions`, `runStatus`, `levelStatus` |

Data that no property tells apart is dropped: clocks, prompts, texts (a transcript
is the sequence of its roles), fault names, trace headers, the resource samples and
what the monitor measures. A `RequestRecord` is `ok`, `retryable` or `fatal`.
A session's random identity is its worker and its number in the level.

An exception that ends a task does not reach `gather(*tasks)` in the same step: its
done-callback runs in a later turn of the loop. `raised` is the first such exception,
`gather` whether the future has heard of it (`GatherIsTold`) and whether it took a
cancellation meanwhile. A cancellation in that window goes to the other tasks, and
the exception that was on its way wins. `WaitEnds` lets a wait that stop and a
cancellation meet in go on or raise, as `asyncio.wait_for` of Python 3.11 and of the
later versions do.

Left out, and why: `run_level`'s own check of a stop that was set before it
(pool.py:49-51) cannot be reached from `run_ramp`, which checks just before with no
await in between; `BudgetExceeded` raised by anything but `on_record`;
exceptions that are not `Exception` or `CancelledError`, which asyncio lets tear
down the loop; errors of `sampler.sample()` (a list choice).

### SpendController and CappedRun

`SpendController` counts money in integer units because the code uses `Decimal`
to make the comparison with the cap exact. `Replay`, `Reject` and `Charge` are the
three ways through `on_attempt_complete`; the caller may set the public event.
`CappedRun` extends the generator's steps: an answer is written and then told to
the controller (`AnswerObserved`), which may set the generator's stop event; when
the write fails or the controller refuses the record, the session sees the
exception and nothing is charged. No other step sets the event in a command line
run.

### RunTurn

`phase` is the await a call is at: connecting, sending, waiting for the status,
streaming, closing. `sent` holds what really happened on the connection, `seen`
the locals of `run_turn`, so that a property can compare a record with the
exchange; `leaving` is the exception or return that is on its way out of
`async with asyncio.timeout(wall), _stream_attempt(...)`, where the inner context
closes the response while the outer one can still expire.

| Code | Model |
|---|---|
| `client.send`, `response.aclose()` | `Connected`, `RequestSent`, `ServerAnswers`; `CloseResponse` |
| status >= 400, `float(retry_after)` | `ServerAnswers`, `HttpError` |
| the line loop | `ChunkArrives`, `StreamEnds` |
| `except TimeoutError`, `(ReadTimeout, WriteTimeout)`, `Exception` | `WallExpires`, `GapTimeout`, `Fails` with `RecordOf` |
| cancellation of the worker | `Cancel` |
| `ChaosTransport.handle_async_request` | `FaultInjected` |
| `_retryable` | `Retryable` |

External: httpx raises what its documentation names, `aclose` raises nothing of
its own, and an injected response is closed without waiting. Chunks carry
content, a usage, or both; times and texts are left out, so TTFT and the
inter-chunk statistics are present or absent.

### CliRun

Two runs share files exactly if they start within the same second, because a run is
named by it; so the model has the files of one second and any number of runs in
it. `run[p]` holds the locals of `cli.run`, `pc` the place it is at, `after` where
`save_lifecycle` returns to (or that it is called by the exception handler and the
exception goes on). Every step that writes has the outcomes that it succeeds, that
it raises, and, where a write is not atomic, that it leaves a part; `Kill` takes a
run from any place. The request file, which runs only append to, is the set of its
lines `<<run, attempt>>`: no reader depends on their order. What can be cut short of it
is its last line: `unended` is that line while it lacks its newline or more, and a
line written behind it is glued to it, which makes both `lost` to a reader.

| Code | Model |
|---|---|
| rejected options, names, `JsonlWriter` | `RejectOptions`, `NameRun`, `OpenRequests` |
| `save_lifecycle`: temporary file, `replace` | `WriteTemporary`, `ReplaceLifecycle` |
| load generation with the observer of attempts | `StartLevel`, `AttemptCompletes`, `WriteRecord`, `Charge`, `GenerationEnds`, `GenerationRaises` |
| the exception handler | `SavePartialSessions`, then `save_lifecycle` |
| merging, judging, sessions, metadata, report, SLO | `MergeAndJudge`, `WriteSessions`, `WriteMeta`, `ReadMeta`, `WriteReport`, `EvaluateSlo` |
| `rerender.py`: what it refuses, the saved zero-cap run, the level status of old runs | `Refused`, `IsSavedZeroCapRun`, `LevelStatus`, `RenderFromFiles`, `Rerender` |

Abstractions: writing the temporary lifecycle file is one step, since nobody reads
it before it is moved; lines two runs append at the same moment do not mix inside
a line, as each is one write of less than the writer's buffer; when a write is cut
short by a full disk, what closing the file still gets out of the buffer is part of
that step (`WritePart`), and no other session's attempt completes between the failed
write and the end of the generation; `report` is called when the runs of its second are over; a report file is
written or not. The sibling path checks of `report` and its price overrides are
left out. The generator is reduced to what the command sees of it: records,
completed and cut sessions, one level's outcome.

### FaultLog

`owner` is the program that started the proxy, `kneepoint proxy` (a process that may
be killed, whose file a run merges) or the demo (which merges the memory of its
own proxy). A handler is `asked`, then forwards or picks a fault, which is recorded
before it is served; `Stop` is `ProxyHandle.stop`, `Exit` uvicorn's graceful
shutdown, whose cancellations are `Cancel`.

External: uvicorn takes no call after it was told to leave and cancels what is
left after two seconds. `join` gives up after five, more than those two, so a thread
that stalls longer is left out, and with it an owner that goes on beside its proxy.
Also left out: a line cut off inside, the probabilities of
`FaultSpec`, and that an agent's own timeout could end a handler. When
`start_proxy` itself fails in the demo, the agent it started before stays
(`StopLeavesNothing` is about a proxy that came up). `said` holds what the owner tells
of after merging (`Told`): the command tells of faults without a header and of those
of other sessions, the demo only of the first.

### Analysis

The evidence is the state and grows by a level, a session's verdict or an attempt
without usage; what `knee.py`, `slo.py`, `resolution.py` and `cost.py` conclude are
operators on it, so that an invariant speaks of one conclusion and an action
property of how a conclusion changes with more evidence. A percentile is a member of a
small set; ratios are compared as integers. kneed's `KneeLocator` is external: any
usable level or none. `timing.py` and `scaling.py` (clock corrections, fitted
formulas) are not modelled.

### LanternDesk

The three asyncio primitives are modelled as asyncio (external) implements them: a
woken task owns its slot but stays in the deque until it runs, a newcomer queues
behind it although a slot may be free, a cancelled waiter that was already woken
hands its slot on. `stage` is where in the graph a request is, `at` the await.
`Fail` is a timeout at any of them or an error of the service. The rate limiter's
clock is counted in ticks. Not modelled: tracing (spans, the streamed response that
ends one), a client that disconnects, shutdown, reading the configuration.

## 3. The runs

| Run | Instance | What it shows |
|---|---|---|
| `generator_one_level` | two users, sessions of 1..2 turns, 2 attempts, think time, every disturbance, one cancellation, monitor | evidence, transcripts, retries, joining, level outcome, admission |
| `generator_ramp` | ramp 1..2, one turn, two attempts with a wait between them, every disturbance, one cancellation, sampler instead of monitor, fairness | status of the run against the exceptions of its tasks, what becomes of a cancellation, refinement of `AdmissionControl`, `RunEnds` |
| `generator_cancelled` | the same with one attempt, the monitor (the default) instead of the sampler, no fairness | violation: a cancellation is lost |
| `generator_sampled` | the same with the sampler | violation: a level stays `running` |
| `spend_controller` | three attempts, tokens missing, negative, 0, 1 or 2, no cap and caps 0, 3, 4 | accounting, stop reasons |
| `capped_run` | ramp 1..2, two attempts per turn, usage complete, partial or missing, caps 0, 2, 4 and 7 (a full charge is 2), one cancellation | overshoot, dispatch within the cap, completion within the cap |
| `run_turn` | statuses 200, 401 and 429, up to three chunks, every failure, timeout and cancellation at every await, fairness | what a record says of its request; only cancellation is raised; the call ends |
| `run_turn_retried` | the same with one chunk | violation: an abandoned stream is not retried |
| `cli_run` | two runs of one second with any of five option sets (calibrated and judged without a cap, caps 0 and 1, two that are rejected), 2 attempts and 1 session each, at most 2 whole request lines in the file (`MaxLines`), a kill and a failed write anywhere, inside a request line too | accounting on disk, exit codes, rerendering, reports of partial and of empty runs |
| `fault_log` | three calls, one of a session, one of another run's and one without header, a fresh or a used log, both owners, fairness | faults reach their session; a stop leaves nothing; holds end, and a stop ends every call |
| `lantern_desk` | three requests, two model slots, one search worker, fetches every two ticks, a timeout or an error at every await, fairness | slots and wakeups, the fetch rate, statistics against answers; every request ends |
| `analysis` | curves of up to four levels with p95 at, near and beyond twice the floor, or too few samples; two sessions; usage lost at any time | warranted knees; lost evidence is not regained |

Why the bounds are enough. Two workers are what it takes for one to raise while
the other is anywhere else; with two levels there is a level before, a level
after, and a last one; two turns and two attempts have a first and a last, a retry
and a later turn after it; one session per worker is enough for whatever happens
inside a session and a level (the loop top is reached with stop set and unset;
the theorems hold for any `MaxSessions`). One cancellation can arrive at every
await of the main task, also while it joins the workers after a failure. Symmetry
over workers is used where no liveness is checked. A level is only started with
as many tasks as its concurrency, so `Workers` needs as many elements as the
last level has users. In `capped_run` one charge reaches the cap exactly, two
users are in flight when it happens, the cap can be reached in the first
level with another still to come, and a run without retries completes below the cap
of 7. Runs without a cap are left to `spend_controller`: the controller never stops
them, so they add nothing but states. In `run_turn` the three statuses are one
that streams, one that is final and one that is retried; one chunk opens no gap, two
open one, and a third shows that the count goes on.

In `cli_run` two runs are what it takes to share a file, one of them can have
ended while the other is anywhere, and the second attempt comes after the cap was
reached; symmetry over the runs is sound, as nothing but `Runs` itself names them.
Two whole lines are enough for one that is glued to a piece another run left and one
that is not, before or after it.
In `fault_log` each kind of header has its call, the second session stays clean, and one stale line stands for another run's. In
`lantern_desk` one search worker and two model slots give every request somebody
to queue behind and a waiter that is woken while another still waits. In
`analysis` three levels are the least a knee needs, and the fourth is the level
above it or a hole. Systems that may stop (a run that is over, everything answered)
switch the deadlock check off.

**Fairness.** `FairSpec` has weak fairness on the generator's own steps together
(the event loop keeps running what is ready), none on stop or cancellation. A
request ends because `run_turn` bounds it by a wall clock and returns an outcome
instead of raising; waits end by their timers; a worker's sessions end because of
the deadline, which is what `MaxSessions` stands for. `RunTurn!FairSpec` has weak
fairness on the wall's timer and on closing a response; the server owes nothing, so
that `TurnEnds` shows that the wall alone ends a call. `FaultLog!FairSpec`: the event
loop serves each handler that need not wait, fires the timer of a hold and that of
the graceful shutdown, and lets the server exit; neither the stop, nor the agent, nor
the upstream is fair, as httpx's 30 seconds are for one operation and the body of a
call is read without any timeout. Hence a call to a silent upstream ends only with
the proxy, and `HoldsAndStopsEnd` says no more than that. `LanternDesk!FairSpec`: what is ready runs, each
service answers, time passes; timeouts are not fair, so `EveryRequestEnds` does not
lean on them. `CliRun` and `Analysis` state no liveness: a run may be killed at any
time and evidence need not grow.

**Three disagreements with the code's own documents**, each a violation run:

* `generator_cancelled`. `InjectorMonitor.finish` awaits its cancelled task under
  `except asyncio.CancelledError: pass`, so it also takes a cancellation meant for
  its caller: the ramp goes on. `run_ramp` without the monitor does not have this
  (`generator_ramp` checks the same property and passes; what the property allows
  besides is the last item of section 5).
* `generator_sampled`. A cancellation in `run_level`'s `finally`, while the
  resource sampler is joined, ends the run with `level_status` still `running`,
  which `schemas.py` calls the terminal outcome. Without the sampler the property
  holds (`generator_one_level`).
* `run_turn_retried`. `docs/measurement-integrity.md` says that an abandoned turn is
  retried, whether the gap timeout or the wall ended it. A request is abandoned at the
  wall only once its status arrived, the record keeps that status, and `_retryable`
  refuses a 200.

## 4. What is proved

All theorems hold for every value of the constants the named assumptions allow.
Every invariant and every safety action property of a passing run is the
statement of a theorem.

**The generator** (`LoadGeneratorProofs`)

* **The inductive invariant** (`LoadGenerator!IndInv`, theorem `Inductive`).
  `RecordsMatchAttempts` alone is not inductive: that the next attempt is a new one
  needs to know that every attempt of a session lies behind its worker's cursor
  (`AttemptsBehindCursor`), which needs the cursor and the transcript to be where
  the control point says (`CursorInv`); that nobody but a worker awaiting an answer
  has an open attempt (`OpenAttempts`) and that an unsummarised attempt belongs to
  a session in progress (`UnsummarisedInProgress`) give `NothingLeftRunning`
  together with `LoopInv`, which says that workers live only between `gather` and
  `join`; `Unwinding` says that after a failure workers can only end. TLC
  checks `IndInv` as well (`generator_one_level`). The proof
  has one lemma per conjunct for a worker's step and one for the main task's.
* `TypeCorrect`, `RecordsCorrect`, `NothingLeft` follow from it in one state.
* `StopClosesAdmission`: the action property `AdmissionClosed`, by `Unwinding` and
  the re-check of stop after the start observer.
* `Refinement`: every step of the generator is a step of `AdmissionControl` or a
  stutter, with `settled` the dispatched attempts that are no longer open.
* `SummariesMatch` (`TallyInv`). A summary is written from a worker's counters, so
  `Tallied` ties these to the records while the session is in progress: as many
  accepted records as completed turns, and a transcript that alternates and is two
  messages per completed turn long, plus the user's of the turn at hand.
* `RetriesWarranted` (`RetryInv`). `PlaceWarranted` says, for each place a worker can
  go on from, that the record of the turn before is accepted and that of the
  attempt before retryable.
* `StatusExplained` (`OutcomeInv`) follows an exception from the task it ends over
  `gather` and the exception of its level to the status of the run, in the order in
  which the code passes it on (`ExceptionInPlace`, `FailureKept`), and traces every
  cancelled task to a cancellation from outside or to a failed level
  (`CancelsTraced`). `RunStatusExplained` tells `failed`, `budget_exceeded` and
  `cancelled` apart by the first exception a worker ended with.
* `CompletedServed` (`ServedInv`): as many tasks as the level has users, each of
  which has its first session completed when it goes on or returns without stop.
* `OutcomesTerminal` and `CancellationRaises` have a hypothesis: no resource sampler,
  no injector monitor. Without it they are false, which is what the violation
  runs `generator_sampled` and `generator_cancelled` show; the theorems say that
  nothing else is needed. What `CancellationRaises` says of a cancelled run that
  returns all the same is that gather took the cancellation while a `BudgetExceeded`
  was on its way to it: an exception did end the run, but the caller sees the flag
  of `run_ramp` and no `CancelledError`.

**Spend** (`SpendControllerProofs`, `CappedRunProofs`)

* `SpendTypeCorrect`, `StopWarranted`, `ReasonFinal`: the controller.
* `SpendCounted`: the spend is the sum, and the coverage the counts, over the
  identities seen (`Counted`). The library's sum over a set is a recursive function
  whose existence has to be shown: it is for a well-founded relation (`SumExists`),
  it is one function (`SumUnique`), and taking any element out first gives the same
  total (`TotalWithout`), so a charge adds what it costs whichever identity it is of.
* `CappedGenerates`, `CappedControls`: a capped run implements both specifications,
  so everything above holds of it; `NothingBeyondCap` follows from the two halves
  (an exhausted cap means stop is set; stop closes admission), and
  `CompletedWithin` from `StatusExplained`: a run that completed was not stopped.
* `AllCharged` (`ChargedInv`): nothing is charged that has no record, and a recorded
  answer that is not charged is of a session that is failing or has failed.
* `Overshoot` (`OvershootInv`). Each user of a level that waits for an answer may
  still cost one charge; those that do not wait leave `Room`. Then the spend is
  below the cap plus `Room` charges at every moment, not only at the end: dispatching
  takes from the room while the spend is below the cap, an answer gives it back with
  at most one charge. Its hypothesis `TokensBounded` says that token counts have a
  greatest value, without which there is no most expensive charge to bound with.

**One request** (`RunTurnProofs`)

* `TurnInductive`: `TurnInv` ties the locals of `run_turn` to the exchange
  (`LocalsAgree`), says how far the exchange is in each phase (`Progress`) and what
  each reason to leave implies (`ReasonsHold`), and that the outcome is the record of
  that reason (`OutcomeDecided`). `TurnTypeCorrect`, `RecordFaithful`,
  `AbandonmentHonest`, `ErrorAnswers` and `OnlyCancellation` follow from it in one
  state, for any statuses and any number of chunks.

**The command line run** (`CliRunProofs`), for any number of runs in one second, any
options, attempts and sessions, with kills and failed writes anywhere

* `CliInvariant` has four parts. `CliInv`: for each place a run can be at, how far the
  request file may be behind its locals (by one between the evidence and the write,
  never behind the account), which files exist, and that its summaries are among
  the sessions; no step of another run, and no report, takes any of that back.
  `Numbered`: no attempt has two lines. `CliTold`: what may be said of a run's locals at
  each place (`Local`), what metadata stand for whoever else writes them (`Told`),
  and everything that is on disk of a run that has its second for itself (`Sole`).
  `CliFile`: which attempts have a line (`Accounting`), that a line without its end is
  that of a write that broke off (`Cutoff`), and that a lost line shares its own with
  one of another run, one of the two cut off (`Spoilt`).
* `AccountedOnDisk`, `ExitHonest`, and, about what `kneepoint report` makes of the files,
  `Rerendered`, `PartialReported` and `EmptyReported`.

**The fault log** (`FaultLogProofs`)

* `NothingLeftBehind` (`StopInv`): where a proxy is in each phase of its owner, that a hold
  is released before its server leaves, and that no held call is ever cancelled.
* `FaultsReachSessions`. `LogInv`: the log a run will merge has a line for each fault that
  was served, under the call's own header, once, besides what an earlier run left;
  this is where it matters that a fault is recorded before it is served. It covers
  any number of calls of the merging run's sessions, of which the run has one.
  `OfSelects` says what selecting a session's lines returns (induction over the
  length, as the well-foundedness of `<`), and `Attributed` that the counter of the
  merge is the number of faults it put on sessions, by a bijection between the two.

**Analysis and the example agent** (`AnalysisProofs`, `LanternDeskProofs`)

* `EvidenceInvariant`: levels have their types and `seen` is what the levels so far
  disturbed. `LostEvidence` compares the evidence before and after a step;
  `KneeWarranted` needs that least and greatest usable levels exist, which comes
  from the well-foundedness of `<` on the naturals (a library fact).
* `DeskInvariant`: slots held and free add up and a free slot with a queue has a woken
  task (`SlotInv`), the limiter's delay and the time since the last fetch are the same
  number counted from both ends (`LimiterOK`), and only the fetch that holds the lock
  sleeps, no longer than that (`SleepOK`). `SlotsOfTheDesk` and `RateOfTheDesk` follow,
  for any number of requests, slots and workers and any interval, with every
  timeout.
* `StatsOfTheDesk` (`StatsInv`): each request's counters are determined by how far it
  came and what it was answered (`Story`), and each statistic is a count of requests
  by that story, also while calls are under way (`CallsMatch`, `ModelCallsMatch`).

**Assumptions** beyond the ranges of the configuration: `Workers` and `Requests` are
finite sets; markers such as `NotSeen`, `NoRun`, `NoCap`, `Unknown` and `"none"` are not
among the values they stand beside. Token counts are integers, prices and caps
naturals (`Decimal` in the code, in units small enough).

**Model-checked only.** Liveness (`RunEnds`, `TurnEnds`, `HoldsAndStopsEnd`,
`EveryRequestEnds`) needs fairness and `ENABLED`, which this prover does not reason about.
The property of `run_turn_retried` is false of the code and has no theorem; those of the
other two violation runs have the conditional ones above.

## 5. What the code's own texts say otherwise

Besides the violation runs, reading the code against its documents showed:

* `analyze/knee.py`, `knee_range`: "every level the crossing could be under run
  noise". A knee that barely crossed adds the next usable level only, although noise
  could move the crossing further; `KneeIsWarranted` states what does hold of the
  low end.
* `analyze/errors.py` says that `aggregate()` drops a level whose requests all
  failed; it keeps it, with no percentile.
* `docs/output-format.md` promises that with the metadata file `kneepoint report` gives back
  byte for byte the report the run wrote. Two runs started in one second append to one
  request file, and the report of one of them then counts the requests of both.
  `RerenderIsTheReport` shows that it holds of a run that has its second for itself,
  whenever it was killed.
* `docs/book/cost.md` says that the report of a run with a cap of zero cannot be
  regenerated; `rerender.py` accepts its empty request file, and
  `EmptyReportIsZeroCap` shows that it accepts no other.
* `judge/llm_judge.py` says that a judge outage must not kill the run; an answer
  whose content is null raises outside its `except`, and `MergeAndJudge` has that
  outcome.
* `docs/output-format.md:105`: a null status means that no response arrived. After a gap
  timeout or another failure of the stream `run_turn` returns a record without the
  status (and the fault) it had read (`openai_compatible.py:191-210`);
  `RecordTellsTheStream` has the condition under which they are lost.
* `docs/output-format.md:109` calls a request abandoned if the server "had begun
  answering". A read or write timeout before any response also counts as abandoned;
  `AbandonedMeansGaveUp` says what does hold: the request had reached the server.
* `chaos/proxy.py:31-33` allows no hole in the grid to stay silent. The demo reports the
  faults without a session header (`demo/run.py:173-176`) but not those of sessions
  that are not its own; `kneepoint run` reports both.
* `cli.py:529` flushes each record before the accounting sees it, so that evidence is
  there whatever happens. Of a run alone in its second that holds. When two share one,
  a piece of a line that a kill or a full disk leaves is continued by the other run's
  next line, and `kneepoint report` then raises on the file; `AccountedIsOnDisk` and
  `ExitCodeHonest` name this as the only way to lose a line.
* `docs/output-format.md:513-515` has a cancellation propagate. `asyncio.gather` hears of a
  worker's exception one turn of the loop later; a cancellation in between is taken
  by gather, which then raises that exception. If it is `BudgetExceeded`, `run_ramp`
  returns as for any budget, without a monitor. `CancellationEndsRun` allows this and
  nothing else. (The command itself never raises `BudgetExceeded`; callers of
  `run_ramp` with their own `on_record` may.)

## 6. Plan

1. `RunTurn` under the retry loop of `LoadGenerator`: its outcomes refine `Answers`, so
   that a turn's attempts and what they abandoned can be counted together.
2. `CliRun` over `AdmissionControl` instead of its own view of the generator, with the
   refinement proved as that of `LoadGenerator` is.
3. `SpendCounted` and `AllCharged` together: a capped run that completed has spent
   what its request records cost.

## Not modelled

* HTML and charts (`report/html.py`, `chart.py`): layout.
* Timing and scaling statistics, retry amplification, error tables, price
  formulas: arithmetic without state, covered by unit tests on their inputs.
* Configuration: pydantic validation; the ranges it enforces are the assumptions
  on the constants. `init` and `validate` of the command line only read or write one
  file.
* The demo's simulated agent and the local example agent: requests that share
  nothing but an HTTP client.
* The resource sampler's measurements and the prompt corpus's random choice.
* A write of one request record that is split into several system calls (records of
  more than the writer's buffer).
* Two hazards are listed without a property: ramps a Python caller builds outside the
  ranges the command line enforces (`ramp.py:39`), and the demo reading the log of a
  proxy that is still serving (`demo/run.py:173`), which the model makes one step.
