--------------------------- MODULE LoadGenerator ---------------------------
(***************************************************************************)
(* kneepoint/generator: run_ramp (ramp.py) runs the levels of a ramp one   *)
(* after another; run_level (pool.py) runs one worker task per simulated   *)
(* user for the level's hold time; run_session (session.py) is one user's  *)
(* conversation of turns, each of one or more attempts; RunEvidence        *)
(* (lifecycle.py) is what survives however the run ends.                   *)
(*                                                                         *)
(* All of it shares one asyncio event loop: a task runs without            *)
(* interruption until it awaits something that is not ready.  `loop` names *)
(* the task that is running, Idle when every task waits; the steps of a    *)
(* task between two awaits follow each other while it holds the loop, and  *)
(* what comes from outside (stop, cancellation, an answer, a timer) can    *)
(* only be seen when the loop is Idle.                                     *)
(***************************************************************************)
EXTENDS Integers, Sequences, FiniteSets

CONSTANTS
  RampStart, RampStop, RampStep,  \* RampSpec: concurrency first, last and step
  Workers,           \* the identities worker tasks can have
  TurnsMin, TurnsMax,   \* TurnsSpec
  MaxAttempts,       \* RetryPolicy.max_attempts
  ThinkTime,         \* is think_time.max_ms > 0?
  MaxSessions,       \* bound: sessions one worker can start before the deadline
  MonitorInjector, SampleResources,  \* run_level's flags of the same names
  Disturbances,      \* what the environment may do, see below
  MaxCancels,        \* bound: external cancellations of the run
  Idle, Main         \* nobody, and the task that awaits run_ramp

\* stop            somebody sets the stop event (also an observer that is called)
\* observer_raises an observer (attempt start, completion, level) raises
\* budget          a legacy on_record callback raises BudgetExceeded
\* client          opening or closing the shared HTTP client raises
DisturbanceKinds == {"stop", "observer_raises", "budget", "client"}

ASSUME RampAssumption ==
  /\ RampStart \in Nat \ {0}
  /\ RampStop \in Nat
  /\ RampStep \in Nat \ {0}
  /\ RampStart <= RampStop

ASSUME SessionAssumption ==
  /\ TurnsMin \in Nat \ {0}
  /\ TurnsMax \in Nat
  /\ TurnsMin <= TurnsMax
  /\ MaxAttempts \in Nat \ {0}
  /\ MaxSessions \in Nat \ {0}
  /\ MaxCancels \in Nat

ASSUME FlagAssumption ==
  /\ ThinkTime \in BOOLEAN
  /\ MonitorInjector \in BOOLEAN
  /\ SampleResources \in BOOLEAN
  /\ Disturbances \subseteq DisturbanceKinds

ASSUME TaskAssumption ==
  /\ Idle \notin Workers
  /\ Main \notin Workers
  /\ Idle # Main
  /\ IsFiniteSet(Workers)

-----------------------------------------------------------------------------
(* The ramp and the identities of sessions and attempts.                   *)

\* RampSpec.levels: every step-th concurrency from start, and stop at the end.
Levels ==
  {c \in RampStart..RampStop : (c - RampStart) % RampStep = 0} \cup {RampStop}

\* Mutant: the last level falls off the end of the range.
LevelsAfterShort(c) == {l \in Levels : l > c + 1}

\* The levels of the ramp still to run after concurrency c; c = 0 before the first.
LevelsAfter(c) == {l \in Levels : l > c}

\* session_id is a fresh uuid: here the worker of a level and how many sessions
\* that worker had started in it.
SessionId == [concurrency : Levels, worker : Workers, n : 1..MaxSessions]

\* AttemptStart.key: session, concurrency, turn index, attempt number.
Attempt ==
  [concurrency : Levels, worker : Workers, n : 1..MaxSessions,
   turn : 0..(TurnsMax - 1), attempt : 1..MaxAttempts]

SessionOf(a) == [concurrency |-> a.concurrency, worker |-> a.worker, n |-> a.n]

\* Where a worker is: sessions it started in the level, the turns its session
\* drew, the turn and the attempt it is at.
Cursor ==
  [n : 0..MaxSessions, turns : TurnsMin..TurnsMax,
   turn : 0..TurnsMax, attempt : 0..MaxAttempts]

Roles == {"user", "assistant"}

AttemptStatus == {"none", "starting", "stopped", "completed", "failed", "cancelled"}

\* What a RequestRecord tells the generator: ok, or failed with a status
\* _retryable accepts (none at all, 429, 500, 502, 503), or another one.
Answers == {"ok", "retryable", "fatal"}

SessionStatus == {"completed", "stopped", "failed", "cancelled"}

\* A SessionRecord with its entry in session_status; NoSession before it exists.
NoSession == [status |-> "none"]
SessionRecord ==
  [status : SessionStatus, requested : TurnsMin..TurnsMax,
   completed : 0..TurnsMax, transcript : Seq(Roles)]

RunStatus == {"running", "completed", "stopped", "failed", "cancelled", "budget_exceeded"}
Terminal == RunStatus \ {"running"}

\* How a task or the level ends: without exception, or with an exception that
\* the code treats as a cancellation, as BudgetExceeded or as a failure.
Exceptions == {"failed", "budget", "cancelled"}
-----------------------------------------------------------------------------
VARIABLES
  loop,        \* the task running on the event loop, or Idle
  \* the task awaiting run_ramp
  runPc,       \* where run_ramp / run_level is
  level,       \* concurrency of the current level, 0 before the first
  raised,      \* the first exception a task of the level ended with, or none
  gather,      \* the future of gather(*tasks): was it cancelled, is it done?
  exc,         \* the exception leaving run_level, or none
  cancelPending,  \* a cancellation not yet thrown into the task
  cancels,     \* cancellations requested so far
  stop,        \* the asyncio.Event
  \* worker tasks
  pc,          \* where each worker task is
  cancelling,  \* worker tasks that were cancelled and have not seen it yet
  cursor,      \* per worker: where it is in its session
  messages,    \* per worker: the transcript so far, by role
  turnsCompleted,
  status,      \* per worker: run_session's local status
  \* RunEvidence
  attempts,    \* status of each attempt
  dispatched,  \* attempts whose "dispatched" flag is set
  records,     \* the answer in each attempt's RequestRecord, or none
  sessions,    \* the SessionRecord and session_status of each session
  runStatus,   \* evidence.status
  levelStatus  \* evidence.level_status

taskVars == <<pc, cancelling, cursor, messages, turnsCompleted, status>>
mainVars == <<runPc, level, raised, gather, exc, cancelPending, cancels>>
requestEvidence == <<attempts, dispatched, records>>
statusEvidence == <<runStatus, levelStatus>>
evidence == <<requestEvidence, sessions, statusEvidence>>
vars == <<loop, mainVars, stop, taskVars, evidence>>

\* Control points.  "ready" is a task that has not run yet; "request",
\* "backoff" and "think" are the awaits; "session", "turn", "attempt",
\* "settled", "ending" and "raising" are passed while holding the loop.
Awaiting == {"ready", "request", "backoff", "think"}
Running == {"session", "turn", "attempt", "settled", "ending", "raising"}
Finished == {"idle", "returned"} \cup Exceptions

\* "gather", "join", "close", "sampler" and "monitor" are the awaits of the
\* main task; "ramp" and "leave" are passed while holding the loop.
MainAwaiting == {"gather", "join", "close", "sampler", "monitor"}
Ended == {"returned", "raised"}

MainTypes ==
  /\ loop \in Workers \cup {Idle, Main}
  /\ runPc \in MainAwaiting \cup {"ramp", "leave"} \cup Ended
  /\ level \in Levels \cup {0}
  /\ raised \in Exceptions \cup {"none"}
  /\ gather \subseteq {"cancelled", "done"}
  /\ exc \in Exceptions \cup {"none"}
  /\ cancelPending \in BOOLEAN
  /\ cancels \in 0..MaxCancels
  /\ stop \in BOOLEAN

TaskTypes ==
  /\ pc \in [Workers -> Awaiting \cup Running \cup Finished]
  /\ cancelling \subseteq Workers
  /\ cursor \in [Workers -> Cursor]
  /\ messages \in [Workers -> Seq(Roles)]
  /\ turnsCompleted \in [Workers -> 0..TurnsMax]
  /\ status \in [Workers -> SessionStatus]

EvidenceTypes ==
  /\ attempts \in [Attempt -> AttemptStatus]
  /\ dispatched \subseteq Attempt
  /\ records \in [Attempt -> Answers \cup {"none"}]
  /\ sessions \in [SessionId -> SessionRecord \cup {NoSession}]
  /\ runStatus \in RunStatus
  /\ levelStatus \in [Levels -> RunStatus \cup {"none"}]

TypeOK == MainTypes /\ TaskTypes /\ EvidenceTypes

Init ==
  /\ loop = Main
  /\ runPc = "ramp"
  /\ level = 0
  /\ raised = "none"
  /\ gather = {}
  /\ exc = "none"
  /\ cancelPending = FALSE
  /\ cancels = 0
  /\ stop \in {FALSE, "stop" \in Disturbances}
  /\ pc = [w \in Workers |-> "idle"]
  /\ cancelling = {}
  /\ cursor = [w \in Workers |-> [n |-> 0, turns |-> TurnsMin, turn |-> 0, attempt |-> 0]]
  /\ messages = [w \in Workers |-> <<>>]
  /\ turnsCompleted = [w \in Workers |-> 0]
  /\ status = [w \in Workers |-> "completed"]
  /\ attempts = [a \in Attempt |-> "none"]
  /\ dispatched = {}
  /\ records = [a \in Attempt |-> "none"]
  /\ sessions = [s \in SessionId |-> NoSession]
  /\ runStatus = "running"
  /\ levelStatus = [l \in Levels |-> "none"]
-----------------------------------------------------------------------------
(* run_session, as run by worker w.                                        *)

CurrentSession(w) == [concurrency |-> level, worker |-> w, n |-> cursor[w].n]

CurrentAttempt(w) ==
  [concurrency |-> level, worker |-> w, n |-> cursor[w].n,
   turn |-> cursor[w].turn, attempt |-> cursor[w].attempt]

LastRole(w) == messages[w][Len(messages[w])]
Popped(w) == SubSeq(messages[w], 1, Len(messages[w]) - 1)

\* What a synchronous observer can do: return, set stop and return, or raise.
Observation ==
  {"returns"} \cup {o \in {"stops"} : "stop" \in Disturbances}
              \cup {o \in {"raises"} : "observer_raises" \in Disturbances}
StopAfter(o) == stop \/ o = "stops"

\* Moving on without an await, or to an await where others run.
GoOn(w, to) == pc' = [pc EXCEPT ![w] = to] /\ loop' = w
Await(w, to) == pc' = [pc EXCEPT ![w] = to] /\ loop' = Idle

\* A task ends with an exception; gather(*tasks) hears of it later, by its
\* done-callback (GatherIsTold).
TaskRaises(w, e) ==
  /\ Await(w, e)
  /\ raised' = IF raised = "none" THEN e ELSE raised

\* `for turn_index in range(n_turns)` and the stop check at the top of a turn.
EndTurns(w) ==
  /\ loop = w /\ pc[w] = "turn"
  /\ cursor[w].turn = cursor[w].turns
  /\ GoOn(w, "ending")
  /\ UNCHANGED <<mainVars, stop, cancelling, cursor, messages, turnsCompleted, status, evidence>>

StopBeforeTurn(w) ==
  /\ loop = w /\ pc[w] = "turn"
  /\ cursor[w].turn < cursor[w].turns
  /\ stop
  /\ status' = [status EXCEPT ![w] = "stopped"]
  /\ GoOn(w, "ending")
  /\ UNCHANGED <<mainVars, stop, cancelling, cursor, messages, turnsCompleted, evidence>>

BeginTurn(w) ==
  /\ loop = w /\ pc[w] = "turn"
  /\ cursor[w].turn < cursor[w].turns
  /\ ~stop
  /\ messages' = [messages EXCEPT ![w] = Append(@, "user")]
  /\ cursor' = [cursor EXCEPT ![w].attempt = 1]
  /\ GoOn(w, "attempt")
  /\ UNCHANGED <<mainVars, stop, cancelling, turnsCompleted, status, evidence>>

StopBeforeAttempt(w) ==
  /\ loop = w /\ pc[w] = "attempt"
  /\ stop
  /\ status' = [status EXCEPT ![w] = "stopped"]
  /\ GoOn(w, "settled")
  /\ UNCHANGED <<mainVars, stop, cancelling, cursor, messages, turnsCompleted, evidence>>

\* Mutant: stop is not checked again after on_attempt_start.
StopMissedAfterStart(o) == FALSE

\* The attempt is in the evidence before on_attempt_start is called; stop is
\* checked again after it, and only then is the request dispatched.
StopSeenAfterStart(o) == StopAfter(o)

BeginAttempt(w) ==
  /\ loop = w /\ pc[w] = "attempt"
  /\ ~stop
  /\ \E o \in Observation :
       /\ stop' = StopAfter(o)
       /\ \/ /\ o = "raises"
             /\ attempts' = [attempts EXCEPT ![CurrentAttempt(w)] = "starting"]
             /\ status' = [status EXCEPT ![w] = "failed"]
             /\ GoOn(w, "raising")
             /\ UNCHANGED dispatched
          \/ /\ o # "raises"
             /\ StopSeenAfterStart(o)
             /\ attempts' = [attempts EXCEPT ![CurrentAttempt(w)] = "stopped"]
             /\ status' = [status EXCEPT ![w] = "stopped"]
             /\ GoOn(w, "settled")
             /\ UNCHANGED dispatched
          \/ /\ o # "raises"
             /\ ~StopSeenAfterStart(o)
             /\ attempts' = [attempts EXCEPT ![CurrentAttempt(w)] = "starting"]
             /\ dispatched' = dispatched \cup {CurrentAttempt(w)}
             /\ Await(w, "request")
             /\ UNCHANGED status
  /\ UNCHANGED <<mainVars, cancelling, cursor, messages, turnsCompleted,
                 records, sessions, statusEvidence>>

\* Mutants: a failure is retried whatever its status; the observer is called
\* before the attempt is finished.
RetriesAnything(w, answer) == cursor[w].attempt = MaxAttempts
ObservedFirst(o) == IF o = "raises" THEN "starting" ELSE "completed"

\* run_turn never raises: it returns an outcome, whatever happened to the
\* request.  The attempt is finished before on_attempt_complete is called, so
\* it is completed whatever the observer does.
FinishedStatus(o) == "completed"
GivesUp(w, answer) == answer = "fatal" \/ cursor[w].attempt = MaxAttempts

RequestAnswered(w) ==
  /\ loop = Idle /\ pc[w] = "request" /\ w \notin cancelling
  /\ \E answer \in Answers, o \in Observation :
       /\ records' = [records EXCEPT ![CurrentAttempt(w)] = answer]
       /\ attempts' = [attempts EXCEPT ![CurrentAttempt(w)] = FinishedStatus(o)]
       /\ IF answer = "ok"
            THEN /\ messages' = [messages EXCEPT ![w] = Append(@, "assistant")]
                 /\ turnsCompleted' = [turnsCompleted EXCEPT ![w] = @ + 1]
            ELSE UNCHANGED <<messages, turnsCompleted>>
       /\ stop' = StopAfter(o)
       /\ \/ /\ o = "raises"
             /\ status' = [status EXCEPT ![w] = "failed"]
             /\ GoOn(w, "raising")
             /\ UNCHANGED cursor
          \/ /\ o # "raises"
             /\ answer = "ok" \/ GivesUp(w, answer)
             /\ GoOn(w, "settled")
             /\ UNCHANGED <<status, cursor>>
          \/ /\ o # "raises"
             /\ answer # "ok" /\ ~GivesUp(w, answer)
             \* wait_or_stop does not wait when stop is set already
             /\ IF stop'
                  THEN /\ cursor' = [cursor EXCEPT ![w].attempt = @ + 1]
                       /\ GoOn(w, "attempt")
                  ELSE /\ Await(w, "backoff")
                       /\ UNCHANGED cursor
             /\ UNCHANGED status
  /\ UNCHANGED <<mainVars, cancelling, dispatched, sessions, statusEvidence>>

\* wait_or_stop ends by its timer or by stop.  When stop and a cancellation meet
\* in it, wait_for of Python 3.11 returns and later versions raise: either here.
WaitEnds(w) ==
  /\ loop = Idle
  /\ w \notin cancelling \/ stop
  /\ cancelling' = cancelling \ {w}

BackoffEnds(w) ==
  /\ pc[w] = "backoff" /\ WaitEnds(w)
  /\ cursor' = [cursor EXCEPT ![w].attempt = @ + 1]
  /\ GoOn(w, "attempt")
  /\ UNCHANGED <<mainVars, stop, messages, turnsCompleted, status, evidence>>

\* After the attempts of a turn: accepted_text is None exactly when the
\* transcript still ends in the user's message.
DropUnansweredTurn(w) ==
  /\ loop = w /\ pc[w] = "settled"
  /\ LastRole(w) = "user"
  /\ messages' = [messages EXCEPT ![w] = Popped(w)]
  /\ GoOn(w, "ending")
  /\ UNCHANGED <<mainVars, stop, cancelling, cursor, turnsCompleted, status, evidence>>

ThinksAfterTurn(w) == ThinkTime /\ cursor[w].turn < cursor[w].turns - 1 /\ ~stop

EndTurn(w) ==
  /\ loop = w /\ pc[w] = "settled"
  /\ LastRole(w) = "assistant"
  /\ IF ThinksAfterTurn(w)
       THEN /\ Await(w, "think")
            /\ UNCHANGED cursor
       ELSE /\ cursor' = [cursor EXCEPT ![w].turn = @ + 1]
            /\ GoOn(w, "turn")
  /\ UNCHANGED <<mainVars, stop, cancelling, messages, turnsCompleted, status, evidence>>

ThinkEnds(w) ==
  /\ pc[w] = "think" /\ WaitEnds(w)
  /\ cursor' = [cursor EXCEPT ![w].turn = @ + 1]
  /\ GoOn(w, "turn")
  /\ UNCHANGED <<mainVars, stop, messages, turnsCompleted, status, evidence>>

\* The `finally` of run_session.
Summary(w, transcript) ==
  [status |-> status[w], requested |-> cursor[w].turns,
   completed |-> turnsCompleted[w], transcript |-> transcript]

\* Mutant: the last message is dropped, answered or not.
DropsLastMessage(w) == IF Len(messages[w]) > 0 THEN Popped(w) ELSE messages[w]

\* The `except` and the `finally` of run_session: the active attempt takes the
\* session's status, an unanswered user message is dropped, and the exception
\* ends the task.
TranscriptAfterException(w) ==
  IF Len(messages[w]) > 0 /\ LastRole(w) = "user" THEN Popped(w) ELSE messages[w]

HandleException(w) ==
  /\ loop = w /\ pc[w] = "raising"
  /\ attempts' = [attempts EXCEPT ![CurrentAttempt(w)] =
                    IF @ = "starting" THEN status[w] ELSE @]
  /\ messages' = [messages EXCEPT ![w] = TranscriptAfterException(w)]
  /\ sessions' = [sessions EXCEPT ![CurrentSession(w)] =
                    Summary(w, TranscriptAfterException(w))]
  /\ TaskRaises(w, status[w])
  /\ UNCHANGED <<runPc, level, gather, exc, cancelPending, cancels, stop, cancelling, cursor,
                 turnsCompleted, status, dispatched, records, statusEvidence>>
-----------------------------------------------------------------------------
(* The worker task of run_level.                                           *)

\* `while stop is None or not stop.is_set()`, reached when the task first runs
\* and after each session.
AtLoopTop(w) ==
  \/ loop = Idle /\ pc[w] = "ready" /\ w \notin cancelling
  \/ loop = w /\ pc[w] = "session"

StopWorker(w) ==
  /\ AtLoopTop(w)
  /\ stop
  /\ Await(w, "returned")
  /\ UNCHANGED <<mainVars, stop, cancelling, cursor, messages, turnsCompleted, status, evidence>>

StartSession(w) ==
  /\ AtLoopTop(w)
  /\ ~stop
  /\ \E turns \in TurnsMin..TurnsMax :
       cursor' = [cursor EXCEPT ![w] =
                   [n |-> @.n + 1, turns |-> turns, turn |-> 0, attempt |-> 0]]
  /\ messages' = [messages EXCEPT ![w] = <<>>]
  /\ turnsCompleted' = [turnsCompleted EXCEPT ![w] = 0]
  /\ status' = [status EXCEPT ![w] = "completed"]
  /\ GoOn(w, "turn")
  /\ UNCHANGED <<mainVars, stop, cancelling, evidence>>

\* run_session returns; the legacy on_record callback sees its records and may
\* raise BudgetExceeded; then the worker leaves at the deadline or loops.
HasRecord(s) == \E a \in Attempt : SessionOf(a) = s /\ records[a] # "none"

FinishSession(w) ==
  /\ loop = w /\ pc[w] = "ending"
  /\ sessions' = [sessions EXCEPT ![CurrentSession(w)] = Summary(w, messages[w])]
  /\ \/ /\ "budget" \in Disturbances
        /\ HasRecord(CurrentSession(w))
        /\ TaskRaises(w, "budget")
     \/ /\ Await(w, "returned")
        /\ UNCHANGED raised
     \/ /\ cursor[w].n < MaxSessions
        /\ GoOn(w, "session")
        /\ UNCHANGED raised
  /\ UNCHANGED <<runPc, level, gather, exc, cancelPending, cancels, stop, cancelling, cursor,
                 messages, turnsCompleted, status, requestEvidence, statusEvidence>>

\* Mutant: a request in flight cannot be cancelled.
UncancellableRequest == {"backoff", "think"}

\* The awaits inside run_session, all of which a cancellation interrupts.
Cancellable == {"request", "backoff", "think"}

\* A cancelled task resumes with CancelledError: one that never ran just ends,
\* one inside run_session goes through its `except` clause.
CancelUnstarted(w) ==
  /\ loop = Idle /\ w \in cancelling /\ pc[w] = "ready"
  /\ cancelling' = cancelling \ {w}
  /\ TaskRaises(w, "cancelled")
  /\ UNCHANGED <<runPc, level, gather, exc, cancelPending, cancels, stop, cursor, messages,
                 turnsCompleted, status, evidence>>

CancelSession(w) ==
  /\ loop = Idle /\ w \in cancelling /\ pc[w] \in Cancellable
  /\ cancelling' = cancelling \ {w}
  /\ status' = [status EXCEPT ![w] = "cancelled"]
  /\ GoOn(w, "raising")
  /\ UNCHANGED <<mainVars, stop, cursor, messages, turnsCompleted, evidence>>

WorkerStep(w) ==
  \/ StopWorker(w) \/ StartSession(w) \/ FinishSession(w)
  \/ EndTurns(w) \/ StopBeforeTurn(w) \/ BeginTurn(w)
  \/ StopBeforeAttempt(w) \/ BeginAttempt(w) \/ RequestAnswered(w) \/ BackoffEnds(w)
  \/ DropUnansweredTurn(w) \/ EndTurn(w) \/ ThinkEnds(w)
  \/ CancelUnstarted(w) \/ CancelSession(w) \/ HandleException(w)
-----------------------------------------------------------------------------
(* run_level and run_ramp, as run by the main task.                        *)

Undone == {w \in Workers : pc[w] \in Awaiting}

\* The `except` clauses of run_level do not know BudgetExceeded.
StatusOf(e) == IF e = "cancelled" THEN "cancelled" ELSE "failed"

\* Mutant: the level's outcome is forgotten.
SetRunStatusOnly(s) == runStatus' = s /\ UNCHANGED levelStatus

SetStatus(s) ==
  /\ runStatus' = s
  /\ levelStatus' = [levelStatus EXCEPT ![level] = s]

\* The `finally` of run_level awaits the resource sampler, then the monitor.
MainGoesTo(to) == runPc' = to /\ loop' = IF to \in MainAwaiting \cup Ended THEN Idle ELSE Main
AfterSampler == IF MonitorInjector THEN "monitor" ELSE "leave"
AfterClient == IF SampleResources THEN "sampler" ELSE AfterSampler

\* for ... else: every level has run.
EndRamp ==
  /\ loop = Main /\ runPc = "ramp"
  /\ LevelsAfter(level) = {}
  /\ runStatus' = "completed"
  /\ MainGoesTo("returned")
  /\ UNCHANGED <<level, raised, gather, exc, cancelPending, cancels, stop, taskVars,
                 requestEvidence, sessions, levelStatus>>

StopRamp ==
  /\ loop = Main /\ runPc = "ramp"
  /\ LevelsAfter(level) # {}
  /\ stop
  /\ runStatus' = "stopped"
  /\ MainGoesTo("returned")
  /\ UNCHANGED <<level, raised, gather, exc, cancelPending, cancels, stop, taskVars,
                 requestEvidence, sessions, levelStatus>>

EnterLevel(l) ==
  /\ loop = Main /\ runPc = "ramp"
  /\ l \in LevelsAfter(level)
  /\ \A m \in LevelsAfter(level) : l <= m
  /\ ~stop
  /\ level' = l
  /\ raised' = "none"
  /\ gather' = {}
  /\ UNCHANGED <<cancelPending, cancels, stop, cancelling, requestEvidence, sessions>>

\* run_level opens the client and creates one task per simulated user.
StartLevel ==
  /\ \E l \in Levels :
       /\ EnterLevel(l)
       /\ levelStatus' = [levelStatus EXCEPT ![l] = "running"]
       /\ \E tasks \in SUBSET Workers :
            /\ Cardinality(tasks) = l
            /\ pc' = [w \in Workers |-> IF w \in tasks THEN "ready" ELSE "idle"]
  /\ runStatus' = "running"
  /\ exc' = "none"
  /\ cursor' = [w \in Workers |-> [n |-> 0, turns |-> TurnsMin, turn |-> 0, attempt |-> 0]]
  /\ messages' = [w \in Workers |-> <<>>]
  /\ turnsCompleted' = [w \in Workers |-> 0]
  /\ status' = [w \in Workers |-> "completed"]
  /\ MainGoesTo("gather")

\* Opening the client raises: no task was created.
ClientDoesNotOpen ==
  /\ "client" \in Disturbances
  /\ \E l \in Levels :
       /\ EnterLevel(l)
       /\ levelStatus' = [levelStatus EXCEPT ![l] = "failed"]
  /\ runStatus' = "failed"
  /\ exc' = "failed"
  /\ pc' = [w \in Workers |-> "idle"]
  /\ MainGoesTo(AfterClient)
  /\ UNCHANGED <<cursor, messages, turnsCompleted, status>>

\* Callbacks run in the order the tasks ended: the first exception a task ended
\* with is the first that gather hears of, and settles it, cancelled or not.
GatherIsTold ==
  /\ loop = Idle /\ runPc = "gather"
  /\ raised # "none" /\ "done" \notin gather
  /\ gather' = gather \cup {"done"}
  /\ UNCHANGED <<loop, runPc, level, raised, exc, cancelPending, cancels, stop, taskVars, evidence>>

\* gather was cancelled, or else the main task, and no task raised.
CancelledMeanwhile == cancelPending \/ "cancelled" \in gather

GatherReturns ==
  /\ loop = Idle /\ runPc = "gather"
  /\ raised = "none" /\ ~CancelledMeanwhile
  /\ Undone = {}
  /\ MainGoesTo("close")
  /\ UNCHANGED <<level, raised, gather, exc, cancelPending, cancels, stop, taskVars, evidence>>

\* A task raised, or the main task was cancelled: cancel every task not done.
\* Until the main task gets here, the other workers carry on.
ToCancel == Undone

GatherRaises ==
  /\ loop = Idle /\ runPc = "gather"
  /\ \/ "done" \in gather
     \/ raised = "none" /\ Undone = {} /\ CancelledMeanwhile
  /\ exc' = IF cancelPending \/ raised = "none" THEN "cancelled" ELSE raised
  /\ cancelPending' = FALSE
  /\ cancelling' = ToCancel
  /\ MainGoesTo("join")
  /\ UNCHANGED <<level, raised, gather, cancels, stop, pc, cursor, messages, turnsCompleted,
                 status, evidence>>

\* Mutant: the siblings are cancelled but not awaited.
JoinSkipped == TRUE

TasksJoined == Undone = {}

JoinTasks ==
  /\ loop = Idle /\ runPc = "join"
  /\ TasksJoined
  /\ exc' = IF cancelPending THEN "cancelled" ELSE exc
  /\ cancelPending' = FALSE
  \* a cancellation raised here leaves before the inner `except` sets the status
  /\ IF cancelPending THEN UNCHANGED statusEvidence ELSE SetStatus(StatusOf(exc))
  /\ MainGoesTo("close")
  /\ UNCHANGED <<level, raised, gather, cancels, stop, taskVars, requestEvidence, sessions>>

\* Leaving `async with httpx.AsyncClient`, which may raise, and run_level's
\* outer `except`.
CloseClient ==
  /\ loop = Idle /\ runPc = "close"
  /\ \E e \in {exc} \cup {f \in {"failed"} : "client" \in Disturbances} :
       exc' = IF cancelPending THEN "cancelled" ELSE e
  /\ cancelPending' = FALSE
  /\ IF exc' = "none" THEN UNCHANGED statusEvidence ELSE SetStatus(StatusOf(exc'))
  /\ MainGoesTo(AfterClient)
  /\ UNCHANGED <<level, raised, gather, cancels, stop, taskVars, requestEvidence, sessions>>

\* Mutant: a cancellation is discarded with the sampler's own.
SamplerDiscardsCancellation == exc

\* `await asyncio.gather(sampler_task, return_exceptions=True)` in the
\* `finally`: a cancellation here leaves run_level at once.
AfterSamplerJoined == IF cancelPending THEN "cancelled" ELSE exc

JoinSampler ==
  /\ loop = Idle /\ runPc = "sampler"
  /\ exc' = AfterSamplerJoined
  /\ cancelPending' = FALSE
  /\ MainGoesTo(IF cancelPending THEN "leave" ELSE AfterSampler)
  /\ UNCHANGED <<level, raised, gather, cancels, stop, taskVars, evidence>>

\* InjectorMonitor.finish awaits its own cancelled task and discards whatever
\* CancelledError it gets there, its caller's included.
FinishMonitor ==
  /\ loop = Idle /\ runPc = "monitor"
  /\ cancelPending' = FALSE
  /\ MainGoesTo("leave")
  /\ UNCHANGED <<level, raised, gather, exc, cancels, stop, taskVars, evidence>>

\* Mutants: stop is forgotten when the level is over; run_ramp's first `except`
\* is widened to Exception.
LevelOutcomeIgnoresStop == "completed"
CaughtAsException == {"budget", "failed"}

\* run_level returns, run_ramp calls on_level and checks stop.
LevelOutcome == IF stop THEN "stopped" ELSE "completed"

ReturnFromLevel ==
  /\ loop = Main /\ runPc = "leave"
  /\ exc = "none"
  /\ levelStatus' = [levelStatus EXCEPT ![level] = LevelOutcome]
  /\ \E o \in Observation :
       /\ stop' = StopAfter(o)
       /\ \/ /\ o = "raises"
             /\ runStatus' = "failed"
             /\ MainGoesTo("raised")
          \/ /\ o # "raises"
             /\ stop'
             /\ runStatus' = "stopped"
             /\ MainGoesTo("returned")
          \/ /\ o # "raises"
             /\ ~stop'
             /\ runStatus' = LevelOutcome
             /\ MainGoesTo("ramp")
  /\ UNCHANGED <<level, raised, gather, exc, cancelPending, cancels, taskVars,
                 requestEvidence, sessions>>

\* run_ramp's `except BudgetExceeded`: the ramp returns with its flag set.
CaughtAsBudget == {"budget"}

BudgetEndsRamp ==
  /\ loop = Main /\ runPc = "leave"
  /\ exc \in CaughtAsBudget
  /\ SetStatus("budget_exceeded")
  /\ MainGoesTo("returned")
  /\ UNCHANGED <<level, raised, gather, exc, cancelPending, cancels, stop, taskVars,
                 requestEvidence, sessions>>

RaiseFromLevel ==
  /\ loop = Main /\ runPc = "leave"
  /\ exc \in Exceptions \ CaughtAsBudget
  /\ runStatus' = StatusOf(exc)
  /\ MainGoesTo("raised")
  /\ UNCHANGED <<level, raised, gather, exc, cancelPending, cancels, stop, taskVars,
                 requestEvidence, sessions, levelStatus>>

MainStep ==
  \/ EndRamp \/ StopRamp \/ StartLevel \/ ClientDoesNotOpen
  \/ GatherReturns \/ GatherRaises \/ JoinTasks \/ CloseClient
  \/ JoinSampler \/ FinishMonitor
  \/ ReturnFromLevel \/ BudgetEndsRamp \/ RaiseFromLevel
-----------------------------------------------------------------------------
(* What comes from outside while every task waits.                         *)

SetStop ==
  /\ "stop" \in Disturbances
  /\ loop = Idle /\ runPc \notin Ended
  /\ ~stop
  /\ stop' = TRUE
  /\ UNCHANGED <<loop, mainVars, taskVars, evidence>>

\* A gather that is not done takes the cancellation of its awaiter when it can
\* pass it on to a task, also while the news of an exception is on its way.
GatherTakesCancellation == runPc = "gather" /\ "done" \notin gather /\ Undone # {}

\* task.cancel() on the task awaiting run_ramp: the unfinished workers are
\* cancelled through gather, or CancelledError is thrown into the task itself.
CancelRun ==
  /\ cancels < MaxCancels
  /\ loop = Idle /\ runPc \in MainAwaiting
  /\ cancels' = cancels + 1
  /\ IF GatherTakesCancellation
       THEN /\ gather' = gather \cup {"cancelled"}
            /\ cancelling' = Undone
            /\ UNCHANGED cancelPending
       ELSE /\ cancelPending' = TRUE
            /\ UNCHANGED <<gather, cancelling>>
  /\ UNCHANGED <<loop, runPc, level, raised, exc, stop, pc, cursor, messages, turnsCompleted,
                 status, evidence>>

\* The run is over and nothing is left to do.
Terminated == runPc \in Ended /\ UNCHANGED vars

Next ==
  \/ \E w \in Workers : WorkerStep(w)
  \/ MainStep
  \/ GatherIsTold
  \/ SetStop
  \/ CancelRun
  \/ Terminated

Spec == Init /\ [][Next]_vars

\* The event loop keeps running what is ready; nobody owes a stop or a
\* cancellation.  Every await of the generator ends by itself: requests by
\* run_turn's wall clock, waits by their timers, sessions by the deadline.
FairSpec == Spec /\ WF_vars(MainStep \/ GatherIsTold \/ \E w \in Workers : WorkerStep(w))
-----------------------------------------------------------------------------
(* Correctness.                                                            *)

\* lifecycle.py:31-32: a RequestRecord exists for the completed attempts and
\* only for them, whatever observers, stop and cancellation do; what was
\* recorded was dispatched, and an attempt ended by stop never was.
RecordsMatchAttempts ==
  \A a \in Attempt :
    /\ records[a] # "none" <=> attempts[a] = "completed"
    /\ attempts[a] = "completed" => a \in dispatched
    /\ a \in dispatched => attempts[a] \in {"starting", "completed", "failed", "cancelled"}

\* The attempts that made it into a session's records as successes.
Accepted(s) == {a \in Attempt : SessionOf(a) = s /\ records[a] = "ok"}

\* session.py:116-149: every session summary, also one cut short by an
\* exception, counts as many turns as it has successful request records, and
\* its transcript holds just those turns, each a user and an assistant message.
SummariesMatchRecords ==
  \A s \in SessionId : sessions[s] # NoSession =>
    /\ sessions[s].completed = Cardinality(Accepted(s))
    /\ Len(sessions[s].transcript) = 2 * sessions[s].completed
    /\ \A i \in DOMAIN sessions[s].transcript :
         sessions[s].transcript[i] = IF i % 2 = 1 THEN "user" ELSE "assistant"

\* session.py:84-129: a retry follows a retryable answer to the attempt before
\* it, and a later turn follows an accepted attempt of the turn before it.
RetryDiscipline ==
  \A a \in Attempt : attempts[a] # "none" =>
    /\ a.attempt > 1 => records[[a EXCEPT !.attempt = @ - 1]] = "retryable"
    /\ a.turn > 0 =>
         \E i \in 1..MaxAttempts :
           records[[a EXCEPT !.turn = @ - 1, !.attempt = i]] = "ok"

\* docs/output-format.md:492-493 (failure or cancellation joins the siblings
\* before the client closes): outside gather and join no worker task is left,
\* no attempt is left open, and every session that made an attempt has its
\* summary.
NothingLeftRunning ==
  runPc \notin {"gather", "join"} =>
    /\ \A w \in Workers : pc[w] \in Finished
    /\ \A a \in Attempt : attempts[a] # "starting"
    /\ \A a \in Attempt : attempts[a] # "none" => sessions[SessionOf(a)] # NoSession

\* pool.py:42-43: in a level that completed, each of its workers completed at
\* least one session, and no session was cut short.
CompletedLevelServedEveryWorker ==
  \A l \in Levels : levelStatus[l] = "completed" =>
    /\ Cardinality({s \in SessionId : s.concurrency = l /\ s.n = 1
                                       /\ sessions[s].status = "completed"}) = l
    /\ \A s \in SessionId : s.concurrency = l => sessions[s].status \in {"none", "completed"}

\* What became of a run that the exception e of a worker ended.
RunStatusOf(e) == IF e = "budget" THEN "budget_exceeded" ELSE e

\* ramp.py:77-107: how the run ended agrees with what its tasks and levels went
\* through.  The first exception a worker ended with decides, unless a
\* cancellation or a failing client came on top of it; no run is failed,
\* cancelled or out of budget without cause, and none passes over a failure.
RunStatusExplained ==
  runPc \in Ended =>
    /\ runPc = "raised" <=> runStatus \in {"failed", "cancelled"}
    /\ runStatus = "completed" => ~stop /\ \A l \in Levels : levelStatus[l] = "completed"
    /\ runStatus = "stopped" => stop
    /\ runStatus \in {"completed", "stopped"} =>
         /\ \A s \in SessionId : sessions[s].status \notin {"failed", "cancelled"}
         /\ \A w \in Workers : pc[w] \notin Exceptions
    /\ runStatus = "cancelled" => cancels > 0
    /\ runStatus = "budget_exceeded" =>
         raised = "budget" /\ \E w \in Workers : pc[w] = "budget"
    /\ runStatus = "failed" =>
         \/ raised = "failed" /\ \E w \in Workers : pc[w] = "failed"
         \/ exc = "failed" /\ "client" \in Disturbances
         \* on_level raised
         \/ /\ raised = "none" /\ "observer_raises" \in Disturbances
            /\ levelStatus[level] \in {"completed", "stopped"}
    /\ raised # "none" =>
         \/ runStatus = RunStatusOf(raised)
         \/ runStatus = "cancelled"
         \/ runStatus = "failed" /\ "client" \in Disturbances

\* schemas.py:197 ("terminal outcome per level"): once the run has ended, no
\* level it started is still reported as running.
LevelOutcomeTerminal ==
  runPc \in Ended => \A l \in Levels : levelStatus[l] # "running"

\* An external cancellation of the run ends it with an exception: run_ramp only
\* returns from one that gather took (pool.py:91) when a worker's BudgetExceeded
\* was on its way to it already, and the siblings were cancelled with it.
CancellationEndsRun ==
  runPc = "returned" /\ cancels > 0 => exc = "budget" /\ "cancelled" \in gather

\* docs/output-format.md:490-491 (stop prevents new attempts, turns and
\* sessions): a step that ends with stop set dispatches nothing, not even when
\* it is the attempt's own start observer that set it; once stop was set no
\* attempt starts; and neither happens once the main task has cancelled the
\* workers of its level.
AdmissionClosed ==
  [][/\ stop' \/ runPc = "join" => dispatched' = dispatched
     /\ stop \/ runPc = "join" =>
          \A a \in Attempt : attempts[a] = "none" => attempts'[a] = "none"]_vars

\* Every request settles and every run ends, in spite of failures, stop and
\* cancellation: nobody waits for a task that cannot finish.
RunEnds == <>(runPc \in Ended)

-----------------------------------------------------------------------------
(* The inductive invariant behind the safety properties above.             *)

InSession ==
  {"turn", "attempt", "request", "backoff", "settled", "think", "ending", "raising"}
InAttempt == {"attempt", "request", "backoff", "settled", "think", "raising"}

\* Who holds the loop, and that workers only live between gather and join.
LoopInv ==
  /\ \A w \in Workers : pc[w] \in Running <=> loop = w
  /\ loop = Main <=> runPc \in {"ramp", "leave"}
  /\ runPc \notin {"gather", "join"} => \A w \in Workers : pc[w] \in Finished
  /\ runPc \in MainAwaiting \cup {"leave"} => level \in Levels

\* Where a worker's cursor and transcript stand at each of its control points.
WellPlaced(w) ==
  /\ pc[w] = "ready" => cursor[w].n = 0
  /\ pc[w] = "session" => cursor[w].n < MaxSessions
  /\ pc[w] \in InSession => cursor[w].n >= 1
  /\ pc[w] = "turn" => turnsCompleted[w] = cursor[w].turn
  /\ pc[w] \in InAttempt => cursor[w].turn < cursor[w].turns /\ cursor[w].attempt >= 1
  /\ pc[w] \in {"attempt", "request", "backoff"} =>
       turnsCompleted[w] = cursor[w].turn /\ messages[w] # <<>> /\ LastRole(w) = "user"
  /\ pc[w] = "backoff" => cursor[w].attempt < MaxAttempts
  /\ pc[w] = "settled" =>
       /\ messages[w] # <<>>
       /\ LastRole(w) = "assistant" => turnsCompleted[w] = cursor[w].turn + 1
  /\ pc[w] = "think" => turnsCompleted[w] = cursor[w].turn + 1
  /\ pc[w] = "raising" => status[w] \in {"failed", "cancelled"}

CursorInv == \A w \in Workers : WellPlaced(w)

\* The attempts of a worker's current session lie behind its cursor, so the
\* attempt it is about to start is a new one.
BehindCursor(a) ==
  LET w == a.worker IN
  /\ a.n <= cursor[w].n
  /\ a.n = cursor[w].n =>
       /\ pc[w] = "turn" => a.turn < cursor[w].turn
       /\ pc[w] = "attempt" =>
            a.turn < cursor[w].turn \/ (a.turn = cursor[w].turn /\ a.attempt < cursor[w].attempt)
       /\ pc[w] \in {"request", "backoff", "settled", "think"} =>
            a.turn < cursor[w].turn \/ (a.turn = cursor[w].turn /\ a.attempt <= cursor[w].attempt)

\* Attempts are of this level or an earlier one, and behind their worker's cursor.
AttemptsBehindCursor ==
  \A a \in Attempt : attempts[a] # "none" =>
    a.concurrency <= level /\ (a.concurrency = level => BehindCursor(a))

\* The open attempts are the current ones of the workers that await an answer
\* or handle an exception.
OpenAttempts ==
  /\ \A a \in Attempt : attempts[a] = "starting" =>
       a = CurrentAttempt(a.worker) /\ pc[a.worker] \in {"request", "raising"}
  /\ \A w \in Workers : pc[w] = "request" =>
       attempts[CurrentAttempt(w)] = "starting" /\ CurrentAttempt(w) \in dispatched

\* An attempt whose session has no summary belongs to a session in progress.
UnsummarisedInProgress ==
  \A a \in Attempt : attempts[a] # "none" /\ sessions[SessionOf(a)] = NoSession =>
    /\ a.concurrency = level
    /\ a.n = cursor[a.worker].n
    /\ pc[a.worker] \in InSession

\* While the main task awaits the cancelled workers, they can only unwind, or
\* end their sessions because of stop.
Unwinding ==
  runPc = "join" => \A w \in Workers :
    \/ pc[w] \in Finished \cup {"raising"}
    \/ pc[w] \in Awaiting /\ w \in cancelling
    \/ pc[w] \in Running /\ stop

IndInv ==
  /\ TypeOK /\ LoopInv /\ CursorInv /\ RecordsMatchAttempts
  /\ AttemptsBehindCursor /\ OpenAttempts /\ UnsummarisedInProgress /\ Unwinding
-----------------------------------------------------------------------------
\* The generator implements the admission promise of AdmissionControl.
Admission == INSTANCE AdmissionControl WITH
  Request <- Attempt,
  admitted <- dispatched,
  settled <- {a \in dispatched : attempts[a] # "starting"},
  open <- ~stop,
  over <- runPc \in Ended
AdmissionSpec == Admission!Spec
=============================================================================
