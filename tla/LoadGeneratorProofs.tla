------------------------ MODULE LoadGeneratorProofs ------------------------
(***************************************************************************)
(* What holds of the generator for every value of the constants.           *)
(*  1. IndInv is an invariant, and with it TypeOK, RecordsMatchAttempts    *)
(*     and NothingLeftRunning: first the steps of a worker, one lemma per  *)
(*     conjunct, then those of the main task, then stop and cancellation.  *)
(*  2. Admission: stop and cancellation close it, and every step is a step *)
(*     of AdmissionControl or leaves its variables alone (refinement).     *)
(*  3. Conversations: summaries agree with the records (TallyInv).         *)
(*  4. Retries: every attempt is warranted by the one before (RetryInv).   *)
(*  5. Outcomes: how levels and the run end is explained by what happened  *)
(*     in them (OutcomeInv, ServedInv).                                    *)
(***************************************************************************)
EXTENDS LoadGenerator, FiniteSetTheorems, SequenceTheorems, TLAPS

\* The identities a worker uses for its session and its attempt are legal ones.
LEMMA CurrentTypes ==
  ASSUME TypeOK, NEW w \in Workers, level \in Levels, cursor[w].n >= 1
  PROVE  /\ CurrentSession(w) \in SessionId
         /\ cursor[w].turn < cursor[w].turns /\ cursor[w].attempt >= 1
              => CurrentAttempt(w) \in Attempt
  BY SessionAssumption DEF TypeOK, MainTypes, TaskTypes, Cursor, CurrentSession, CurrentAttempt, SessionId, Attempt

\* Dropping the last message of a transcript leaves a transcript.
LEMMA PoppedType ==
  ASSUME NEW s \in Seq(Roles), s # <<>>
  PROVE  SubSeq(s, 1, Len(s) - 1) \in Seq(Roles)
  OBVIOUS

\* Moving a cursor to another attempt leaves it a cursor.
LEMMA SetAttempt ==
  ASSUME cursor \in [Workers -> Cursor], NEW w \in Workers, NEW k \in 0..MaxAttempts
  PROVE  [cursor EXCEPT ![w].attempt = k] \in [Workers -> Cursor]
<1>1. [cursor[w] EXCEPT !.attempt = k] \in Cursor
  BY DEF Cursor
<1> QED BY <1>1

\* Moving a cursor to another turn leaves it a cursor.
LEMMA SetTurn ==
  ASSUME cursor \in [Workers -> Cursor], NEW w \in Workers, NEW k \in 0..TurnsMax
  PROVE  [cursor EXCEPT ![w].turn = k] \in [Workers -> Cursor]
<1>1. [cursor[w] EXCEPT !.turn = k] \in Cursor
  BY DEF Cursor
<1> QED BY <1>1

\* A worker's step keeps the types of the worker tasks' variables.
LEMMA WorkerTaskTypes ==
  ASSUME TaskTypes, CursorInv, NEW w \in Workers, WorkerStep(w)
  PROVE  TaskTypes'
<1> USE DEF GoOn, Await, TaskRaises
<1>a. cursor \in [Workers -> Cursor] /\ cursor[w] \in Cursor
  BY DEF TaskTypes
<1>b. messages \in [Workers -> Seq(Roles)] /\ messages[w] \in Seq(Roles)
  BY DEF TaskTypes
<1>c. turnsCompleted \in [Workers -> 0..TurnsMax]
  BY DEF TaskTypes
<1>1. CASE StopWorker(w)
  BY <1>1 DEF StopWorker, TaskTypes, Finished
<1>2. CASE StartSession(w)
  <2>1. PICK turns \in TurnsMin..TurnsMax :
          cursor' = [cursor EXCEPT ![w] =
                      [n |-> @.n + 1, turns |-> turns, turn |-> 0, attempt |-> 0]]
    BY <1>2 DEF StartSession
  <2>2. cursor[w].n < MaxSessions
    <3>1. pc[w] = "ready" \/ pc[w] = "session"
      BY <1>2 DEF StartSession, AtLoopTop
    <3> QED
      BY <3>1, SessionAssumption DEF CursorInv, WellPlaced, InAttempt
  <2>3. [n |-> cursor[w].n + 1, turns |-> turns, turn |-> 0, attempt |-> 0] \in Cursor
    BY <1>a, <2>2, SessionAssumption DEF Cursor
  <2>4. cursor' \in [Workers -> Cursor]
    BY <1>a, <2>1, <2>3
  <2>5. messages' \in [Workers -> Seq(Roles)]
    BY <1>b, <1>2 DEF StartSession
  <2>6. turnsCompleted' \in [Workers -> 0..TurnsMax]
    BY <1>c, <1>2, SessionAssumption DEF StartSession
  <2> QED
    BY <1>2, <2>4, <2>5, <2>6 DEF StartSession, TaskTypes, Running, SessionStatus
<1>3. CASE FinishSession(w)
  BY <1>3 DEF FinishSession, TaskTypes, Running, Finished, Exceptions
<1>4. CASE EndTurns(w)
  BY <1>4 DEF EndTurns, TaskTypes, Running
<1>5. CASE StopBeforeTurn(w)
  BY <1>5 DEF StopBeforeTurn, TaskTypes, Running, SessionStatus
<1>6. CASE BeginTurn(w)
  <2>1. [cursor EXCEPT ![w].attempt = 1] \in [Workers -> Cursor]
    BY <1>a, SetAttempt, SessionAssumption
  <2>2. cursor' \in [Workers -> Cursor]
    BY <1>6, <2>1 DEF BeginTurn
  <2>3. Append(messages[w], "user") \in Seq(Roles)
    BY <1>b DEF Roles
  <2>4. messages' \in [Workers -> Seq(Roles)]
    BY <1>b, <1>6, <2>3 DEF BeginTurn
  <2> QED
    BY <1>6, <2>2, <2>4 DEF BeginTurn, TaskTypes, Running
<1>7. CASE StopBeforeAttempt(w)
  BY <1>7 DEF StopBeforeAttempt, TaskTypes, Running, SessionStatus
<1>8. CASE BeginAttempt(w)
  BY <1>8 DEF BeginAttempt, TaskTypes, Awaiting, Running, SessionStatus
<1>9. CASE RequestAnswered(w)
  <2>1. cursor' \in [Workers -> Cursor]
    <3>1. CASE UNCHANGED cursor
      BY <1>a, <3>1
    <3>2. CASE cursor' = [cursor EXCEPT ![w].attempt = @ + 1] /\ cursor[w].attempt # MaxAttempts
      <4>1. cursor[w].attempt + 1 \in 0..MaxAttempts
        BY <1>a, <3>2, SessionAssumption DEF Cursor
      <4> QED
        BY <1>a, <3>2, <4>1, SetAttempt
    <3> QED
      BY <1>9, <3>1, <3>2 DEF RequestAnswered, GivesUp
  <2>2. Append(messages[w], "assistant") \in Seq(Roles)
    BY <1>b DEF Roles
  <2>3. messages' \in [Workers -> Seq(Roles)]
    BY <1>b, <1>9, <2>2 DEF RequestAnswered
  <2>4. turnsCompleted[w] + 1 \in 0..TurnsMax
    <3>1. turnsCompleted[w] = cursor[w].turn /\ cursor[w].turn < cursor[w].turns
      BY <1>9 DEF RequestAnswered, CursorInv, WellPlaced, InAttempt
    <3> QED
      BY <1>a, <3>1, SessionAssumption DEF Cursor
  <2>5. turnsCompleted' \in [Workers -> 0..TurnsMax]
    BY <1>c, <1>9, <2>4 DEF RequestAnswered
  <2>6. status' \in [Workers -> SessionStatus]
    BY <1>9 DEF RequestAnswered, TaskTypes, SessionStatus
  <2>7. pc' \in [Workers -> Awaiting \cup Running \cup Finished]
    BY <1>9 DEF RequestAnswered, TaskTypes, Running, Awaiting
  <2> QED
    BY <1>9, <2>1, <2>3, <2>5, <2>6, <2>7 DEF RequestAnswered, TaskTypes
<1>10. CASE BackoffEnds(w)
  <2>1. cursor[w].attempt < MaxAttempts
    BY <1>10 DEF BackoffEnds, WaitEnds, CursorInv, WellPlaced, InAttempt
  <2>2. cursor[w].attempt + 1 \in 0..MaxAttempts
    BY <1>a, <2>1, SessionAssumption DEF Cursor
  <2>3. cursor' \in [Workers -> Cursor]
    BY <1>a, <1>10, <2>2, SetAttempt DEF BackoffEnds, WaitEnds
  <2> QED
    BY <1>10, <2>3 DEF BackoffEnds, WaitEnds, TaskTypes, Running
<1>11. CASE DropUnansweredTurn(w)
  <2>1. messages[w] # <<>>
    BY <1>11 DEF DropUnansweredTurn, CursorInv, WellPlaced, InAttempt
  <2>2. Popped(w) \in Seq(Roles)
    BY <1>b, <2>1, PoppedType DEF Popped
  <2>3. messages' \in [Workers -> Seq(Roles)]
    BY <1>b, <1>11, <2>2 DEF DropUnansweredTurn
  <2> QED
    BY <1>11, <2>3 DEF DropUnansweredTurn, TaskTypes, Running
<1>12. CASE EndTurn(w)
  <2>1. cursor[w].turn < cursor[w].turns
    BY <1>12 DEF EndTurn, CursorInv, WellPlaced, InAttempt
  <2>2. cursor[w].turn + 1 \in 0..TurnsMax
    BY <1>a, <2>1, SessionAssumption DEF Cursor
  <2>3. cursor' \in [Workers -> Cursor]
    <3>1. CASE UNCHANGED cursor
      BY <1>a, <3>1
    <3>2. CASE cursor' = [cursor EXCEPT ![w].turn = @ + 1]
      BY <1>a, <2>2, <3>2, SetTurn
    <3> QED
      BY <1>12, <3>1, <3>2 DEF EndTurn
  <2> QED
    BY <1>12, <2>3 DEF EndTurn, TaskTypes, Running, Awaiting
<1>13. CASE ThinkEnds(w)
  <2>1. cursor[w].turn < cursor[w].turns
    BY <1>13, <1>a DEF ThinkEnds, WaitEnds, CursorInv, WellPlaced, InAttempt, Cursor
  <2>2. cursor[w].turn + 1 \in 0..TurnsMax
    BY <1>a, <2>1, SessionAssumption DEF Cursor
  <2>3. cursor' \in [Workers -> Cursor]
    BY <1>a, <1>13, <2>2, SetTurn DEF ThinkEnds, WaitEnds
  <2> QED
    BY <1>13, <2>3 DEF ThinkEnds, WaitEnds, TaskTypes, Running
<1>14. CASE CancelUnstarted(w)
  BY <1>14 DEF CancelUnstarted, TaskTypes, Finished, Exceptions
<1>15. CASE CancelSession(w)
  BY <1>15 DEF CancelSession, TaskTypes, Running, SessionStatus
<1>16. CASE HandleException(w)
  <2>1. TranscriptAfterException(w) \in Seq(Roles)
    <3>1. Len(messages[w]) > 0 => messages[w] # <<>>
      BY <1>b
    <3> QED
      BY <1>b, <3>1, PoppedType DEF TranscriptAfterException, Popped
  <2>2. messages' \in [Workers -> Seq(Roles)]
    BY <1>b, <1>16, <2>1 DEF HandleException
  <2>3. status[w] \in {"failed", "cancelled"}
    BY <1>16 DEF HandleException, CursorInv, WellPlaced, InAttempt
  <2> QED
    BY <1>16, <2>2, <2>3 DEF HandleException, TaskTypes, Finished, Exceptions
<1> QED
  BY <1>1, <1>2, <1>3, <1>4, <1>5, <1>6, <1>7, <1>8, <1>9, <1>10, <1>11, <1>12,
     <1>13, <1>14, <1>15, <1>16 DEF WorkerStep

\* A worker's step keeps the types of the loop and of the main task's variables.
LEMMA WorkerMainTypes ==
  ASSUME MainTypes, CursorInv, NEW w \in Workers, WorkerStep(w)
  PROVE  MainTypes'
<1> USE DEF GoOn, Await, mainVars
<1>1. CASE StopWorker(w)
  BY <1>1 DEF StopWorker, MainTypes
<1>2. CASE StartSession(w)
  BY <1>2 DEF StartSession, MainTypes
<1>3. CASE FinishSession(w)
  BY <1>3 DEF FinishSession, MainTypes, TaskRaises, Exceptions
<1>4. CASE EndTurns(w)
  BY <1>4 DEF EndTurns, MainTypes
<1>5. CASE StopBeforeTurn(w)
  BY <1>5 DEF StopBeforeTurn, MainTypes
<1>6. CASE BeginTurn(w)
  BY <1>6 DEF BeginTurn, MainTypes
<1>7. CASE StopBeforeAttempt(w)
  BY <1>7 DEF StopBeforeAttempt, MainTypes
<1>8. CASE BeginAttempt(w)
  <2>1. stop' \in BOOLEAN
    BY <1>8 DEF BeginAttempt, StopAfter
  <2> QED
    BY <1>8, <2>1 DEF BeginAttempt, MainTypes
<1>9. CASE RequestAnswered(w)
  <2>1. stop' \in BOOLEAN
    BY <1>9 DEF RequestAnswered, StopAfter
  <2> QED
    BY <1>9, <2>1 DEF RequestAnswered, MainTypes
<1>10. CASE BackoffEnds(w)
  BY <1>10 DEF BackoffEnds, WaitEnds, MainTypes
<1>11. CASE DropUnansweredTurn(w)
  BY <1>11 DEF DropUnansweredTurn, MainTypes
<1>12. CASE EndTurn(w)
  BY <1>12 DEF EndTurn, MainTypes
<1>13. CASE ThinkEnds(w)
  BY <1>13 DEF ThinkEnds, WaitEnds, MainTypes
<1>14. CASE CancelUnstarted(w)
  BY <1>14 DEF CancelUnstarted, MainTypes, TaskRaises, Exceptions
<1>15. CASE CancelSession(w)
  BY <1>15 DEF CancelSession, MainTypes
<1>16. CASE HandleException(w)
  <2>1. status[w] \in {"failed", "cancelled"}
    BY <1>16 DEF HandleException, CursorInv, WellPlaced
  <2> QED
    BY <1>16, <2>1 DEF HandleException, MainTypes, TaskRaises, Exceptions
<1> QED
  BY <1>1, <1>2, <1>3, <1>4, <1>5, <1>6, <1>7, <1>8, <1>9, <1>10, <1>11, <1>12,
     <1>13, <1>14, <1>15, <1>16 DEF WorkerStep

\* A worker's step moves only that worker, and touches the evidence in four
\* of its actions.
LEMMA WorkerMoves ==
  ASSUME CursorInv, NEW w \in Workers, WorkerStep(w)
  PROVE  /\ pc[w] \in Awaiting \cup Running
         /\ loop \in {Idle, w}
         /\ UNCHANGED <<runPc, level, statusEvidence>>
         /\ \/ \E to \in Running : GoOn(w, to)
            \/ \E to \in Awaiting \cup Finished : Await(w, to)
<1> USE DEF Awaiting, Running, Finished, Exceptions, mainVars, evidence, TaskRaises
<1>1. CASE StopWorker(w) \/ StartSession(w)
  BY <1>1 DEF StopWorker, StartSession, AtLoopTop
<1>2. CASE FinishSession(w)
  BY <1>2 DEF FinishSession
<1>3. CASE EndTurns(w) \/ StopBeforeTurn(w) \/ BeginTurn(w) \/ StopBeforeAttempt(w)
  BY <1>3 DEF EndTurns, StopBeforeTurn, BeginTurn, StopBeforeAttempt
<1>4. CASE BeginAttempt(w)
  BY <1>4 DEF BeginAttempt
<1>5. CASE RequestAnswered(w)
  BY <1>5 DEF RequestAnswered
<1>6. CASE BackoffEnds(w) \/ DropUnansweredTurn(w) \/ EndTurn(w) \/ ThinkEnds(w)
  BY <1>6 DEF BackoffEnds, WaitEnds, DropUnansweredTurn, EndTurn, ThinkEnds
<1>7. CASE CancelUnstarted(w) \/ CancelSession(w)
  BY <1>7 DEF CancelUnstarted, CancelSession, Cancellable
<1>8. CASE HandleException(w)
  BY <1>8 DEF HandleException, CursorInv, WellPlaced
<1> QED
  BY <1>1, <1>2, <1>3, <1>4, <1>5, <1>6, <1>7, <1>8 DEF WorkerStep

\* A worker's step leaves the other workers where they are.
LEMMA OtherWorkersStay ==
  ASSUME TaskTypes, NEW w \in Workers, WorkerStep(w), NEW v \in Workers, v # w
  PROVE  /\ pc'[v] = pc[v] /\ cursor'[v] = cursor[v] /\ messages'[v] = messages[v]
         /\ turnsCompleted'[v] = turnsCompleted[v] /\ status'[v] = status[v]
<1> USE DEF TaskTypes, GoOn, Await, TaskRaises
<1>1. CASE StopWorker(w) \/ StartSession(w)
  BY <1>1 DEF StopWorker, StartSession
<1>2. CASE FinishSession(w)
  BY <1>2 DEF FinishSession
<1>3. CASE EndTurns(w) \/ StopBeforeTurn(w) \/ BeginTurn(w) \/ StopBeforeAttempt(w)
  BY <1>3 DEF EndTurns, StopBeforeTurn, BeginTurn, StopBeforeAttempt
<1>4. CASE BeginAttempt(w)
  BY <1>4 DEF BeginAttempt
<1>5. CASE RequestAnswered(w)
  BY <1>5 DEF RequestAnswered
<1>6. CASE BackoffEnds(w) \/ DropUnansweredTurn(w) \/ EndTurn(w) \/ ThinkEnds(w)
  BY <1>6 DEF BackoffEnds, WaitEnds, DropUnansweredTurn, EndTurn, ThinkEnds
<1>7. CASE CancelUnstarted(w) \/ CancelSession(w)
  BY <1>7 DEF CancelUnstarted, CancelSession
<1>8. CASE HandleException(w)
  BY <1>8 DEF HandleException
<1> QED
  BY <1>1, <1>2, <1>3, <1>4, <1>5, <1>6, <1>7, <1>8 DEF WorkerStep

\* A worker's step keeps LoopInv: it either holds the loop or gave it back.
LEMMA WorkerLoopInv ==
  ASSUME TaskTypes, CursorInv, LoopInv, NEW w \in Workers, WorkerStep(w)
  PROVE  LoopInv'
<1>1. runPc \in {"gather", "join"}
  BY WorkerMoves DEF LoopInv, Awaiting, Running, Finished, Exceptions
<1>2. UNCHANGED <<runPc, level>>
  BY WorkerMoves
<1>3. ASSUME NEW v \in Workers PROVE pc'[v] \in Running <=> loop' = v
  <2>1. CASE v = w
    <3>1. CASE \E to \in Running : GoOn(w, to)
      BY <2>1, <3>1 DEF GoOn, TaskTypes
    <3>2. CASE \E to \in Awaiting \cup Finished : Await(w, to)
      BY <2>1, <3>2, TaskAssumption
         DEF Await, TaskTypes, Running, Awaiting, Finished, Exceptions
    <3> QED
      BY <3>1, <3>2, WorkerMoves
  <2>2. CASE v # w
    <3>1. pc[v] \notin Running
      BY <2>2, WorkerMoves, TaskAssumption DEF LoopInv
    <3>2. loop' # v
      BY <2>2, WorkerMoves, TaskAssumption DEF GoOn, Await
    <3> QED
      BY <2>2, <3>1, <3>2, OtherWorkersStay
  <2> QED
    BY <2>1, <2>2
<1>4. loop' # Main
  BY WorkerMoves, TaskAssumption DEF GoOn, Await
<1> QED
  BY <1>1, <1>2, <1>3, <1>4 DEF LoopInv, MainAwaiting

\* A worker's step keeps every cursor and transcript well placed.
LEMMA WorkerCursorInv ==
  ASSUME TaskTypes, CursorInv, NEW w \in Workers, WorkerStep(w)
  PROVE  CursorInv'
<1> USE DEF GoOn, Await
<1>a. cursor \in [Workers -> Cursor] /\ cursor[w] \in Cursor
  BY DEF TaskTypes
<1>b. messages \in [Workers -> Seq(Roles)] /\ messages[w] \in Seq(Roles)
  BY DEF TaskTypes
<1>0. WellPlaced(w)
  BY DEF CursorInv
<1> SUFFICES WellPlaced(w)'
  <2>1. ASSUME NEW v \in Workers, v # w PROVE WellPlaced(v)'
    BY <2>1, OtherWorkersStay DEF CursorInv, WellPlaced, LastRole
  <2> QED
    BY <2>1 DEF CursorInv
<1>1. CASE StopWorker(w)
  BY <1>1 DEF StopWorker, WellPlaced, TaskTypes, InSession, InAttempt
<1>2. CASE StartSession(w)
  <2>1. cursor'[w].n >= 1 /\ cursor'[w].turn = 0
    BY <1>a, <1>2 DEF StartSession, Cursor
  <2>2. turnsCompleted'[w] = 0
    BY <1>2 DEF StartSession, TaskTypes
  <2>3. pc'[w] = "turn"
    BY <1>2 DEF StartSession, TaskTypes
  <2> QED
    BY <2>1, <2>2, <2>3 DEF WellPlaced, InAttempt
<1>3. CASE FinishSession(w)
  BY <1>0, <1>3 DEF FinishSession, WellPlaced, TaskTypes, TaskRaises, InSession, InAttempt
<1>4. CASE EndTurns(w)
  BY <1>0, <1>4 DEF EndTurns, WellPlaced, TaskTypes, InSession, InAttempt
<1>5. CASE StopBeforeTurn(w)
  BY <1>0, <1>5 DEF StopBeforeTurn, WellPlaced, TaskTypes, InSession, InAttempt
<1>6. CASE BeginTurn(w)
  <2>1. messages'[w] = Append(messages[w], "user")
    BY <1>b, <1>6 DEF BeginTurn
  <2>2. messages'[w] # <<>> /\ LastRole(w)' = "user"
    BY <1>b, <2>1 DEF LastRole, Roles
  <2>3. /\ cursor'[w].n = cursor[w].n /\ cursor'[w].turns = cursor[w].turns
        /\ cursor'[w].turn = cursor[w].turn /\ cursor'[w].attempt = 1
    BY <1>a, <1>6 DEF BeginTurn, Cursor
  <2>4. pc'[w] = "attempt" /\ UNCHANGED turnsCompleted
    BY <1>6 DEF BeginTurn, TaskTypes
  <2>5. pc[w] = "turn" /\ cursor[w].turn < cursor[w].turns
    BY <1>6 DEF BeginTurn
  <2> QED
    BY <1>0, <2>2, <2>3, <2>4, <2>5 DEF WellPlaced, InSession
<1>7. CASE StopBeforeAttempt(w)
  BY <1>0, <1>7 DEF StopBeforeAttempt, WellPlaced, TaskTypes, InSession, InAttempt, LastRole
<1>8. CASE BeginAttempt(w)
  BY <1>0, <1>8 DEF BeginAttempt, WellPlaced, TaskTypes, InSession, InAttempt, LastRole
<1>9. CASE RequestAnswered(w)
  <2>1. PICK answer \in Answers, o \in Observation :
          /\ IF answer = "ok"
               THEN /\ messages' = [messages EXCEPT ![w] = Append(@, "assistant")]
                    /\ turnsCompleted' = [turnsCompleted EXCEPT ![w] = @ + 1]
               ELSE UNCHANGED <<messages, turnsCompleted>>
          /\ \/ /\ status' = [status EXCEPT ![w] = "failed"]
                /\ pc' = [pc EXCEPT ![w] = "raising"]
                /\ UNCHANGED cursor
             \/ /\ pc' = [pc EXCEPT ![w] = "settled"]
                /\ UNCHANGED <<status, cursor>>
             \/ /\ answer # "ok" /\ cursor[w].attempt # MaxAttempts
                /\ \/ /\ cursor' = [cursor EXCEPT ![w].attempt = @ + 1]
                      /\ pc' = [pc EXCEPT ![w] = "attempt"]
                   \/ /\ pc' = [pc EXCEPT ![w] = "backoff"]
                      /\ UNCHANGED cursor
                /\ UNCHANGED status
    BY <1>9 DEF RequestAnswered, GivesUp
  <2>2. /\ cursor[w].n >= 1 /\ cursor[w].turn < cursor[w].turns /\ cursor[w].attempt >= 1
        /\ turnsCompleted[w] = cursor[w].turn
        /\ messages[w] # <<>> /\ LastRole(w) = "user"
    BY <1>0, <1>9 DEF RequestAnswered, WellPlaced, InSession, InAttempt
  <2>3. CASE answer = "ok"
    <3>1. messages'[w] = Append(messages[w], "assistant")
      BY <1>b, <2>1, <2>3
    <3>2. messages'[w] # <<>>
      BY <1>b, <3>1
    <3>3. turnsCompleted'[w] = turnsCompleted[w] + 1
      BY <2>1, <2>3 DEF TaskTypes
    <3>4. UNCHANGED cursor /\ pc'[w] \in {"raising", "settled"}
      BY <2>1, <2>3 DEF TaskTypes
    <3>5. pc'[w] = "raising" => status'[w] = "failed"
      BY <2>1, <2>3 DEF TaskTypes
    <3> QED
      BY <2>2, <3>2, <3>3, <3>4, <3>5 DEF WellPlaced, InSession, InAttempt
  <2>4. CASE answer # "ok"
    <3>1. UNCHANGED <<messages, turnsCompleted>>
      BY <2>1, <2>4
    <3>2. UNCHANGED LastRole(w)
      BY <3>1 DEF LastRole
    <3>3. CASE pc' = [pc EXCEPT ![w] = "raising"] /\ status' = [status EXCEPT ![w] = "failed"]
               /\ UNCHANGED cursor
      BY <2>2, <3>3 DEF WellPlaced, InSession, InAttempt, TaskTypes
    <3>4. CASE pc' = [pc EXCEPT ![w] = "settled"] /\ UNCHANGED cursor
      BY <2>2, <3>1, <3>2, <3>4 DEF WellPlaced, InSession, InAttempt, TaskTypes
    <3>5. CASE cursor' = [cursor EXCEPT ![w].attempt = @ + 1] /\ pc' = [pc EXCEPT ![w] = "attempt"]
      <4>1. /\ cursor'[w].n = cursor[w].n /\ cursor'[w].turns = cursor[w].turns
            /\ cursor'[w].turn = cursor[w].turn /\ cursor'[w].attempt = cursor[w].attempt + 1
        BY <1>a, <3>5 DEF Cursor
      <4>2. cursor'[w].attempt >= 1
        BY <1>a, <2>2, <4>1 DEF Cursor
      <4>3. pc'[w] = "attempt"
        BY <3>5 DEF TaskTypes
      <4> QED
        BY <2>2, <3>1, <3>2, <4>1, <4>2, <4>3 DEF WellPlaced, InSession
    <3>6. CASE pc' = [pc EXCEPT ![w] = "backoff"] /\ UNCHANGED cursor /\ cursor[w].attempt # MaxAttempts
      <4>1. cursor[w].attempt < MaxAttempts
        BY <1>a, <3>6, SessionAssumption DEF Cursor
      <4> QED
        BY <2>2, <3>1, <3>2, <3>6, <4>1 DEF WellPlaced, InSession, InAttempt, TaskTypes
    <3> QED
      BY <2>1, <2>4, <3>3, <3>4, <3>5, <3>6
  <2> QED
    BY <2>3, <2>4
<1>10. CASE BackoffEnds(w)
  <2>1. /\ cursor'[w].n = cursor[w].n /\ cursor'[w].turns = cursor[w].turns
        /\ cursor'[w].turn = cursor[w].turn /\ cursor'[w].attempt = cursor[w].attempt + 1
    BY <1>a, <1>10 DEF BackoffEnds, WaitEnds, Cursor
  <2>2. cursor[w].attempt >= 1
    BY <1>0, <1>10 DEF BackoffEnds, WaitEnds, WellPlaced, InAttempt
  <2>3. cursor'[w].attempt >= 1
    BY <1>a, <2>1, <2>2 DEF Cursor
  <2>4. pc'[w] = "attempt" /\ pc[w] = "backoff"
    BY <1>10 DEF BackoffEnds, WaitEnds, TaskTypes
  <2>5. UNCHANGED <<messages, turnsCompleted>> /\ UNCHANGED LastRole(w)
    BY <1>10 DEF BackoffEnds, WaitEnds, LastRole
  <2> QED
    BY <1>0, <2>1, <2>3, <2>4, <2>5 DEF WellPlaced, InSession, InAttempt
<1>11. CASE DropUnansweredTurn(w)
  BY <1>0, <1>11 DEF DropUnansweredTurn, WellPlaced, TaskTypes, InSession, InAttempt
<1>12. CASE EndTurn(w)
  <2>1. /\ cursor[w].n >= 1 /\ cursor[w].turn < cursor[w].turns /\ cursor[w].attempt >= 1
        /\ turnsCompleted[w] = cursor[w].turn + 1
    BY <1>0, <1>12 DEF EndTurn, WellPlaced, InSession, InAttempt
  <2>2. CASE UNCHANGED cursor /\ pc' = [pc EXCEPT ![w] = "think"]
    BY <1>12, <2>1, <2>2 DEF EndTurn, WellPlaced, InSession, InAttempt, TaskTypes
  <2>3. CASE cursor' = [cursor EXCEPT ![w].turn = @ + 1] /\ pc' = [pc EXCEPT ![w] = "turn"]
    <3>1. cursor'[w].n = cursor[w].n /\ cursor'[w].turn = cursor[w].turn + 1
      BY <1>a, <2>3 DEF Cursor
    <3>2. pc'[w] = "turn" /\ UNCHANGED turnsCompleted
      BY <1>12, <2>3 DEF EndTurn, TaskTypes
    <3> QED
      BY <2>1, <3>1, <3>2 DEF WellPlaced, InAttempt
  <2> QED
    BY <1>12, <2>2, <2>3 DEF EndTurn
<1>13. CASE ThinkEnds(w)
  <2>1. cursor[w].n >= 1 /\ turnsCompleted[w] = cursor[w].turn + 1
    BY <1>0, <1>13 DEF ThinkEnds, WaitEnds, WellPlaced, InSession
  <2>2. cursor'[w].n = cursor[w].n /\ cursor'[w].turn = cursor[w].turn + 1
    BY <1>a, <1>13 DEF ThinkEnds, WaitEnds, Cursor
  <2>3. pc'[w] = "turn" /\ UNCHANGED turnsCompleted
    BY <1>13 DEF ThinkEnds, WaitEnds, TaskTypes
  <2> QED
    BY <2>1, <2>2, <2>3 DEF WellPlaced, InAttempt
<1>14. CASE CancelUnstarted(w)
  BY <1>0, <1>14 DEF CancelUnstarted, WellPlaced, TaskTypes, TaskRaises, InSession, InAttempt
<1>15. CASE CancelSession(w)
  <2>1. pc[w] \in {"request", "backoff", "think"}
    BY <1>15 DEF CancelSession, Cancellable
  <2> QED
    BY <1>0, <1>15, <2>1 DEF CancelSession, WellPlaced, TaskTypes, InSession, InAttempt
<1>16. CASE HandleException(w)
  <2>1. pc'[w] \in {"failed", "cancelled"}
    BY <1>0, <1>16 DEF HandleException, TaskRaises, WellPlaced, TaskTypes
  <2> QED
    BY <2>1 DEF WellPlaced, InSession, InAttempt
<1> QED
  BY <1>1, <1>2, <1>3, <1>4, <1>5, <1>6, <1>7, <1>8, <1>9, <1>10, <1>11, <1>12,
     <1>13, <1>14, <1>15, <1>16 DEF WorkerStep

\* A worker inside a session is in a level of the ramp, at an attempt of it.
LEMMA InSessionCurrent ==
  ASSUME TypeOK, LoopInv, CursorInv, NEW w \in Workers, pc[w] \in InSession
  PROVE  /\ level \in Levels
         /\ CurrentSession(w) \in SessionId
         /\ pc[w] \in InAttempt => CurrentAttempt(w) \in Attempt
<1>1. level \in Levels
  BY DEF LoopInv, InSession, Finished, Exceptions, MainAwaiting
<1>2. cursor[w].n >= 1 /\ (pc[w] \in InAttempt => cursor[w].turn < cursor[w].turns
                                                  /\ cursor[w].attempt >= 1)
  BY DEF CursorInv, WellPlaced
<1> QED
  BY <1>1, <1>2, CurrentTypes

\* The attempt a worker is about to start has not been made before.
LEMMA NextAttemptIsNew ==
  ASSUME TypeOK, LoopInv, CursorInv, AttemptsBehindCursor, NEW w \in Workers, pc[w] = "attempt"
  PROVE  attempts[CurrentAttempt(w)] = "none"
<1>1. CurrentAttempt(w) \in Attempt
  BY InSessionCurrent DEF InSession, InAttempt
<1>2. cursor[w] \in Cursor
  BY DEF TypeOK, TaskTypes
<1>3. SUFFICES ASSUME attempts[CurrentAttempt(w)] # "none" PROVE FALSE
  OBVIOUS
<1>4. BehindCursor(CurrentAttempt(w))
  BY <1>1, <1>3 DEF AttemptsBehindCursor, CurrentAttempt
<1> QED
  BY <1>2, <1>4 DEF BehindCursor, CurrentAttempt, Cursor

\* The evidence of requests and sessions is touched by four actions.
LEMMA WorkerEvidence ==
  ASSUME NEW w \in Workers, WorkerStep(w)
  PROVE  \/ BeginAttempt(w) \/ RequestAnswered(w) \/ FinishSession(w) \/ HandleException(w)
         \/ UNCHANGED <<requestEvidence, sessions>>
<1> USE DEF evidence
<1>1. CASE StopWorker(w) \/ StartSession(w)
  BY <1>1 DEF StopWorker, StartSession
<1>2. CASE EndTurns(w) \/ StopBeforeTurn(w) \/ BeginTurn(w) \/ StopBeforeAttempt(w)
  BY <1>2 DEF EndTurns, StopBeforeTurn, BeginTurn, StopBeforeAttempt
<1>3. CASE BackoffEnds(w) \/ DropUnansweredTurn(w) \/ EndTurn(w) \/ ThinkEnds(w)
  BY <1>3 DEF BackoffEnds, WaitEnds, DropUnansweredTurn, EndTurn, ThinkEnds
<1>4. CASE CancelUnstarted(w) \/ CancelSession(w)
  BY <1>4 DEF CancelUnstarted, CancelSession
<1> QED
  BY <1>1, <1>2, <1>3, <1>4 DEF WorkerStep

\* The summary a session leaves behind is a legal SessionRecord.
LEMMA SummaryType ==
  ASSUME TypeOK, NEW w \in Workers, NEW transcript \in Seq(Roles)
  PROVE  Summary(w, transcript) \in SessionRecord /\ Summary(w, transcript) # NoSession
<1>1. status[w] \in SessionStatus /\ cursor[w].turns \in TurnsMin..TurnsMax
      /\ turnsCompleted[w] \in 0..TurnsMax
  BY DEF TypeOK, TaskTypes, Cursor
<1>2. Summary(w, transcript) \in SessionRecord
  BY <1>1 DEF Summary, SessionRecord
<1>3. Summary(w, transcript).status # NoSession.status
  BY <1>1 DEF Summary, NoSession, SessionStatus
<1> QED
  BY <1>2, <1>3

\* The transcript left after an exception is a transcript.
LEMMA ExceptionTranscriptType ==
  ASSUME TaskTypes, NEW w \in Workers
  PROVE  TranscriptAfterException(w) \in Seq(Roles)
<1>1. messages[w] \in Seq(Roles)
  BY DEF TaskTypes
<1>2. Len(messages[w]) > 0 => messages[w] # <<>>
  BY <1>1
<1> QED
  BY <1>1, <1>2, PoppedType DEF TranscriptAfterException, Popped

\* A worker's step keeps the types of the evidence.
LEMMA WorkerEvidenceTypes ==
  ASSUME TypeOK, LoopInv, CursorInv, NEW w \in Workers, WorkerStep(w)
  PROVE  EvidenceTypes'
<1> USE DEF TypeOK, EvidenceTypes, requestEvidence, statusEvidence
<1>1. CASE BeginAttempt(w)
  <2>1. CurrentAttempt(w) \in Attempt
    BY <1>1, InSessionCurrent DEF BeginAttempt, InSession, InAttempt
  <2>2. attempts' \in [Attempt -> AttemptStatus]
    BY <1>1 DEF BeginAttempt, AttemptStatus
  <2>3. dispatched' \subseteq Attempt
    BY <1>1, <2>1 DEF BeginAttempt
  <2> QED
    BY <1>1, <2>2, <2>3 DEF BeginAttempt
<1>2. CASE RequestAnswered(w)
  <2>1. attempts' \in [Attempt -> AttemptStatus]
    BY <1>2 DEF RequestAnswered, FinishedStatus, AttemptStatus
  <2>2. records' \in [Attempt -> Answers \cup {"none"}]
    BY <1>2 DEF RequestAnswered
  <2> QED
    BY <1>2, <2>1, <2>2 DEF RequestAnswered
<1>3. CASE FinishSession(w)
  <2>1. Summary(w, messages[w]) \in SessionRecord
    BY SummaryType DEF TaskTypes
  <2>2. sessions' \in [SessionId -> SessionRecord \cup {NoSession}]
    BY <1>3, <2>1 DEF FinishSession
  <2> QED
    BY <1>3, <2>2 DEF FinishSession
<1>4. CASE HandleException(w)
  <2>1. Summary(w, TranscriptAfterException(w)) \in SessionRecord
    BY SummaryType, ExceptionTranscriptType
  <2>2. sessions' \in [SessionId -> SessionRecord \cup {NoSession}]
    BY <1>4, <2>1 DEF HandleException
  <2>3. status[w] \in {"failed", "cancelled"}
    BY <1>4 DEF HandleException, CursorInv, WellPlaced
  <2>4. attempts' \in [Attempt -> AttemptStatus]
    BY <1>4, <2>3 DEF HandleException, AttemptStatus
  <2> QED
    BY <1>4, <2>2, <2>4 DEF HandleException
<1>5. CASE UNCHANGED <<requestEvidence, sessions>>
  BY <1>5, WorkerMoves
<1> QED
  BY <1>1, <1>2, <1>3, <1>4, <1>5, WorkerEvidence

\* An action of a worker that touches its attempt touches the current one only.
LEMMA WorkerRecords ==
  ASSUME IndInv, NEW w \in Workers, WorkerStep(w)
  PROVE  RecordsMatchAttempts'
<1> USE DEF IndInv, TypeOK, EvidenceTypes, RecordsMatchAttempts
<1>1. CASE BeginAttempt(w)
  <2>1. CurrentAttempt(w) \in Attempt /\ attempts[CurrentAttempt(w)] = "none"
    BY <1>1, InSessionCurrent, NextAttemptIsNew DEF BeginAttempt, InSession, InAttempt
  <2>2. UNCHANGED records
    BY <1>1 DEF BeginAttempt
  <2>3. CASE /\ attempts' = [attempts EXCEPT ![CurrentAttempt(w)] = "starting"]
             /\ UNCHANGED dispatched
    BY <2>1, <2>2, <2>3
  <2>4. CASE /\ attempts' = [attempts EXCEPT ![CurrentAttempt(w)] = "stopped"]
             /\ UNCHANGED dispatched
    BY <2>1, <2>2, <2>4
  <2>5. CASE /\ attempts' = [attempts EXCEPT ![CurrentAttempt(w)] = "starting"]
             /\ dispatched' = dispatched \cup {CurrentAttempt(w)}
    BY <2>1, <2>2, <2>5
  <2> QED
    BY <1>1, <2>3, <2>4, <2>5 DEF BeginAttempt
<1>2. CASE RequestAnswered(w)
  <2>1. PICK answer \in Answers :
          /\ records' = [records EXCEPT ![CurrentAttempt(w)] = answer]
          /\ attempts' = [attempts EXCEPT ![CurrentAttempt(w)] = "completed"]
          /\ UNCHANGED dispatched
    BY <1>2 DEF RequestAnswered, FinishedStatus
  <2>2. answer # "none"
    BY DEF Answers
  <2>3. CurrentAttempt(w) \in Attempt /\ CurrentAttempt(w) \in dispatched
    BY <1>2, InSessionCurrent DEF RequestAnswered, OpenAttempts, InSession, InAttempt
  <2> QED
    BY <2>1, <2>2, <2>3
<1>3. CASE FinishSession(w)
  BY <1>3 DEF FinishSession, requestEvidence
<1>4. CASE HandleException(w)
  <2>1. status[w] \in {"failed", "cancelled"}
    BY <1>4 DEF HandleException, CursorInv, WellPlaced
  <2>2. CurrentAttempt(w) \in Attempt
    BY <1>4, InSessionCurrent DEF HandleException, InSession, InAttempt
  <2>3. UNCHANGED <<records, dispatched>>
    BY <1>4 DEF HandleException
  <2>4. CASE attempts[CurrentAttempt(w)] = "starting"
    <3>1. attempts' = [attempts EXCEPT ![CurrentAttempt(w)] = status[w]]
      BY <1>4, <2>4 DEF HandleException
    <3> QED
      BY <2>1, <2>2, <2>3, <2>4, <3>1
  <2>5. CASE attempts[CurrentAttempt(w)] # "starting"
    <3>1. UNCHANGED attempts
      BY <1>4, <2>5 DEF HandleException
    <3> QED
      BY <2>3, <3>1
  <2> QED
    BY <2>4, <2>5
<1>5. CASE UNCHANGED <<requestEvidence, sessions>>
  BY <1>5 DEF requestEvidence
<1> QED
  BY <1>1, <1>2, <1>3, <1>4, <1>5, WorkerEvidence

\* A worker's step makes at most one attempt, its current one, and opens no other.
LEMMA WorkerAttempts ==
  ASSUME TypeOK, CursorInv, NEW w \in Workers, WorkerStep(w), NEW a \in Attempt
  PROVE  \/ attempts'[a] = attempts[a]
         \/ BeginAttempt(w) /\ a = CurrentAttempt(w)
         \/ attempts[a] # "none" /\ attempts'[a] \notin {"none", "starting"}
              /\ a = CurrentAttempt(w) /\ HandleException(w)
         \/ a = CurrentAttempt(w) /\ RequestAnswered(w) /\ attempts'[a] = "completed"
<1> USE DEF TypeOK, EvidenceTypes
<1>1. CASE BeginAttempt(w)
  BY <1>1 DEF BeginAttempt
<1>2. CASE RequestAnswered(w)
  BY <1>2 DEF RequestAnswered, FinishedStatus
<1>3. CASE FinishSession(w)
  BY <1>3 DEF FinishSession, requestEvidence
<1>4. CASE HandleException(w)
  <2>1. status[w] \in {"failed", "cancelled"}
    BY <1>4 DEF HandleException, CursorInv, WellPlaced
  <2> QED
    BY <1>4, <2>1 DEF HandleException
<1>5. CASE UNCHANGED <<requestEvidence, sessions>>
  BY <1>5 DEF requestEvidence
<1> QED
  BY <1>1, <1>2, <1>3, <1>4, <1>5, WorkerEvidence

\* Inside a session a worker stays in it until its summary is written.
LEMMA SessionGoesOn ==
  ASSUME TypeOK, NEW w \in Workers, WorkerStep(w), pc[w] \in InSession
  PROVE  \/ FinishSession(w) \/ HandleException(w)
         \/ pc'[w] \in InSession /\ cursor'[w].n = cursor[w].n
<1> USE DEF TypeOK, TaskTypes, InSession, GoOn, Await
<1>a. cursor \in [Workers -> Cursor] /\ cursor[w] \in Cursor
  OBVIOUS
<1>1. CASE StopWorker(w) \/ StartSession(w) \/ CancelUnstarted(w)
  BY <1>1 DEF StopWorker, StartSession, CancelUnstarted, AtLoopTop
<1>2. CASE EndTurns(w) \/ StopBeforeTurn(w) \/ StopBeforeAttempt(w)
  BY <1>2 DEF EndTurns, StopBeforeTurn, StopBeforeAttempt
<1>3. CASE BeginAttempt(w) \/ DropUnansweredTurn(w) \/ CancelSession(w)
  BY <1>3 DEF BeginAttempt, DropUnansweredTurn, CancelSession
<1>4. CASE BeginTurn(w)
  BY <1>a, <1>4 DEF BeginTurn, Cursor
<1>5. CASE RequestAnswered(w)
  <2>1. UNCHANGED cursor \/ cursor' = [cursor EXCEPT ![w].attempt = @ + 1]
    BY <1>5 DEF RequestAnswered
  <2>2. cursor'[w].n = cursor[w].n
    BY <1>a, <2>1 DEF Cursor
  <2>3. pc'[w] \in InSession
    BY <1>5 DEF RequestAnswered
  <2> QED
    BY <2>2, <2>3
<1>6. CASE BackoffEnds(w)
  BY <1>a, <1>6 DEF BackoffEnds, WaitEnds, Cursor
<1>7. CASE EndTurn(w)
  <2>1. UNCHANGED cursor \/ cursor' = [cursor EXCEPT ![w].turn = @ + 1]
    BY <1>7 DEF EndTurn
  <2>2. cursor'[w].n = cursor[w].n
    BY <1>a, <2>1 DEF Cursor
  <2>3. pc'[w] \in InSession
    BY <1>7 DEF EndTurn
  <2> QED
    BY <2>2, <2>3
<1>8. CASE ThinkEnds(w)
  BY <1>a, <1>8 DEF ThinkEnds, WaitEnds, Cursor
<1> QED
  BY <1>1, <1>2, <1>3, <1>4, <1>5, <1>6, <1>7, <1>8 DEF WorkerStep

\* A worker's step leaves unsummarised attempts only to sessions in progress.
LEMMA WorkerUnsummarised ==
  ASSUME IndInv, NEW w \in Workers, WorkerStep(w)
  PROVE  UnsummarisedInProgress'
<1> USE DEF IndInv
<1> SUFFICES ASSUME NEW a \in Attempt, attempts'[a] # "none", sessions'[SessionOf(a)] = NoSession
             PROVE  /\ a.concurrency = level
                    /\ a.n = cursor'[a.worker].n
                    /\ pc'[a.worker] \in InSession
  BY WorkerMoves DEF UnsummarisedInProgress
<1>a. SessionOf(a) \in SessionId /\ a.worker \in Workers
  BY DEF SessionOf, SessionId, Attempt
<1>b. sessions \in [SessionId -> SessionRecord \cup {NoSession}]
  BY DEF TypeOK, EvidenceTypes
<1>1. CASE BeginAttempt(w) /\ a = CurrentAttempt(w)
  <2>1. a.concurrency = level /\ a.worker = w /\ a.n = cursor[w].n
    BY <1>1 DEF CurrentAttempt
  <2>2. UNCHANGED cursor
    BY <1>1 DEF BeginAttempt
  <2>3. pc'[w] \in InSession
    BY <1>1 DEF BeginAttempt, GoOn, Await, InSession, TypeOK, TaskTypes
  <2> QED
    BY <2>1, <2>2, <2>3
<1>2. CASE ~(BeginAttempt(w) /\ a = CurrentAttempt(w))
  <2>1. attempts[a] # "none"
    <3>1. CASE a = CurrentAttempt(w) /\ RequestAnswered(w)
      <4>1. attempts[a] = "starting"
        BY <3>1 DEF OpenAttempts, RequestAnswered
      <4> QED
        BY <4>1
    <3> QED
      BY <1>2, <3>1, WorkerAttempts
  <2>2. sessions[SessionOf(a)] = NoSession
    <3>1. CASE FinishSession(w)
      <4>1. messages[w] \in Seq(Roles)
        BY DEF TypeOK, TaskTypes
      <4>2. Summary(w, messages[w]) # NoSession
        BY <4>1, SummaryType
      <4> QED
        BY <1>a, <1>b, <3>1, <4>2 DEF FinishSession
    <3>2. CASE HandleException(w)
      <4>1. Summary(w, TranscriptAfterException(w)) # NoSession
        BY SummaryType, ExceptionTranscriptType DEF TypeOK
      <4> QED
        BY <1>a, <1>b, <3>2, <4>1 DEF HandleException
    <3>3. CASE UNCHANGED sessions
      BY <3>3
    <3> QED
      BY <3>1, <3>2, <3>3, WorkerEvidence DEF BeginAttempt, RequestAnswered
  <2>3. a.concurrency = level /\ a.n = cursor[a.worker].n /\ pc[a.worker] \in InSession
    BY <2>1, <2>2 DEF UnsummarisedInProgress
  <2>4. CASE a.worker # w
    BY <1>a, <2>3, <2>4, OtherWorkersStay DEF TypeOK
  <2>5. CASE a.worker = w
    <3>1. SessionOf(a) = CurrentSession(w)
      BY <2>3, <2>5 DEF SessionOf, CurrentSession
    <3>2. ~FinishSession(w)
      <4>1. SUFFICES ASSUME FinishSession(w) PROVE FALSE
        OBVIOUS
      <4>2. messages[w] \in Seq(Roles)
        BY DEF TypeOK, TaskTypes
      <4>3. sessions'[CurrentSession(w)] = Summary(w, messages[w])
        BY <1>a, <1>b, <3>1, <4>1 DEF FinishSession
      <4> QED
        BY <3>1, <4>2, <4>3, SummaryType
    <3>3. ~HandleException(w)
      <4>1. SUFFICES ASSUME HandleException(w) PROVE FALSE
        OBVIOUS
      <4>2. sessions'[CurrentSession(w)] = Summary(w, TranscriptAfterException(w))
        BY <1>a, <1>b, <3>1, <4>1 DEF HandleException
      <4> QED
        BY <3>1, <4>2, SummaryType, ExceptionTranscriptType DEF TypeOK
    <3> QED
      BY <2>3, <2>5, <3>2, <3>3, SessionGoesOn
  <2> QED
    BY <2>4, <2>5
<1> QED
  BY <1>1, <1>2

\* A worker's step leaves open only the attempt its session is at.
LEMMA WorkerOpenAttempts ==
  ASSUME IndInv, NEW w \in Workers, WorkerStep(w)
  PROVE  OpenAttempts'
<1> USE DEF IndInv
<1>1. UNCHANGED level
  BY WorkerMoves
<1>2. ASSUME NEW a \in Attempt, attempts'[a] = "starting"
      PROVE  a = CurrentAttempt(a.worker)' /\ pc'[a.worker] \in {"request", "raising"}
  <2>a. a.worker \in Workers
    BY DEF Attempt
  <2>1. CASE BeginAttempt(w) /\ a = CurrentAttempt(w)
    <3>1. a.worker = w /\ UNCHANGED cursor
      BY <2>1 DEF BeginAttempt, CurrentAttempt
    <3>2. CurrentAttempt(w)' = CurrentAttempt(w)
      BY <1>1, <3>1 DEF CurrentAttempt
    <3>3. pc'[w] \in {"request", "raising"}
      BY <1>2, <2>1 DEF BeginAttempt, GoOn, Await, TypeOK, TaskTypes, EvidenceTypes
    <3> QED
      BY <2>1, <3>1, <3>2, <3>3
  <2>2. CASE ~(BeginAttempt(w) /\ a = CurrentAttempt(w))
    <3>1. attempts[a] = "starting"
      BY <1>2, <2>2, WorkerAttempts
    <3>2. a = CurrentAttempt(a.worker) /\ pc[a.worker] \in {"request", "raising"}
      BY <3>1 DEF OpenAttempts
    <3>3. CASE a.worker # w
      BY <1>1, <2>a, <3>2, <3>3, OtherWorkersStay DEF CurrentAttempt, TypeOK
    <3>4. CASE a.worker = w
      <4>1. ~RequestAnswered(w)
        <5>1. SUFFICES ASSUME RequestAnswered(w) PROVE FALSE
          OBVIOUS
        <5>2. attempts'[a] = "completed"
          BY <3>2, <3>4, <5>1 DEF RequestAnswered, FinishedStatus, TypeOK, EvidenceTypes
        <5> QED
          BY <1>2, <5>2
      <4>2. ~HandleException(w)
        <5>1. SUFFICES ASSUME HandleException(w) PROVE FALSE
          OBVIOUS
        <5>2. status[w] \in {"failed", "cancelled"}
          BY <5>1 DEF HandleException, CursorInv, WellPlaced
        <5>3. attempts'[a] = status[w]
          BY <3>1, <3>2, <3>4, <5>1 DEF HandleException, TypeOK, EvidenceTypes
        <5> QED
          BY <1>2, <5>2, <5>3
      <4>3. CancelSession(w)
        <5>1. ~(StopWorker(w) \/ StartSession(w) \/ FinishSession(w) \/ CancelUnstarted(w))
          BY <3>2, <3>4 DEF StopWorker, StartSession, FinishSession, CancelUnstarted, AtLoopTop
        <5>2. ~(EndTurns(w) \/ StopBeforeTurn(w) \/ BeginTurn(w) \/ StopBeforeAttempt(w)
                 \/ BeginAttempt(w))
          BY <3>2, <3>4 DEF EndTurns, StopBeforeTurn, BeginTurn, StopBeforeAttempt, BeginAttempt
        <5>3. ~(BackoffEnds(w) \/ DropUnansweredTurn(w) \/ EndTurn(w) \/ ThinkEnds(w))
          BY <3>2, <3>4 DEF BackoffEnds, WaitEnds, DropUnansweredTurn, EndTurn, ThinkEnds
        <5> QED
          BY <4>1, <4>2, <5>1, <5>2, <5>3 DEF WorkerStep
      <4>4. UNCHANGED cursor /\ pc'[w] = "raising"
        BY <4>3 DEF CancelSession, GoOn, TypeOK, TaskTypes
      <4> QED
        BY <1>1, <3>2, <3>4, <4>4 DEF CurrentAttempt
    <3> QED
      BY <3>3, <3>4
  <2> QED
    BY <2>1, <2>2
<1>3. ASSUME NEW v \in Workers, pc'[v] = "request"
      PROVE  attempts'[CurrentAttempt(v)'] = "starting" /\ CurrentAttempt(v)' \in dispatched'
  <2>1. CASE v = w
    <3>1. BeginAttempt(w)
      <4>1. ~(StopWorker(w) \/ StartSession(w) \/ FinishSession(w) \/ CancelUnstarted(w))
        BY <1>3, <2>1 DEF StopWorker, StartSession, FinishSession, CancelUnstarted,
                          GoOn, Await, TaskRaises, TypeOK, TaskTypes
      <4>2. ~(EndTurns(w) \/ StopBeforeTurn(w) \/ BeginTurn(w) \/ StopBeforeAttempt(w)
               \/ RequestAnswered(w))
        BY <1>3, <2>1 DEF EndTurns, StopBeforeTurn, BeginTurn, StopBeforeAttempt,
                          RequestAnswered, GoOn, Await, TypeOK, TaskTypes
      <4>3. ~(BackoffEnds(w) \/ DropUnansweredTurn(w) \/ EndTurn(w) \/ ThinkEnds(w)
               \/ CancelSession(w))
        BY <1>3, <2>1 DEF BackoffEnds, WaitEnds, DropUnansweredTurn, EndTurn, ThinkEnds, CancelSession,
                          GoOn, Await, TypeOK, TaskTypes
      <4>4. ~HandleException(w)
        <5>1. SUFFICES ASSUME HandleException(w) PROVE FALSE
          OBVIOUS
        <5>2. status[w] \in {"failed", "cancelled"}
          BY <5>1 DEF HandleException, CursorInv, WellPlaced
        <5> QED
          BY <1>3, <2>1, <5>1, <5>2 DEF HandleException, TaskRaises, Await, TypeOK, TaskTypes
      <4> QED
        BY <4>1, <4>2, <4>3, <4>4 DEF WorkerStep
    <3>2. CurrentAttempt(w) \in Attempt
      BY <3>1, InSessionCurrent DEF BeginAttempt, InSession, InAttempt
    <3>3. /\ attempts' = [attempts EXCEPT ![CurrentAttempt(w)] = "starting"]
          /\ dispatched' = dispatched \cup {CurrentAttempt(w)}
      BY <1>3, <2>1, <3>1 DEF BeginAttempt, GoOn, Await, TypeOK, TaskTypes
    <3>4. CurrentAttempt(w)' = CurrentAttempt(w)
      BY <1>1, <3>1 DEF BeginAttempt, CurrentAttempt
    <3> QED
      BY <2>1, <3>2, <3>3, <3>4 DEF TypeOK, EvidenceTypes
  <2>2. CASE v # w
    <3>1. pc[v] = "request" /\ CurrentAttempt(v)' = CurrentAttempt(v)
      BY <1>1, <1>3, <2>2, OtherWorkersStay DEF CurrentAttempt, TypeOK
    <3>2. attempts[CurrentAttempt(v)] = "starting" /\ CurrentAttempt(v) \in dispatched
      BY <3>1 DEF OpenAttempts
    <3>3. CurrentAttempt(v) \in Attempt /\ CurrentAttempt(v) # CurrentAttempt(w)
      BY <2>2, <3>1, InSessionCurrent DEF InSession, InAttempt, CurrentAttempt
    <3>4. attempts'[CurrentAttempt(v)] = "starting"
      BY <3>2, <3>3, WorkerAttempts
    <3>5. dispatched \subseteq dispatched'
      BY WorkerEvidence DEF BeginAttempt, RequestAnswered, FinishSession, HandleException,
                            requestEvidence
    <3> QED
      BY <3>1, <3>2, <3>4, <3>5
  <2> QED
    BY <2>1, <2>2
<1> QED
  BY <1>2, <1>3 DEF OpenAttempts

\* A worker's step keeps the attempts of its session behind its cursor.
LEMMA WorkerBehindCursor ==
  ASSUME IndInv, NEW w \in Workers, WorkerStep(w)
  PROVE  AttemptsBehindCursor'
<1> USE DEF IndInv, TypeOK
<1> SUFFICES ASSUME NEW a \in Attempt, attempts'[a] # "none"
             PROVE  a.concurrency <= level /\ (a.concurrency = level => BehindCursor(a)')
  BY WorkerMoves DEF AttemptsBehindCursor
<1>a. a.worker \in Workers /\ a.n \in Nat /\ a.turn \in Nat /\ a.attempt \in Nat
      /\ a.concurrency \in Nat
  BY RampAssumption DEF Attempt, Levels
<1>b. cursor \in [Workers -> Cursor] /\ cursor[w] \in Cursor
  BY DEF TaskTypes
<1>c. cursor[w].n \in Nat /\ cursor[w].turn \in Nat /\ cursor[w].attempt \in Nat
  BY <1>b DEF Cursor
<1>1. CASE BeginAttempt(w) /\ a = CurrentAttempt(w)
  <2>1. a.concurrency = level /\ a.worker = w /\ a.n = cursor[w].n
        /\ a.turn = cursor[w].turn /\ a.attempt = cursor[w].attempt /\ UNCHANGED cursor
    BY <1>1 DEF BeginAttempt, CurrentAttempt
  <2>2. pc'[w] \in {"request", "settled", "raising"}
    BY <1>1 DEF BeginAttempt, GoOn, Await, TaskTypes
  <2> QED
    BY <1>a, <1>c, <2>1, <2>2 DEF BehindCursor
<1>2. CASE ~(BeginAttempt(w) /\ a = CurrentAttempt(w))
  <2>1. attempts[a] # "none"
    <3>1. CASE a = CurrentAttempt(w) /\ RequestAnswered(w)
      BY <3>1 DEF OpenAttempts, RequestAnswered
    <3> QED
      BY <1>2, <3>1, WorkerAttempts
  <2>2. a.concurrency <= level /\ (a.concurrency = level => BehindCursor(a))
    BY <2>1 DEF AttemptsBehindCursor
  <2>3. CASE a.worker # w
    BY <1>a, <2>2, <2>3, OtherWorkersStay DEF BehindCursor
  <2>4. ASSUME a.worker = w, BehindCursor(a) PROVE BehindCursor(a)'
    <3> USE DEF GoOn, Await
    <3>1. a.n <= cursor[w].n
      BY <2>4 DEF BehindCursor
    <3>2. CASE StartSession(w)
      <4>1. cursor'[w].n = cursor[w].n + 1
        BY <1>b, <3>2 DEF StartSession, Cursor
      <4> QED
        BY <1>a, <1>c, <2>4, <3>1, <4>1 DEF BehindCursor
    <3>3. CASE /\ UNCHANGED cursor
               /\ pc'[w] \notin {"turn", "attempt", "request", "backoff", "settled", "think"}
      BY <2>4, <3>3 DEF BehindCursor
    <3>4. CASE StopWorker(w) \/ FinishSession(w) \/ EndTurns(w) \/ StopBeforeTurn(w)
      BY <3>3, <3>4 DEF StopWorker, FinishSession, EndTurns, StopBeforeTurn, TaskRaises, TaskTypes
    <3>5. CASE BeginTurn(w)
      <4>1. cursor'[w].n = cursor[w].n /\ cursor'[w].turn = cursor[w].turn
        BY <1>b, <3>5 DEF BeginTurn, Cursor
      <4>2. pc[w] = "turn" /\ pc'[w] = "attempt"
        BY <3>5 DEF BeginTurn, TaskTypes
      <4> QED
        BY <2>4, <4>1, <4>2 DEF BehindCursor
    <3>6. CASE StopBeforeAttempt(w) \/ BeginAttempt(w)
      <4>1. UNCHANGED cursor /\ pc[w] = "attempt" /\ pc'[w] \in {"settled", "request", "raising"}
        BY <3>6 DEF StopBeforeAttempt, BeginAttempt, TaskTypes
      <4> QED
        BY <1>a, <1>c, <2>4, <4>1 DEF BehindCursor
    <3>7. CASE RequestAnswered(w)
      <4>1. pc[w] = "request"
        BY <3>7 DEF RequestAnswered
      <4>2. CASE UNCHANGED cursor /\ pc'[w] \in {"raising", "settled", "backoff"}
        BY <2>4, <4>1, <4>2 DEF BehindCursor
      <4>3. CASE cursor' = [cursor EXCEPT ![w].attempt = @ + 1] /\ pc'[w] = "attempt"
        <5>1. cursor'[w].n = cursor[w].n /\ cursor'[w].turn = cursor[w].turn
              /\ cursor'[w].attempt = cursor[w].attempt + 1
          BY <1>b, <4>3 DEF Cursor
        <5> QED
          BY <1>a, <1>c, <2>4, <4>1, <4>3, <5>1 DEF BehindCursor
      <4> QED
        BY <3>7, <4>2, <4>3 DEF RequestAnswered, TaskTypes
    <3>8. CASE BackoffEnds(w)
      <4>1. cursor'[w].n = cursor[w].n /\ cursor'[w].turn = cursor[w].turn
            /\ cursor'[w].attempt = cursor[w].attempt + 1
        BY <1>b, <3>8 DEF BackoffEnds, WaitEnds, Cursor
      <4>2. pc[w] = "backoff" /\ pc'[w] = "attempt"
        BY <3>8 DEF BackoffEnds, WaitEnds, TaskTypes
      <4> QED
        BY <1>a, <1>c, <2>4, <4>1, <4>2 DEF BehindCursor
    <3>9. CASE DropUnansweredTurn(w) \/ CancelUnstarted(w) \/ CancelSession(w)
      BY <3>3, <3>9 DEF DropUnansweredTurn, CancelUnstarted, CancelSession, TaskRaises, TaskTypes
    <3>10. CASE EndTurn(w)
      <4>1. pc[w] = "settled"
        BY <3>10 DEF EndTurn
      <4>2. CASE UNCHANGED cursor /\ pc'[w] = "think"
        BY <2>4, <4>1, <4>2 DEF BehindCursor
      <4>3. CASE cursor' = [cursor EXCEPT ![w].turn = @ + 1] /\ pc'[w] = "turn"
        <5>1. cursor'[w].n = cursor[w].n /\ cursor'[w].turn = cursor[w].turn + 1
          BY <1>b, <4>3 DEF Cursor
        <5> QED
          BY <1>a, <1>c, <2>4, <4>1, <4>3, <5>1 DEF BehindCursor
      <4> QED
        BY <3>10, <4>2, <4>3 DEF EndTurn, TaskTypes
    <3>11. CASE ThinkEnds(w)
      <4>1. cursor'[w].n = cursor[w].n /\ cursor'[w].turn = cursor[w].turn + 1
        BY <1>b, <3>11 DEF ThinkEnds, WaitEnds, Cursor
      <4>2. pc[w] = "think" /\ pc'[w] = "turn"
        BY <3>11 DEF ThinkEnds, WaitEnds, TaskTypes
      <4> QED
        BY <1>a, <1>c, <2>4, <4>1, <4>2 DEF BehindCursor
    <3>12. CASE HandleException(w)
      <4>1. status[w] \in {"failed", "cancelled"}
        BY <3>12 DEF HandleException, CursorInv, WellPlaced
      <4> QED
        BY <3>3, <3>12, <4>1 DEF HandleException, TaskRaises, TaskTypes
    <3> QED
      BY <3>2, <3>4, <3>5, <3>6, <3>7, <3>8, <3>9, <3>10, <3>11, <3>12 DEF WorkerStep
  <2> QED
    BY <2>2, <2>3, <2>4
<1> QED
  BY <1>1, <1>2

\* While the main task joins them, cancelled workers only unwind.
LEMMA WorkerUnwinding ==
  ASSUME IndInv, NEW w \in Workers, WorkerStep(w)
  PROVE  Unwinding'
<1> USE DEF IndInv, TypeOK
<1> SUFFICES ASSUME runPc = "join"
             PROVE  \A v \in Workers : \/ pc'[v] \in Finished \cup {"raising"}
                                       \/ pc'[v] \in Awaiting /\ v \in cancelling'
                                       \/ pc'[v] \in Running /\ stop'
  BY WorkerMoves DEF Unwinding
<1>1. \/ pc[w] = "raising"
      \/ pc[w] \in Awaiting /\ w \in cancelling
      \/ pc[w] \in Running /\ stop
  BY WorkerMoves DEF Unwinding, Awaiting, Running, Finished, Exceptions
<1>2. stop => stop'
  BY DEF WorkerStep, StopWorker, StartSession, FinishSession, EndTurns, StopBeforeTurn, BeginTurn,
         StopBeforeAttempt, BeginAttempt, RequestAnswered, BackoffEnds, DropUnansweredTurn, EndTurn,
         ThinkEnds, CancelUnstarted, CancelSession, HandleException, StopAfter
<1>3. CASE CancelUnstarted(w) \/ CancelSession(w) \/ HandleException(w)
  <2>1. pc'[w] \in Finished \cup {"raising"}
    <3>1. CASE CancelUnstarted(w) \/ CancelSession(w)
      BY <3>1 DEF CancelUnstarted, CancelSession, TaskRaises, GoOn, Await, TaskTypes,
                  Finished, Exceptions
    <3>2. CASE HandleException(w)
      <4>1. status[w] \in {"failed", "cancelled"}
        BY <3>2 DEF HandleException, CursorInv, WellPlaced
      <4> QED
        BY <3>2, <4>1 DEF HandleException, TaskRaises, Await, TaskTypes, Finished, Exceptions
    <3> QED
      BY <1>3, <3>1, <3>2
  <2>2. cancelling' \in {cancelling, cancelling \ {w}}
    BY <1>3 DEF CancelUnstarted, CancelSession, HandleException
  <2>3. ASSUME NEW v \in Workers, v # w
        PROVE  \/ pc'[v] \in Finished \cup {"raising"}
               \/ pc'[v] \in Awaiting /\ v \in cancelling'
               \/ pc'[v] \in Running /\ stop'
    BY <1>2, <2>2, <2>3, OtherWorkersStay DEF Unwinding
  <2> QED
    BY <2>1, <2>3
<1>4. CASE ~(CancelUnstarted(w) \/ CancelSession(w) \/ HandleException(w))
  <2>1. stop
    <3>1. CASE pc[w] = "raising"
      BY <1>4, <3>1 DEF WorkerStep, StopWorker, StartSession, FinishSession, EndTurns, AtLoopTop,
             StopBeforeTurn, BeginTurn, StopBeforeAttempt, BeginAttempt, RequestAnswered,
             BackoffEnds, DropUnansweredTurn, EndTurn, ThinkEnds
    <3>2. CASE pc[w] \in Awaiting /\ w \in cancelling
      BY <1>4, <3>2 DEF WorkerStep, StopWorker, StartSession, FinishSession, EndTurns, AtLoopTop,
             StopBeforeTurn, BeginTurn, StopBeforeAttempt, BeginAttempt, RequestAnswered,
             BackoffEnds, WaitEnds, DropUnansweredTurn, EndTurn, ThinkEnds, Awaiting
    <3> QED
      BY <1>1, <3>1, <3>2
  <2>2. ~(StartSession(w) \/ BeginTurn(w) \/ BeginAttempt(w))
    BY <2>1 DEF StartSession, BeginTurn, BeginAttempt
  <2>3. ~RequestAnswered(w)
    BY <1>1 DEF RequestAnswered, Awaiting, Running
  <2>4. pc'[w] \in Finished \cup Running
    <3>1. CASE StopWorker(w) \/ FinishSession(w)
      BY <3>1 DEF StopWorker, FinishSession, TaskRaises, GoOn, Await, TaskTypes, Finished,
                  Running, Exceptions
    <3>2. CASE EndTurns(w) \/ StopBeforeTurn(w) \/ StopBeforeAttempt(w) \/ DropUnansweredTurn(w)
      BY <3>2 DEF EndTurns, StopBeforeTurn, StopBeforeAttempt, DropUnansweredTurn, GoOn,
                  TaskTypes, Running
    <3>3. CASE EndTurn(w)
      BY <2>1, <3>3 DEF EndTurn, ThinksAfterTurn, GoOn, TaskTypes, Running
    <3>4. CASE BackoffEnds(w) \/ ThinkEnds(w)
      BY <3>4 DEF BackoffEnds, ThinkEnds, GoOn, TaskTypes, Running
    <3> QED
      BY <1>4, <2>2, <2>3, <3>1, <3>2, <3>3, <3>4 DEF WorkerStep
  <2>5. cancelling' \in {cancelling, cancelling \ {w}}
    BY <1>4, <2>2, <2>3 DEF WorkerStep, StopWorker, FinishSession, EndTurns, StopBeforeTurn,
       StopBeforeAttempt, DropUnansweredTurn, EndTurn, BackoffEnds, ThinkEnds, WaitEnds
  <2>6. ASSUME NEW v \in Workers, v # w
        PROVE  \/ pc'[v] \in Finished \cup {"raising"}
               \/ pc'[v] \in Awaiting /\ v \in cancelling'
               \/ pc'[v] \in Running /\ stop'
    BY <1>2, <2>5, <2>6, OtherWorkersStay DEF Unwinding
  <2> QED
    BY <1>2, <2>1, <2>4, <2>6
<1> QED
  BY <1>3, <1>4

\* A worker's step keeps the inductive invariant.
LEMMA WorkerPreserves ==
  ASSUME IndInv, NEW w \in Workers, WorkerStep(w)
  PROVE  IndInv'
BY WorkerMainTypes, WorkerTaskTypes, WorkerEvidenceTypes, WorkerLoopInv, WorkerCursorInv,
   WorkerRecords, WorkerBehindCursor, WorkerOpenAttempts, WorkerUnsummarised, WorkerUnwinding
   DEF IndInv, TypeOK
-----------------------------------------------------------------------------
(* The main task.                                                          *)

\* No step of the main task touches attempts, records or sessions.
LEMMA MainLeavesRequests ==
  ASSUME MainStep
  PROVE  UNCHANGED <<requestEvidence, sessions>>
BY DEF MainStep, EndRamp, StopRamp, StartLevel, ClientDoesNotOpen, EnterLevel, GatherReturns,
       GatherRaises, JoinTasks, CloseClient, JoinSampler, FinishMonitor, ReturnFromLevel,
       BudgetEndsRamp, RaiseFromLevel, evidence

\* Apart from starting a level, the main task leaves the workers where they are.
LEMMA MainKeepsTasks ==
  ASSUME MainStep
  PROVE  \/ StartLevel \/ ClientDoesNotOpen
         \/ UNCHANGED <<level, pc, cursor, messages, turnsCompleted, status>>
BY DEF MainStep, EndRamp, StopRamp, GatherReturns, GatherRaises, JoinTasks, CloseClient,
       JoinSampler, FinishMonitor, ReturnFromLevel, BudgetEndsRamp, RaiseFromLevel, taskVars

MainPc == MainAwaiting \cup {"ramp", "leave"} \cup Ended

\* Where the main task goes; it leaves gather and join with every worker done.
LEMMA MainMoves ==
  ASSUME MainStep
  PROVE  /\ loop \in {Idle, Main}
         /\ runPc \in {"gather", "join"} => loop = Idle
         /\ \E to \in MainPc : MainGoesTo(to)
         /\ runPc \in {"gather", "join"} => runPc' = "join" \/ Undone = {}
         /\ runPc' \in {"gather", "join"} => runPc \in {"gather", "join"} \/ StartLevel
         /\ runPc' \in MainAwaiting \cup {"leave"} => runPc # "ramp" \/ level' \in Levels
<1> USE DEF MainGoesTo, MainPc, MainAwaiting, Ended
<1>1. CASE EndRamp \/ StopRamp
  BY <1>1 DEF EndRamp, StopRamp
<1>2. CASE StartLevel
  BY <1>2 DEF StartLevel, EnterLevel
<1>3. CASE ClientDoesNotOpen
  BY <1>3 DEF ClientDoesNotOpen, EnterLevel, AfterClient, AfterSampler
<1>4. CASE GatherReturns \/ GatherRaises
  BY <1>4 DEF GatherReturns, GatherRaises
<1>5. CASE JoinTasks
  BY <1>5 DEF JoinTasks, TasksJoined
<1>6. CASE CloseClient
  BY <1>6 DEF CloseClient, AfterClient, AfterSampler
<1>7. CASE JoinSampler \/ FinishMonitor
  BY <1>7 DEF JoinSampler, FinishMonitor, AfterSampler
<1>8. CASE ReturnFromLevel
  BY <1>8 DEF ReturnFromLevel
<1>9. CASE BudgetEndsRamp \/ RaiseFromLevel
  BY <1>9 DEF BudgetEndsRamp, RaiseFromLevel
<1> QED
  BY <1>1, <1>2, <1>3, <1>4, <1>5, <1>6, <1>7, <1>8, <1>9 DEF MainStep

\* A step of the main task keeps the types of its own variables.
LEMMA MainMainTypes ==
  ASSUME MainTypes, MainStep
  PROVE  MainTypes'
<1>1. runPc' \in MainPc /\ loop' \in Workers \cup {Idle, Main}
  BY MainMoves DEF MainGoesTo
<1>2. level' \in Levels \cup {0}
  BY MainKeepsTasks DEF StartLevel, ClientDoesNotOpen, EnterLevel, MainTypes
<1>3. raised' \in Exceptions \cup {"none"}
  BY DEF MainTypes, MainStep, EndRamp, StopRamp, StartLevel, ClientDoesNotOpen, EnterLevel,
         GatherReturns, GatherRaises, JoinTasks, CloseClient, JoinSampler, FinishMonitor,
         ReturnFromLevel, BudgetEndsRamp, RaiseFromLevel
<1>4. exc' \in Exceptions \cup {"none"} /\ cancelPending' \in BOOLEAN
  <2> USE DEF MainTypes, Exceptions
  <2>1. CASE EndRamp \/ StopRamp \/ StartLevel \/ ClientDoesNotOpen
    BY <2>1 DEF EndRamp, StopRamp, StartLevel, ClientDoesNotOpen, EnterLevel
  <2>2. CASE GatherReturns
    BY <2>2 DEF GatherReturns
  <2>3. CASE GatherRaises
    BY <2>3 DEF GatherRaises
  <2>4. CASE JoinTasks
    BY <2>4 DEF JoinTasks
  <2>5. CASE CloseClient
    BY <2>5 DEF CloseClient
  <2>6. CASE JoinSampler \/ FinishMonitor
    BY <2>6 DEF JoinSampler, FinishMonitor, AfterSamplerJoined
  <2>7. CASE ReturnFromLevel \/ BudgetEndsRamp \/ RaiseFromLevel
    BY <2>7 DEF ReturnFromLevel, BudgetEndsRamp, RaiseFromLevel
  <2> QED
    BY <2>1, <2>2, <2>3, <2>4, <2>5, <2>6, <2>7 DEF MainStep
<1>5. UNCHANGED cancels /\ gather' \in {gather, {}}
  BY DEF MainStep, EndRamp, StopRamp, StartLevel, ClientDoesNotOpen, EnterLevel,
         GatherReturns, GatherRaises, JoinTasks, CloseClient, JoinSampler, FinishMonitor,
         ReturnFromLevel, BudgetEndsRamp, RaiseFromLevel
<1>6. UNCHANGED stop \/ stop' \in BOOLEAN
  BY DEF MainStep, EndRamp, StopRamp, StartLevel, ClientDoesNotOpen, EnterLevel,
         GatherReturns, GatherRaises, JoinTasks, CloseClient, JoinSampler, FinishMonitor,
         ReturnFromLevel, StopAfter, BudgetEndsRamp, RaiseFromLevel
<1> QED
  BY <1>1, <1>2, <1>3, <1>4, <1>5, <1>6 DEF MainTypes, MainPc

\* A step of the main task keeps the types of the worker tasks' variables.
LEMMA MainTaskTypes ==
  ASSUME TaskTypes, MainStep
  PROVE  TaskTypes'
<1>1. cancelling' \subseteq Workers
  <2> USE DEF TaskTypes, taskVars
  <2>1. CASE EndRamp \/ StopRamp \/ StartLevel \/ ClientDoesNotOpen
    BY <2>1 DEF EndRamp, StopRamp, StartLevel, ClientDoesNotOpen, EnterLevel
  <2>2. CASE GatherReturns \/ GatherRaises
    BY <2>2 DEF GatherReturns, GatherRaises, ToCancel, Undone
  <2>3. CASE JoinTasks \/ CloseClient \/ JoinSampler \/ FinishMonitor
    BY <2>3 DEF JoinTasks, CloseClient, JoinSampler, FinishMonitor
  <2>4. CASE ReturnFromLevel \/ BudgetEndsRamp \/ RaiseFromLevel
    BY <2>4 DEF ReturnFromLevel, BudgetEndsRamp, RaiseFromLevel
  <2> QED
    BY <2>1, <2>2, <2>3, <2>4 DEF MainStep
<1>2. CASE StartLevel
  <2>1. [n |-> 0, turns |-> TurnsMin, turn |-> 0, attempt |-> 0] \in Cursor
    BY SessionAssumption DEF Cursor
  <2>2. cursor' \in [Workers -> Cursor]
    BY <1>2, <2>1 DEF StartLevel
  <2>3. messages' \in [Workers -> Seq(Roles)]
    BY <1>2 DEF StartLevel
  <2>4. turnsCompleted' \in [Workers -> 0..TurnsMax]
    BY <1>2, SessionAssumption DEF StartLevel
  <2>5. status' \in [Workers -> SessionStatus]
    BY <1>2 DEF StartLevel, SessionStatus
  <2>6. pc' \in [Workers -> Awaiting \cup Running \cup Finished]
    BY <1>2 DEF StartLevel, Awaiting, Finished
  <2> QED
    BY <1>1, <2>2, <2>3, <2>4, <2>5, <2>6 DEF TaskTypes
<1>3. CASE ClientDoesNotOpen
  BY <1>1, <1>3 DEF ClientDoesNotOpen, TaskTypes, Finished
<1>4. CASE UNCHANGED <<level, pc, cursor, messages, turnsCompleted, status>>
  BY <1>1, <1>4 DEF TaskTypes
<1> QED
  BY <1>2, <1>3, <1>4, MainKeepsTasks

\* A step of the main task keeps the types of the evidence.
LEMMA MainEvidenceTypes ==
  ASSUME EvidenceTypes, MainStep
  PROVE  EvidenceTypes'
<1> USE DEF EvidenceTypes, statusEvidence, SetStatus, StatusOf, RunStatus
<1>1. runStatus' \in RunStatus /\ levelStatus' \in [Levels -> RunStatus \cup {"none"}]
  <2>1. CASE EndRamp \/ StopRamp
    BY <2>1 DEF EndRamp, StopRamp
  <2>2. CASE StartLevel \/ ClientDoesNotOpen
    BY <2>2 DEF StartLevel, ClientDoesNotOpen
  <2>3. CASE GatherReturns \/ GatherRaises
    BY <2>3 DEF GatherReturns, GatherRaises, evidence
  <2>4. CASE JoinTasks
    BY <2>4 DEF JoinTasks
  <2>5. CASE CloseClient
    BY <2>5 DEF CloseClient
  <2>6. CASE JoinSampler \/ FinishMonitor
    BY <2>6 DEF JoinSampler, FinishMonitor, evidence
  <2>7. CASE ReturnFromLevel
    BY <2>7 DEF ReturnFromLevel, LevelOutcome
  <2>8. CASE BudgetEndsRamp \/ RaiseFromLevel
    BY <2>8 DEF BudgetEndsRamp, RaiseFromLevel
  <2> QED
    BY <2>1, <2>2, <2>3, <2>4, <2>5, <2>6, <2>7, <2>8 DEF MainStep
<1> QED
  BY <1>1, MainLeavesRequests DEF requestEvidence

\* Neither at a ramp nor once gather and join are over is any worker at work.
LEMMA MainLoopInv ==
  ASSUME MainTypes, TaskTypes, LoopInv, MainStep
  PROVE  LoopInv'
<1>1. \A w \in Workers : pc[w] \notin Running
  BY MainMoves, TaskAssumption DEF LoopInv
<1>2. StartLevel \/ ClientDoesNotOpen => runPc = "ramp"
  BY DEF StartLevel, ClientDoesNotOpen, EnterLevel
<1>3. \A w \in Workers : pc'[w] = pc[w] \/ pc'[w] \in {"ready", "idle"}
  BY MainKeepsTasks DEF StartLevel, ClientDoesNotOpen
<1>4. \A w \in Workers : pc'[w] \notin Running
  BY <1>1, <1>3 DEF Running
<1>5. loop' \in {Idle, Main}
  BY MainMoves DEF MainGoesTo
<1>6. loop' = Main <=> runPc' \in {"ramp", "leave"}
  BY MainMoves, TaskAssumption DEF MainGoesTo, MainPc, MainAwaiting, Ended
<1>7. ASSUME runPc' \notin {"gather", "join"} PROVE \A w \in Workers : pc'[w] \in Finished
  <2>1. \A w \in Workers : pc[w] \in Finished
    <3>1. CASE runPc \in {"gather", "join"}
      BY <1>1, <1>7, <3>1, MainMoves DEF Undone, TaskTypes
    <3>2. CASE runPc \notin {"gather", "join"}
      BY <3>2 DEF LoopInv
    <3> QED
      BY <3>1, <3>2
  <2>2. ~StartLevel
    BY <1>7 DEF StartLevel, MainGoesTo
  <2> QED
    BY <2>1, <2>2, MainKeepsTasks DEF ClientDoesNotOpen, Finished
<1>8. ASSUME runPc' \in MainAwaiting \cup {"leave"} PROVE level' \in Levels
  <2>1. CASE runPc = "ramp"
    BY <1>8, <2>1, MainMoves
  <2>2. CASE runPc # "ramp"
    <3>1. runPc \notin Ended
      BY DEF MainStep, EndRamp, StopRamp, StartLevel, ClientDoesNotOpen, EnterLevel,
             GatherReturns, GatherRaises, JoinTasks, CloseClient, JoinSampler, FinishMonitor,
             ReturnFromLevel, BudgetEndsRamp, RaiseFromLevel, Ended
    <3>2. level \in Levels
      BY <2>2, <3>1 DEF LoopInv, MainTypes
    <3> QED
      BY <1>2, <2>2, <3>2, MainKeepsTasks
  <2> QED
    BY <2>1, <2>2
<1> QED
  BY <1>4, <1>5, <1>6, <1>7, <1>8, TaskAssumption DEF LoopInv

\* A step of the main task keeps every cursor well placed.
LEMMA MainCursorInv ==
  ASSUME CursorInv, MainStep
  PROVE  CursorInv'
<1>1. CASE StartLevel
  <2>1. \A w \in Workers : pc'[w] \in {"ready", "idle"} /\ cursor'[w].n = 0
    BY <1>1 DEF StartLevel
  <2> QED
    BY <2>1 DEF CursorInv, WellPlaced, InSession, InAttempt
<1>2. CASE ClientDoesNotOpen
  <2>1. \A w \in Workers : pc'[w] = "idle"
    BY <1>2 DEF ClientDoesNotOpen
  <2> QED
    BY <2>1 DEF CursorInv, WellPlaced, InSession, InAttempt
<1>3. CASE UNCHANGED <<level, pc, cursor, messages, turnsCompleted, status>>
  BY <1>3 DEF CursorInv, WellPlaced, LastRole
<1> QED
  BY <1>1, <1>2, <1>3, MainKeepsTasks

\* When a level starts every earlier attempt is closed and summarised.
LEMMA MainAttempts ==
  ASSUME IndInv, MainStep
  PROVE  AttemptsBehindCursor' /\ OpenAttempts' /\ UnsummarisedInProgress'
<1> USE DEF IndInv
<1>a. UNCHANGED <<attempts, dispatched, sessions>>
  BY MainLeavesRequests DEF requestEvidence
<1>1. CASE StartLevel \/ ClientDoesNotOpen
  <2>1. level' \in Levels /\ level' > level
    BY <1>1 DEF StartLevel, ClientDoesNotOpen, EnterLevel, LevelsAfter
  <2>2. \A w \in Workers : pc[w] \in Finished
    BY <1>1 DEF StartLevel, ClientDoesNotOpen, EnterLevel, LoopInv
  <2>3. \A w \in Workers : pc'[w] \in {"ready", "idle"}
    BY <1>1 DEF StartLevel, ClientDoesNotOpen
  <2>4. \A a \in Attempt : a.worker \in Workers /\ a.concurrency \in Nat
    BY RampAssumption DEF Attempt, Levels
  <2>5. \A a \in Attempt : attempts[a] # "starting"
    BY <2>2, <2>4 DEF OpenAttempts, Finished, Exceptions
  <2>6. \A a \in Attempt : attempts[a] # "none" => sessions[SessionOf(a)] # NoSession
    BY <2>2, <2>4 DEF UnsummarisedInProgress, Finished, Exceptions, InSession
  <2>7. AttemptsBehindCursor'
    <3>1. level \in Nat /\ level' \in Nat
      BY <2>1, RampAssumption DEF TypeOK, MainTypes, Levels
    <3>2. ASSUME NEW a \in Attempt, attempts[a] # "none" PROVE a.concurrency < level'
      BY <2>1, <2>4, <3>1, <3>2 DEF AttemptsBehindCursor
    <3> QED
      BY <1>a, <2>4, <3>1, <3>2 DEF AttemptsBehindCursor
  <2>8. OpenAttempts'
    BY <1>a, <2>3, <2>5 DEF OpenAttempts
  <2>9. UnsummarisedInProgress'
    BY <1>a, <2>6 DEF UnsummarisedInProgress
  <2> QED
    BY <2>7, <2>8, <2>9
<1>2. CASE UNCHANGED <<level, pc, cursor, messages, turnsCompleted, status>>
  BY <1>a, <1>2 DEF AttemptsBehindCursor, BehindCursor, OpenAttempts, CurrentAttempt,
                    UnsummarisedInProgress
<1> QED
  BY <1>1, <1>2, MainKeepsTasks

\* A step of the main task keeps the inductive invariant.
LEMMA MainPreserves ==
  ASSUME IndInv, MainStep
  PROVE  IndInv'
<1> USE DEF IndInv
<1>1. RecordsMatchAttempts'
  BY MainLeavesRequests DEF RecordsMatchAttempts, requestEvidence
<1>2. Unwinding'
  <2> SUFFICES ASSUME runPc' = "join" PROVE Unwinding'
    BY DEF Unwinding
  <2>1. GatherRaises
    BY DEF MainStep, MainGoesTo, AfterClient, AfterSampler, EndRamp, StopRamp, StartLevel,
           ClientDoesNotOpen, GatherReturns, JoinTasks, CloseClient, JoinSampler,
           FinishMonitor, ReturnFromLevel, BudgetEndsRamp, RaiseFromLevel
  <2>2. UNCHANGED pc /\ cancelling' = Undone /\ loop = Idle
    BY <2>1 DEF GatherRaises, ToCancel
  <2>3. \A w \in Workers : pc[w] \notin Running
    BY <2>2, TaskAssumption DEF LoopInv
  <2> QED
    BY <2>2, <2>3 DEF Unwinding, Undone, TypeOK, TaskTypes
<1> QED
  BY <1>1, MainMainTypes, MainTaskTypes, MainEvidenceTypes, MainLoopInv, MainCursorInv,
     MainAttempts, <1>2 DEF TypeOK
-----------------------------------------------------------------------------
(* The theorems.                                                           *)

\* The inductive invariant holds when run_ramp is called.
LEMMA InitIndInv == Init => IndInv
<1> SUFFICES ASSUME Init PROVE IndInv
  OBVIOUS
<1> USE DEF Init
<1>1. MainTypes
  <2>1. stop \in BOOLEAN
    <3>1. stop = FALSE \/ stop = ("stop" \in Disturbances)
      OBVIOUS
    <3>2. ("stop" \in Disturbances) \in BOOLEAN
      OBVIOUS
    <3> QED
      BY <3>1, <3>2
  <2>2. /\ loop = Main /\ runPc = "ramp" /\ level = 0 /\ raised = "none" /\ gather = {}
        /\ exc = "none"
        /\ cancelPending = FALSE /\ cancels = 0
    OBVIOUS
  <2> HIDE DEF Init
  <2>3. cancels \in 0..MaxCancels
    BY <2>2, SessionAssumption
  <2>4. cancelPending \in BOOLEAN
    BY <2>2
  <2> QED
    BY <2>1, <2>2, <2>3, <2>4 DEF MainTypes
<1>2. TaskTypes
  <2>1. [n |-> 0, turns |-> TurnsMin, turn |-> 0, attempt |-> 0] \in Cursor
    BY SessionAssumption DEF Cursor
  <2>2. cursor \in [Workers -> Cursor]
    BY <2>1
  <2>3. messages \in [Workers -> Seq(Roles)]
    OBVIOUS
  <2> QED
    BY <2>2, <2>3, SessionAssumption DEF TaskTypes, Finished, SessionStatus
<1>3. EvidenceTypes
  BY DEF EvidenceTypes, AttemptStatus, RunStatus
<1>4. LoopInv
  BY TaskAssumption DEF LoopInv, Running, Finished, MainAwaiting
<1>5. CursorInv
  BY DEF CursorInv, WellPlaced, InSession, InAttempt
<1>6. RecordsMatchAttempts
  BY DEF RecordsMatchAttempts
<1>7. AttemptsBehindCursor /\ UnsummarisedInProgress /\ Unwinding
  BY DEF AttemptsBehindCursor, UnsummarisedInProgress, Unwinding
<1>8. OpenAttempts
  BY DEF OpenAttempts
<1> QED
  BY <1>1, <1>2, <1>3, <1>4, <1>5, <1>6, <1>7, <1>8 DEF IndInv, TypeOK

\* An external stop or cancellation keeps the inductive invariant, and so does
\* the callback of gather.
LEMMA EnvironmentPreserves ==
  ASSUME IndInv, SetStop \/ CancelRun \/ GatherIsTold
  PROVE  IndInv'
<1>1. UNCHANGED <<loop, runPc, level, raised, exc, evidence, pc, cursor, messages,
                  turnsCompleted, status>>
  BY DEF SetStop, CancelRun, GatherIsTold, mainVars, taskVars
<1>2. /\ cancelPending' \in BOOLEAN /\ cancels' \in 0..MaxCancels /\ stop' \in BOOLEAN
      /\ gather' \subseteq {"cancelled", "done"}
  <2>1. /\ cancelPending \in BOOLEAN /\ stop \in BOOLEAN /\ gather \subseteq {"cancelled", "done"}
        /\ cancels \in 0..MaxCancels /\ MaxCancels \in Nat
    BY SessionAssumption DEF IndInv, TypeOK, MainTypes
  <2>2. CASE SetStop
    BY <2>1, <2>2 DEF SetStop, mainVars
  <2>3. CASE CancelRun
    <3>1. /\ cancels < MaxCancels /\ cancels' = cancels + 1 /\ stop' = stop
          /\ cancelPending' = cancelPending \/ cancelPending' = TRUE
          /\ gather' = gather \/ gather' = gather \cup {"cancelled"}
      BY <2>3 DEF CancelRun
    <3>2. cancels' \in 0..MaxCancels
      BY <2>1, <3>1
    <3>3. gather' \subseteq {"cancelled", "done"}
      BY <2>1, <3>1
    <3> QED
      BY <2>1, <3>1, <3>2, <3>3
  <2>4. CASE GatherIsTold
    BY <2>1, <2>4 DEF GatherIsTold
  <2> QED
    BY <2>2, <2>3, <2>4
<1>3. cancelling' \subseteq Workers
  BY DEF SetStop, CancelRun, GatherIsTold, taskVars, Undone, IndInv, TypeOK, TaskTypes
<1>4. TypeOK'
  BY <1>1, <1>2, <1>3 DEF IndInv, TypeOK, MainTypes, TaskTypes, EvidenceTypes, evidence,
                          requestEvidence, statusEvidence
<1>5. LoopInv' /\ CursorInv'
  BY <1>1 DEF IndInv, LoopInv, CursorInv, WellPlaced, LastRole
<1>6. RecordsMatchAttempts' /\ AttemptsBehindCursor' /\ OpenAttempts' /\ UnsummarisedInProgress'
  BY <1>1 DEF IndInv, RecordsMatchAttempts, AttemptsBehindCursor, BehindCursor, OpenAttempts,
              CurrentAttempt, UnsummarisedInProgress, evidence, requestEvidence
<1>7. Unwinding'
  <2>1. runPc = "join" => UNCHANGED cancelling
    BY DEF SetStop, CancelRun, GatherIsTold, GatherTakesCancellation, taskVars
  <2>2. stop => stop'
    BY DEF SetStop, CancelRun, GatherIsTold
  <2> QED
    BY <1>1, <2>1, <2>2 DEF IndInv, Unwinding
<1> QED
  BY <1>4, <1>5, <1>6, <1>7 DEF IndInv

\* A step that changes nothing keeps the inductive invariant.
LEMMA StutterPreserves ==
  ASSUME IndInv, UNCHANGED vars
  PROVE  IndInv'
<1> USE DEF vars, mainVars, taskVars, evidence, requestEvidence, statusEvidence, IndInv
<1>1. TypeOK'
  BY DEF TypeOK, MainTypes, TaskTypes, EvidenceTypes
<1>2. LoopInv' /\ CursorInv'
  <2>1. LoopInv'
    BY DEF LoopInv
  <2>2. CursorInv'
    BY DEF CursorInv, WellPlaced, LastRole
  <2> QED
    BY <2>1, <2>2
<1>3. /\ RecordsMatchAttempts' /\ AttemptsBehindCursor' /\ OpenAttempts'
      /\ UnsummarisedInProgress' /\ Unwinding'
  BY DEF RecordsMatchAttempts, AttemptsBehindCursor, BehindCursor, OpenAttempts,
         CurrentAttempt, UnsummarisedInProgress, Unwinding
<1> QED
  BY <1>1, <1>2, <1>3

\* The strengthening is inductive: it holds in every reachable state of every
\* instance of the generator.
THEOREM Inductive == Spec => []IndInv
<1>1. IndInv /\ [Next]_vars => IndInv'
  BY WorkerPreserves, MainPreserves, EnvironmentPreserves, StutterPreserves DEF Next, Terminated
<1> QED
  BY InitIndInv, <1>1, PTL DEF Spec

\* pool.py, session.py, lifecycle.py keep every variable in its type.
THEOREM TypeCorrect == Spec => []TypeOK
<1>1. IndInv => TypeOK
  BY DEF IndInv
<1> QED
  BY Inductive, <1>1, PTL

\* lifecycle.py:31-32: a request record exists exactly for the completed
\* attempts, and every recorded attempt was dispatched.
THEOREM RecordsCorrect == Spec => []RecordsMatchAttempts
<1>1. IndInv => RecordsMatchAttempts
  BY DEF IndInv
<1> QED
  BY Inductive, <1>1, PTL

\* pool.py:91-98: once a level is past gather and join no worker runs, no
\* attempt is open and every session with an attempt has its summary.
THEOREM NothingLeft == Spec => []NothingLeftRunning
<1>1. IndInv => NothingLeftRunning
  <2> SUFFICES ASSUME IndInv, runPc \notin {"gather", "join"} PROVE NothingLeftRunning
    BY DEF NothingLeftRunning
  <2>1. \A w \in Workers : pc[w] \in Finished
    BY DEF IndInv, LoopInv
  <2>2. \A a \in Attempt : a.worker \in Workers
    BY DEF Attempt
  <2>3. \A a \in Attempt : attempts[a] # "starting"
    BY <2>1, <2>2 DEF IndInv, OpenAttempts, Finished, Exceptions
  <2>4. \A a \in Attempt : attempts[a] # "none" => sessions[SessionOf(a)] # NoSession
    BY <2>1, <2>2 DEF IndInv, UnsummarisedInProgress, InSession, Finished, Exceptions
  <2> QED
    BY <2>1, <2>3, <2>4 DEF NothingLeftRunning
<1> QED
  BY Inductive, <1>1, PTL

-----------------------------------------------------------------------------
(* 2. Admission.                                                           *)

\* A step either begins an attempt, when nothing prevents it, or makes none.
LEMMA StepAdmission ==
  ASSUME IndInv, [Next]_vars
  PROVE  \/ /\ UNCHANGED dispatched
            /\ \A a \in Attempt : attempts[a] = "none" => attempts'[a] = "none"
         \/ \E w \in Workers : BeginAttempt(w) /\ ~stop /\ runPc = "gather"
<1>1. CASE \E w \in Workers : WorkerStep(w)
  <2> PICK w \in Workers : WorkerStep(w)
    BY <1>1
  <2>1. CASE BeginAttempt(w)
    <3>1. ~stop /\ pc[w] = "attempt"
      BY <2>1 DEF BeginAttempt
    <3>2. runPc \in {"gather", "join"}
      BY <3>1 DEF IndInv, LoopInv, Finished, Exceptions
    <3>3. runPc # "join"
      BY <3>1 DEF IndInv, Unwinding, Finished, Exceptions, Awaiting
    <3> QED
      BY <2>1, <3>1, <3>2, <3>3
  <2>2. CASE ~BeginAttempt(w)
    <3>1. UNCHANGED dispatched
      BY <2>2, WorkerEvidence DEF RequestAnswered, FinishSession, HandleException, requestEvidence
    <3>2. ASSUME NEW a \in Attempt, attempts[a] = "none" PROVE attempts'[a] = "none"
      <4>1. ~(RequestAnswered(w) /\ a = CurrentAttempt(w))
        BY <3>2 DEF RequestAnswered, IndInv, OpenAttempts
      <4> QED
        BY <2>2, <3>2, <4>1, WorkerAttempts DEF IndInv
    <3> QED
      BY <3>1, <3>2
  <2> QED
    BY <2>1, <2>2
<1>2. CASE MainStep
  BY <1>2, MainLeavesRequests DEF requestEvidence
<1>3. CASE SetStop \/ CancelRun \/ GatherIsTold \/ UNCHANGED vars
  BY <1>3 DEF SetStop, CancelRun, GatherIsTold, vars, evidence, requestEvidence
<1> QED
  BY <1>1, <1>2, <1>3 DEF Next, Terminated

\* docs/output-format.md:490-491: a step that ends with stop set, or a level
\* whose workers were cancelled, dispatches nothing; no attempt starts then.
THEOREM StopClosesAdmission == Spec => AdmissionClosed
<1>1. ASSUME IndInv, [Next]_vars
      PROVE  [/\ stop' \/ runPc = "join" => dispatched' = dispatched
              /\ stop \/ runPc = "join" =>
                   \A a \in Attempt : attempts[a] = "none" => attempts'[a] = "none"]_vars
  <2>1. CASE \E w \in Workers : BeginAttempt(w) /\ ~stop /\ runPc = "gather"
    <3> PICK w \in Workers : BeginAttempt(w) /\ ~stop /\ runPc = "gather"
      BY <2>1
    <3>1. stop' => UNCHANGED dispatched
      BY DEF BeginAttempt, StopSeenAfterStart, StopAfter
    <3> QED
      BY <3>1
  <2> QED
    BY <1>1, <2>1, StepAdmission
<1> QED
  BY Inductive, <1>1, PTL DEF Spec, AdmissionClosed
-----------------------------------------------------------------------------
(* Refinement: how the steps of the generator map to those of              *)
(* AdmissionControl.                                                       *)

Settled == {a \in dispatched : attempts[a] # "starting"}
Over == runPc \in Ended
Promised == <<dispatched, Settled, ~stop, Over>>

\* The generator starts as AdmissionControl does.
LEMMA InitRefines == Init => Admission!Init
BY DEF Init, Admission!Init, Ended

\* During a level the run is not over, before and after a worker's step.
LEMMA WorkerNotOver ==
  ASSUME IndInv, NEW w \in Workers, WorkerStep(w)
  PROVE  ~Over /\ ~Over'
BY WorkerMoves DEF IndInv, LoopInv, Over, Ended, Awaiting, Running, Finished, Exceptions

\* Stop is never taken back, which is all MayClose asks.
LEMMA StopIsFinal ==
  ASSUME stop' = stop \/ stop' = TRUE
  PROVE  Admission!MayClose
<1>1. CASE stop' = stop
  BY <1>1 DEF Admission!MayClose
<1>2. CASE stop' = TRUE
  BY <1>2 DEF Admission!MayClose
<1> QED
  BY <1>1, <1>2

\* An observer leaves stop as it was or sets it.
LEMMA StopAfterIs ==
  ASSUME stop \in BOOLEAN, NEW o \in Observation
  PROVE  StopAfter(o) = IF o = "stops" THEN TRUE ELSE stop
<1>1. CASE stop = TRUE
  BY <1>1 DEF StopAfter
<1>2. CASE stop = FALSE
  BY <1>2 DEF StopAfter
<1> QED
  BY <1>1, <1>2

\* Beginning an attempt admits a request, closes admission, or neither.
LEMMA BeginAttemptRefines ==
  ASSUME IndInv, NEW w \in Workers, BeginAttempt(w)
  PROVE  Admission!Next \/ UNCHANGED Promised
<1>0. attempts \in [Attempt -> AttemptStatus]
  BY DEF IndInv, TypeOK, EvidenceTypes
<1>1. /\ CurrentAttempt(w) \in Attempt /\ attempts[CurrentAttempt(w)] = "none"
      /\ CurrentAttempt(w) \notin dispatched
  BY InSessionCurrent, NextAttemptIsNew DEF BeginAttempt, RecordsMatchAttempts, InSession, InAttempt, IndInv
<1>2. ~Over /\ UNCHANGED Over /\ ~stop
  BY WorkerNotOver DEF WorkerStep, BeginAttempt, mainVars, Over
<1>3. CASE /\ attempts' = [attempts EXCEPT ![CurrentAttempt(w)] = "starting"]
           /\ UNCHANGED <<dispatched, stop>>
  <2>1. UNCHANGED Settled
    BY <1>0, <1>1, <1>3 DEF Settled
  <2> QED
    BY <1>2, <1>3, <2>1 DEF Promised
<1>4. CASE /\ attempts' = [attempts EXCEPT ![CurrentAttempt(w)] = "stopped"]
           /\ UNCHANGED dispatched /\ stop'
  <2>1. UNCHANGED Settled
    BY <1>0, <1>1, <1>4 DEF Settled
  <2>2. Admission!Close
    BY <1>2, <1>4, <2>1 DEF Admission!Close, Settled, Over
  <2> QED
    BY <2>2 DEF Admission!Next
<1>5. CASE /\ attempts' = [attempts EXCEPT ![CurrentAttempt(w)] = "starting"]
           /\ dispatched' = dispatched \cup {CurrentAttempt(w)} /\ UNCHANGED stop
  <2>1. UNCHANGED Settled
    BY <1>0, <1>1, <1>5 DEF Settled
  <2>2. PICK r \in Attempt : r = CurrentAttempt(w)
    BY <1>1
  <2>3. Admission!Admit(r)
    BY <1>1, <1>2, <1>5, <2>1, <2>2 DEF Admission!Admit, Settled, Over
  <2> QED
    BY <2>3 DEF Admission!Next
<1>6. PICK o \in Observation : BeginAttempt(w)!3!(o)
  BY DEF BeginAttempt
<1>a. stop \in BOOLEAN
  BY DEF IndInv, TypeOK, MainTypes
<1>7. CASE o = "raises"
  BY <1>3, <1>6, <1>7, <1>a, StopAfterIs
<1>8. CASE o = "stops"
  BY <1>4, <1>6, <1>8, <1>a, StopAfterIs DEF StopSeenAfterStart
<1>9. CASE o = "returns"
  BY <1>2, <1>5, <1>6, <1>9, <1>a, StopAfterIs DEF StopSeenAfterStart
<1> QED
  BY <1>7, <1>8, <1>9 DEF Observation

\* An answer settles one request, and may close admission.
LEMMA RequestAnsweredRefines ==
  ASSUME IndInv, NEW w \in Workers, RequestAnswered(w)
  PROVE  Admission!Next \/ UNCHANGED Promised
<1>0. attempts \in [Attempt -> AttemptStatus]
  BY DEF IndInv, TypeOK, EvidenceTypes
<1>1. /\ CurrentAttempt(w) \in Attempt /\ attempts[CurrentAttempt(w)] = "starting"
      /\ CurrentAttempt(w) \in dispatched
  BY InSessionCurrent DEF RequestAnswered, OpenAttempts, InSession, InAttempt, IndInv
<1>2. ~Over /\ UNCHANGED Over
  BY WorkerNotOver DEF WorkerStep, RequestAnswered, mainVars, Over
<1>3. attempts' = [attempts EXCEPT ![CurrentAttempt(w)] = "completed"] /\ UNCHANGED dispatched
  BY DEF RequestAnswered, FinishedStatus
<1>4. Settled' = Settled \cup {CurrentAttempt(w)}
  BY <1>0, <1>1, <1>3 DEF Settled
<1>5. CurrentAttempt(w) \notin Settled
  BY <1>1 DEF Settled
<1>6. Admission!MayClose
  <2>1. stop' = stop \/ stop' = TRUE
    BY StopAfterIs DEF RequestAnswered, IndInv, TypeOK, MainTypes
  <2> QED
    BY <2>1, StopIsFinal
<1>7. PICK r \in Attempt : r = CurrentAttempt(w)
  BY <1>1
<1>8. Admission!Settle(r)
  BY <1>1, <1>2, <1>3, <1>4, <1>5, <1>6, <1>7 DEF Admission!Settle, Settled, Over
<1> QED
  BY <1>8 DEF Admission!Next

\* An exception settles the request that was in flight, if there was one.
LEMMA HandleExceptionRefines ==
  ASSUME IndInv, NEW w \in Workers, HandleException(w)
  PROVE  Admission!Next \/ UNCHANGED Promised
<1>0. attempts \in [Attempt -> AttemptStatus]
  BY DEF IndInv, TypeOK, EvidenceTypes
<1>1. CurrentAttempt(w) \in Attempt
  BY InSessionCurrent DEF HandleException, InSession, InAttempt, IndInv, TypeOK
<1>2. ~Over /\ UNCHANGED <<Over, dispatched, stop>>
  BY WorkerNotOver DEF WorkerStep, HandleException, Over
<1>3. status[w] \in {"failed", "cancelled"}
  BY DEF HandleException, CursorInv, WellPlaced, IndInv
<1>4. CASE attempts[CurrentAttempt(w)] = "starting" /\ CurrentAttempt(w) \in dispatched
  <2>1. attempts' = [attempts EXCEPT ![CurrentAttempt(w)] = status[w]]
    BY <1>4 DEF HandleException
  <2>2. Settled' = Settled \cup {CurrentAttempt(w)}
    BY <1>0, <1>1, <1>2, <1>3, <1>4, <2>1 DEF Settled
  <2>3. CurrentAttempt(w) \notin Settled
    BY <1>4 DEF Settled
  <2>4. PICK r \in Attempt : r = CurrentAttempt(w)
    BY <1>1
  <2>5. Admission!Settle(r)
    BY <1>2, <1>4, <2>2, <2>3, <2>4, StopIsFinal DEF Admission!Settle, Settled, Over
  <2> QED
    BY <2>5 DEF Admission!Next
<1>5. CASE attempts[CurrentAttempt(w)] # "starting" \/ CurrentAttempt(w) \notin dispatched
  <2>1. \A a \in dispatched : attempts'[a] = attempts[a]
    <3>1. dispatched \subseteq Attempt
      BY DEF IndInv, TypeOK, EvidenceTypes
    <3> QED
      BY <1>0, <1>1, <1>5, <3>1 DEF HandleException
  <2>2. UNCHANGED Settled
    BY <1>2, <2>1 DEF Settled
  <2> QED
    BY <1>2, <2>2 DEF Promised
<1> QED
  BY <1>4, <1>5

\* The other steps of a worker neither admit nor settle anything.
LEMMA OtherWorkerStepsStutter ==
  ASSUME IndInv, NEW w \in Workers, WorkerStep(w),
         ~BeginAttempt(w), ~RequestAnswered(w), ~HandleException(w)
  PROVE  UNCHANGED Promised
<1>1. UNCHANGED <<attempts, dispatched>>
  BY WorkerEvidence DEF FinishSession, requestEvidence
<1>2. UNCHANGED Settled
  BY <1>1 DEF Settled
<1>3. UNCHANGED runPc
  BY WorkerMoves DEF IndInv
<1>4. UNCHANGED stop
  BY DEF WorkerStep, StopWorker, StartSession, FinishSession, EndTurns, StopBeforeTurn,
         BeginTurn, StopBeforeAttempt, BackoffEnds, WaitEnds, DropUnansweredTurn, EndTurn, ThinkEnds,
         CancelUnstarted, CancelSession
<1> QED
  BY <1>1, <1>2, <1>3, <1>4 DEF Promised, Over

\* The run ends with every request settled; other steps of the main task leave
\* the promise alone.
LEMMA MainRefines ==
  ASSUME IndInv, MainStep
  PROVE  Admission!Next \/ UNCHANGED Promised
<1>1. UNCHANGED <<attempts, dispatched>> /\ UNCHANGED Settled
  BY MainLeavesRequests DEF requestEvidence, Settled
<1>2. ~Over
  BY DEF Over, MainStep, EndRamp, StopRamp, StartLevel, ClientDoesNotOpen, EnterLevel,
         GatherReturns, GatherRaises, JoinTasks, CloseClient, JoinSampler, FinishMonitor,
         ReturnFromLevel, BudgetEndsRamp, RaiseFromLevel, Ended
<1>3. UNCHANGED stop \/ ReturnFromLevel
  BY DEF MainStep, EndRamp, StopRamp, StartLevel, ClientDoesNotOpen, EnterLevel,
         GatherReturns, GatherRaises, JoinTasks, CloseClient, JoinSampler, FinishMonitor,
         BudgetEndsRamp, RaiseFromLevel
<1>4. CASE Over'
  <2>1. runPc \in {"ramp", "leave"}
    BY <1>4 DEF Over, Ended, MainStep, MainGoesTo, AfterClient, AfterSampler, EndRamp, StopRamp,
           StartLevel, ClientDoesNotOpen, GatherReturns, GatherRaises, JoinTasks, CloseClient,
           JoinSampler, FinishMonitor, ReturnFromLevel, BudgetEndsRamp, RaiseFromLevel
  <2>2. \A a \in Attempt : attempts[a] # "starting"
    BY <2>1 DEF IndInv, OpenAttempts, LoopInv, Attempt, Finished, Exceptions
  <2>3. Settled = dispatched
    BY <2>2 DEF Settled, IndInv, TypeOK, EvidenceTypes
  <2>4. Admission!MayClose
    <3>1. stop' = stop \/ stop' = TRUE
      BY <1>3, StopAfterIs DEF ReturnFromLevel, IndInv, TypeOK, MainTypes
    <3> QED
      BY <3>1, StopIsFinal
  <2>5. Admission!Finish
    BY <1>1, <1>2, <1>4, <2>3, <2>4 DEF Admission!Finish, Settled, Over
  <2> QED
    BY <2>5 DEF Admission!Next
<1>5. CASE ~Over'
  <2>1. UNCHANGED stop
    BY <1>3, <1>5 DEF ReturnFromLevel, StopAfter, MainGoesTo, Over, Ended, IndInv, TypeOK, MainTypes
  <2> QED
    BY <1>1, <1>2, <1>5, <2>1 DEF Promised, Over
<1> QED
  BY <1>4, <1>5

\* An external stop closes admission; an external cancellation does nothing to it.
LEMMA EnvironmentRefines ==
  ASSUME SetStop \/ CancelRun \/ GatherIsTold \/ UNCHANGED vars
  PROVE  Admission!Next \/ UNCHANGED Promised
<1>1. UNCHANGED <<attempts, dispatched, runPc>>
  BY DEF SetStop, CancelRun, GatherIsTold, vars, evidence, requestEvidence, mainVars
<1>2. UNCHANGED Settled /\ UNCHANGED Over
  BY <1>1 DEF Settled, Over
<1>3. CASE SetStop
  BY <1>1, <1>2, <1>3 DEF SetStop, Admission!Next, Admission!Close, Settled, Over
<1>4. CASE CancelRun \/ GatherIsTold \/ UNCHANGED vars
  BY <1>1, <1>2, <1>4 DEF CancelRun, GatherIsTold, vars, Promised
<1> QED
  BY <1>3, <1>4

\* The load generator implements AdmissionControl: a request is admitted once
\* and settles once, stop is final, and the run ends with every request settled.
THEOREM Refinement == Spec => AdmissionSpec
<1>1. ASSUME IndInv, [Next]_vars PROVE [Admission!Next]_(Admission!vars)
  <2>1. UNCHANGED Promised => UNCHANGED Admission!vars
    BY DEF Promised, Admission!vars, Settled, Over
  <2>2. CASE \E w \in Workers : WorkerStep(w)
    BY <1>1, <2>1, <2>2, BeginAttemptRefines, RequestAnsweredRefines, HandleExceptionRefines,
       OtherWorkerStepsStutter
  <2>3. CASE MainStep
    BY <1>1, <2>1, <2>3, MainRefines
  <2>4. CASE SetStop \/ CancelRun \/ GatherIsTold \/ UNCHANGED vars
    BY <2>1, <2>4, EnvironmentRefines
  <2> QED
    BY <1>1, <2>2, <2>3, <2>4 DEF Next, Terminated
<1> QED
  BY Inductive, InitRefines, <1>1, PTL DEF Spec, AdmissionSpec, Admission!Spec

-----------------------------------------------------------------------------
(* 3. Conversations: what a session has recorded, and what its summary says. *)

\* User and assistant take turns, the user first.
Alternates(m) == \A i \in DOMAIN m : m[i] = IF i % 2 = 1 THEN "user" ELSE "assistant"

\* A session in progress has as many turns in its count and its transcript as
\* accepted attempts in the records, and no summary yet.
Tallied(w) ==
  pc[w] \in InSession =>
    /\ Alternates(messages[w])
    /\ Len(messages[w]) \in {2 * turnsCompleted[w], 2 * turnsCompleted[w] + 1}
    /\ pc[w] \in {"turn", "think", "ending"} => Len(messages[w]) = 2 * turnsCompleted[w]
    /\ pc[w] \in {"attempt", "request", "backoff"} =>
         Len(messages[w]) = 2 * turnsCompleted[w] + 1
    /\ sessions[CurrentSession(w)] = NoSession
    /\ IsFiniteSet(Accepted(CurrentSession(w)))
    /\ Cardinality(Accepted(CurrentSession(w))) = turnsCompleted[w]

\* Summaries are of sessions of this level or an earlier one, started already.
SummariesBehindCursor ==
  \A s \in SessionId : sessions[s] # NoSession =>
    s.concurrency <= level /\ (s.concurrency = level => s.n <= cursor[s.worker].n)

\* The strengthening of SummariesMatchRecords.
TallyInv ==
  /\ \A w \in Workers : Tallied(w)
  /\ SummariesBehindCursor
  /\ SummariesMatchRecords

\* A user's message opens a turn of an alternating transcript.
LEMMA UserAppended ==
  ASSUME NEW m \in Seq(Roles), Alternates(m), NEW k \in Nat, Len(m) = 2 * k
  PROVE  Alternates(Append(m, "user")) /\ Len(Append(m, "user")) = 2 * k + 1
<1>1. Len(Append(m, "user")) = 2 * k + 1
  OBVIOUS
<1>2. ASSUME NEW i \in DOMAIN Append(m, "user")
      PROVE  Append(m, "user")[i] = IF i % 2 = 1 THEN "user" ELSE "assistant"
  <2>1. CASE i \in DOMAIN m
    BY <2>1 DEF Alternates
  <2>2. CASE i = 2 * k + 1
    <3>1. i % 2 = 1
      BY <2>2
    <3> QED
      BY <2>2, <3>1
  <2> QED
    BY <1>1, <2>1, <2>2
<1> QED
  BY <1>1, <1>2 DEF Alternates

\* An assistant's message completes the turn it opened.
LEMMA AssistantAppended ==
  ASSUME NEW m \in Seq(Roles), Alternates(m), NEW k \in Nat, Len(m) = 2 * k + 1
  PROVE  Alternates(Append(m, "assistant")) /\ Len(Append(m, "assistant")) = 2 * (k + 1)
<1>1. Len(Append(m, "assistant")) = 2 * (k + 1)
  OBVIOUS
<1>2. ASSUME NEW i \in DOMAIN Append(m, "assistant")
      PROVE  Append(m, "assistant")[i] = IF i % 2 = 1 THEN "user" ELSE "assistant"
  <2>1. CASE i \in DOMAIN m
    BY <2>1 DEF Alternates
  <2>2. CASE i = 2 * (k + 1)
    <3>1. i % 2 = 0
      BY <2>2
    <3> QED
      BY <2>2, <3>1
  <2> QED
    BY <1>1, <2>1, <2>2
<1> QED
  BY <1>1, <1>2 DEF Alternates

\* Dropping the last message keeps a transcript alternating; its role tells
\* whether a turn was open.
LEMMA LastPopped ==
  ASSUME NEW m \in Seq(Roles), Alternates(m), m # <<>>
  PROVE  /\ Alternates(SubSeq(m, 1, Len(m) - 1))
         /\ Len(SubSeq(m, 1, Len(m) - 1)) = Len(m) - 1
         /\ m[Len(m)] = "user" <=> Len(m) % 2 = 1
         /\ m[Len(m)] \in Roles
<1>1. Len(m) \in DOMAIN m
  OBVIOUS
<1>2. m[Len(m)] = "user" <=> Len(m) % 2 = 1
  BY <1>1 DEF Alternates
<1>3. m[Len(m)] \in Roles
  BY <1>1
<1>a. Len(m) \in Nat /\ Len(m) >= 1
  BY <1>1
<1>b. \A i \in 1..(Len(m) - 1) : m[i] \in Roles
  BY <1>a
<1> DEFINE popped == SubSeq(m, 1, Len(m) - 1)
<1>4. /\ popped \in Seq(Roles) /\ Len(popped) = Len(m) - 1
      /\ \A i \in 1..(Len(m) - 1) : popped[i] = m[i]
  <2>1. /\ popped \in Seq(Roles)
        /\ Len(popped) = IF 1 <= Len(m) - 1 THEN Len(m) - 1 - 1 + 1 ELSE 0
        /\ \A i \in 1..(Len(m) - 1 - 1 + 1) : popped[i] = m[1 + i - 1]
    BY <1>a, <1>b, SubSeqProperties
  <2>2. PICK n \in Nat : n = Len(m) - 1
    BY <1>a
  <2> HIDE DEF popped
  <2>3. Len(popped) = n
    BY <2>1, <2>2
  <2>4. \A i \in 1..n : popped[i] = m[i]
    BY <2>1, <2>2
  <2> QED
    BY <2>1, <2>2, <2>3, <2>4
<1>5. ASSUME NEW i \in DOMAIN popped
      PROVE  i \in DOMAIN m /\ popped[i] = m[i]
  BY <1>a, <1>4
<1>6. Alternates(popped)
  BY <1>5 DEF Alternates
<1> QED
  BY <1>2, <1>3, <1>4, <1>6

\* Even and odd lengths.
LEMMA Parity ==
  ASSUME NEW k \in Nat
  PROVE  (2 * k) % 2 = 0 /\ (2 * k + 1) % 2 = 1
OBVIOUS

\* A transcript of k turns, or of k and an open one, is odd just if one is open.
LEMMA OddLength ==
  ASSUME NEW n \in Nat, NEW k \in Nat, n \in {2 * k, 2 * k + 1}
  PROVE  n % 2 = 1 <=> n = 2 * k + 1
OBVIOUS

\* Only the answer to a session's own request changes what it has accepted.
LEMMA AcceptedKept ==
  ASSUME IndInv, NEW w \in Workers, WorkerStep(w), NEW s,
         ~RequestAnswered(w) \/ s # CurrentSession(w)
  PROVE  Accepted(s)' = Accepted(s)
<1>1. CASE RequestAnswered(w)
  <2>1. s # CurrentSession(w)
    BY <1>1
  <2>2. SessionOf(CurrentAttempt(w)) = CurrentSession(w)
    BY DEF SessionOf, CurrentAttempt, CurrentSession
  <2>3. \A a \in Attempt : SessionOf(a) = s => records'[a] = records[a]
    BY <1>1, <2>1, <2>2 DEF RequestAnswered, IndInv, TypeOK, EvidenceTypes
  <2> QED
    BY <2>3 DEF Accepted
<1>2. CASE BeginAttempt(w)
  BY <1>2 DEF BeginAttempt, Accepted
<1>3. CASE FinishSession(w)
  BY <1>3 DEF FinishSession, requestEvidence, Accepted
<1>4. CASE HandleException(w)
  BY <1>4 DEF HandleException, Accepted
<1>5. CASE UNCHANGED <<requestEvidence, sessions>>
  BY <1>5 DEF requestEvidence, Accepted
<1> QED
  BY <1>1, <1>2, <1>3, <1>4, <1>5, WorkerEvidence

\* A successful answer adds the current attempt to its session's accepted ones.
LEMMA AcceptedAnswer ==
  ASSUME IndInv, NEW w \in Workers, pc[w] = "request", NEW answer \in Answers,
         records' = [records EXCEPT ![CurrentAttempt(w)] = answer]
  PROVE  /\ CurrentAttempt(w) \notin Accepted(CurrentSession(w))
         /\ \A s : Accepted(s)' =
              IF answer = "ok" /\ s = CurrentSession(w)
                THEN Accepted(s) \cup {CurrentAttempt(w)}
                ELSE Accepted(s)
<1>1. CurrentAttempt(w) \in Attempt
  BY InSessionCurrent DEF IndInv, InSession, InAttempt
<1>2. records[CurrentAttempt(w)] = "none"
  BY <1>1 DEF IndInv, OpenAttempts, RecordsMatchAttempts
<1>3. SessionOf(CurrentAttempt(w)) = CurrentSession(w)
  BY DEF SessionOf, CurrentAttempt, CurrentSession
<1>4. \A a \in Attempt : records'[a] = IF a = CurrentAttempt(w) THEN answer ELSE records[a]
  BY DEF IndInv, TypeOK, EvidenceTypes
<1>5. CurrentAttempt(w) \notin Accepted(CurrentSession(w))
  BY <1>2 DEF Accepted
<1>6. ASSUME NEW s
      PROVE  Accepted(s)' = IF answer = "ok" /\ s = CurrentSession(w)
                              THEN Accepted(s) \cup {CurrentAttempt(w)}
                              ELSE Accepted(s)
  BY <1>1, <1>2, <1>3, <1>4 DEF Accepted
<1> QED
  BY <1>5, <1>6

\* A step of another worker leaves a session's tally alone.
LEMMA OthersTallied ==
  ASSUME IndInv, TallyInv, NEW w \in Workers, WorkerStep(w), NEW v \in Workers, v # w
  PROVE  Tallied(v)'
<1>1. /\ pc'[v] = pc[v] /\ cursor'[v] = cursor[v] /\ messages'[v] = messages[v]
      /\ turnsCompleted'[v] = turnsCompleted[v] /\ level' = level
  BY OtherWorkersStay, WorkerMoves DEF IndInv, TypeOK
<1> SUFFICES ASSUME pc[v] \in InSession PROVE Tallied(v)'
  BY <1>1 DEF Tallied
<1>2. CurrentSession(v)' = CurrentSession(v) /\ CurrentSession(v) # CurrentSession(w)
  BY <1>1 DEF CurrentSession
<1>3. Accepted(CurrentSession(v))' = Accepted(CurrentSession(v))
  <2> DEFINE s == CurrentSession(v)
  <2>1. \A t : t # CurrentSession(w) => Accepted(t)' = Accepted(t)
    BY AcceptedKept
  <2>2. Accepted(CurrentSession(v))' = {a \in Attempt : SessionOf(a) = s /\ records'[a] = "ok"}
    BY <1>2 DEF Accepted
  <2>3. {a \in Attempt : SessionOf(a) = s /\ records'[a] = "ok"} = Accepted(s)
    BY <1>2, <2>1 DEF Accepted
  <2> QED
    BY <2>2, <2>3
<1>4. sessions'[CurrentSession(v)] = sessions[CurrentSession(v)]
  <2>1. CurrentSession(v) \in SessionId
    BY InSessionCurrent DEF IndInv
  <2> QED
    BY <1>2, <2>1, WorkerEvidence
       DEF BeginAttempt, RequestAnswered, FinishSession, HandleException, IndInv, TypeOK,
           EvidenceTypes
<1> QED
  BY <1>1, <1>2, <1>3, <1>4 DEF Tallied, TallyInv

\* The transcript a session is left with after an exception holds its answered
\* turns and nothing else.
LEMMA TranscriptAnswered ==
  ASSUME IndInv, NEW w \in Workers, Tallied(w), pc[w] = "raising"
  PROVE  /\ Alternates(TranscriptAfterException(w))
         /\ Len(TranscriptAfterException(w)) = 2 * turnsCompleted[w]
<1>1. messages[w] \in Seq(Roles) /\ turnsCompleted[w] \in Nat
  BY SessionAssumption DEF IndInv, TypeOK, TaskTypes
<1>2. /\ Alternates(messages[w])
      /\ Len(messages[w]) \in {2 * turnsCompleted[w], 2 * turnsCompleted[w] + 1}
  BY DEF Tallied, InSession
<1>3. CASE Len(messages[w]) = 2 * turnsCompleted[w]
  <2>1. ~(Len(messages[w]) > 0 /\ LastRole(w) = "user")
    <3>1. SUFFICES ASSUME Len(messages[w]) > 0 PROVE LastRole(w) # "user"
      OBVIOUS
    <3>2. messages[w] # <<>>
      BY <1>1, <3>1
    <3>3. Len(messages[w]) % 2 # 1
      BY <1>1, <1>3, Parity
    <3> QED
      BY <1>1, <1>2, <3>2, <3>3, LastPopped DEF LastRole
  <2> QED
    BY <1>2, <1>3, <2>1 DEF TranscriptAfterException
<1>4. CASE Len(messages[w]) = 2 * turnsCompleted[w] + 1
  <2>1. messages[w] # <<>> /\ Len(messages[w]) > 0
    BY <1>1, <1>4
  <2>2. LastRole(w) = "user"
    BY <1>1, <1>2, <1>4, <2>1, Parity, LastPopped DEF LastRole
  <2>3. TranscriptAfterException(w) = SubSeq(messages[w], 1, Len(messages[w]) - 1)
    BY <2>1, <2>2 DEF TranscriptAfterException, Popped
  <2> QED
    BY <1>1, <1>2, <1>4, <2>1, <2>3, LastPopped
<1> QED
  BY <1>2, <1>3, <1>4

\* A new session begins with nothing accepted and no summary.
LEMMA SessionIsNew ==
  ASSUME IndInv, TallyInv, NEW w \in Workers, pc[w] \in {"ready", "session"},
         NEW s \in SessionId, s.concurrency = level, s.worker = w, s.n = cursor[w].n + 1
  PROVE  Accepted(s) = {} /\ sessions[s] = NoSession
<1>1. cursor[w].n \in Nat
  BY DEF IndInv, TypeOK, TaskTypes, Cursor
<1>2. sessions[s] = NoSession
  BY <1>1 DEF TallyInv, SummariesBehindCursor
<1>3. ASSUME NEW a \in Attempt, SessionOf(a) = s, records[a] = "ok"
      PROVE  FALSE
  <2>1. a.concurrency = level /\ a.worker = w /\ a.n = cursor[w].n + 1
    BY <1>3 DEF SessionOf
  <2>2. attempts[a] # "none"
    BY <1>3 DEF IndInv, RecordsMatchAttempts
  <2>3. a.n <= cursor[w].n
    BY <2>1, <2>2 DEF IndInv, AttemptsBehindCursor, BehindCursor
  <2> QED
    BY <1>1, <2>1, <2>3
<1> QED
  BY <1>2, <1>3 DEF Accepted


\* The next attempt of a worker inside a session finds the tally unchanged.
LEMMA TallyKept ==
  ASSUME TypeOK, NEW w \in Workers, Tallied(w), pc[w] \in InSession,
         level' = level, cursor'[w].n = cursor[w].n,
         UNCHANGED <<records, sessions>>, turnsCompleted'[w] = turnsCompleted[w],
         Alternates(messages'[w]),
         Len(messages'[w]) \in {2 * turnsCompleted[w], 2 * turnsCompleted[w] + 1},
         pc'[w] \in {"turn", "think", "ending"} => Len(messages'[w]) = 2 * turnsCompleted[w],
         pc'[w] \in {"attempt", "request", "backoff"} =>
           Len(messages'[w]) = 2 * turnsCompleted[w] + 1
  PROVE  Tallied(w)'
<1>1. CurrentSession(w)' = CurrentSession(w)
  BY DEF CurrentSession
<1>2. Accepted(CurrentSession(w))' = Accepted(CurrentSession(w))
  BY <1>1 DEF Accepted
<1> QED
  BY <1>1, <1>2 DEF Tallied

\* A worker's own step keeps its tally.
LEMMA OwnTallied ==
  ASSUME IndInv, TallyInv, NEW w \in Workers, WorkerStep(w)
  PROVE  Tallied(w)'
<1> USE DEF GoOn, Await, TaskRaises
<1>a. TypeOK /\ Tallied(w) /\ level' = level
  BY WorkerMoves DEF IndInv, TallyInv
<1>b. /\ pc \in [Workers -> Awaiting \cup Running \cup Finished]
      /\ messages \in [Workers -> Seq(Roles)] /\ messages[w] \in Seq(Roles)
      /\ turnsCompleted \in [Workers -> 0..TurnsMax] /\ turnsCompleted[w] \in Nat
      /\ cursor \in [Workers -> Cursor] /\ cursor[w] \in Cursor
  BY <1>a, SessionAssumption DEF TypeOK, TaskTypes
<1>1. CASE StopWorker(w) \/ CancelUnstarted(w)
  <2>1. pc'[w] \notin InSession
    BY <1>b, <1>1 DEF StopWorker, CancelUnstarted, InSession
  <2> QED
    BY <2>1 DEF Tallied
<1>2. CASE StartSession(w)
  <2>1. /\ pc[w] \in {"ready", "session"} /\ pc'[w] = "turn"
        /\ messages'[w] = <<>> /\ turnsCompleted'[w] = 0
        /\ cursor'[w].n = cursor[w].n + 1
        /\ UNCHANGED <<records, sessions>>
    BY <1>b, <1>2 DEF StartSession, AtLoopTop, evidence, requestEvidence
  <2>2. CurrentSession(w)' \in SessionId
    <3>1. TypeOK' /\ LoopInv' /\ CursorInv'
      BY WorkerPreserves DEF IndInv
    <3>2. level' \in Levels /\ cursor'[w] \in Cursor /\ cursor'[w].n >= 1
      BY <2>1, <3>1 DEF LoopInv, CursorInv, WellPlaced, InSession, Finished, Exceptions,
                        MainAwaiting, TypeOK, TaskTypes
    <3> QED
      BY <3>2 DEF CurrentSession, SessionId, Cursor
  <2> DEFINE s == [concurrency |-> level, worker |-> w, n |-> cursor[w].n + 1]
  <2>3. CurrentSession(w)' = s
    BY <1>a, <2>1 DEF CurrentSession
  <2>4. Accepted(s) = {} /\ sessions[s] = NoSession
    BY <2>1, <2>2, <2>3, SessionIsNew
  <2>5. Accepted(CurrentSession(w))' = {}
    BY <2>1, <2>3, <2>4 DEF Accepted
  <2>6. sessions'[CurrentSession(w)'] = NoSession
    BY <2>1, <2>3, <2>4
  <2> QED
    BY <2>1, <2>5, <2>6, FS_EmptySet DEF Tallied, Alternates
<1>3. CASE FinishSession(w)
  <2>1. pc'[w] \notin InSession
    BY <1>b, <1>3 DEF FinishSession, InSession
  <2> QED
    BY <2>1 DEF Tallied
<1>4. CASE HandleException(w)
  <2>1. status[w] \in {"failed", "cancelled"}
    BY <1>4 DEF IndInv, HandleException, CursorInv, WellPlaced
  <2>2. pc'[w] \notin InSession
    BY <1>b, <1>4, <2>1 DEF HandleException, InSession
  <2> QED
    BY <2>2 DEF Tallied
<1>5. CASE EndTurns(w) \/ StopBeforeTurn(w)
  <2>1. /\ pc[w] = "turn" /\ pc'[w] = "ending"
        /\ UNCHANGED <<records, sessions, messages, turnsCompleted, cursor>>
    BY <1>b, <1>5 DEF EndTurns, StopBeforeTurn, evidence, requestEvidence
  <2> QED
    BY <1>a, <2>1, TallyKept DEF Tallied, InSession
<1>6. CASE BeginTurn(w)
  <2>1. /\ pc[w] = "turn" /\ pc'[w] = "attempt"
        /\ UNCHANGED <<records, sessions, turnsCompleted>>
        /\ messages'[w] = Append(messages[w], "user")
        /\ cursor'[w].n = cursor[w].n
    BY <1>b, <1>6 DEF BeginTurn, evidence, requestEvidence, Cursor
  <2>2. Alternates(messages[w]) /\ Len(messages[w]) = 2 * turnsCompleted[w]
    BY <1>a, <2>1 DEF Tallied, InSession
  <2>3. /\ Alternates(messages'[w])
        /\ Len(messages'[w]) = 2 * turnsCompleted[w] + 1
    BY <1>b, <2>1, <2>2, UserAppended
  <2> QED
    BY <1>a, <2>1, <2>3, TallyKept DEF InSession
<1>7. CASE StopBeforeAttempt(w) \/ BeginAttempt(w)
  <2>1. /\ pc[w] = "attempt" /\ pc'[w] \in {"settled", "raising", "request"}
        /\ UNCHANGED <<records, sessions, messages, turnsCompleted, cursor>>
    BY <1>b, <1>7 DEF StopBeforeAttempt, BeginAttempt, evidence, requestEvidence
  <2> QED
    BY <1>a, <2>1, TallyKept DEF Tallied, InSession
<1>8. CASE RequestAnswered(w)
  <2>1. PICK answer \in Answers :
          /\ records' = [records EXCEPT ![CurrentAttempt(w)] = answer]
          /\ answer = "ok" =>
               /\ messages' = [messages EXCEPT ![w] = Append(@, "assistant")]
               /\ turnsCompleted' = [turnsCompleted EXCEPT ![w] = @ + 1]
               /\ pc'[w] \in {"raising", "settled"}
          /\ answer # "ok" => UNCHANGED <<messages, turnsCompleted>>
    BY <1>b, <1>8 DEF RequestAnswered
  <2>2. /\ pc[w] = "request" /\ UNCHANGED sessions
        /\ pc'[w] \in {"raising", "settled", "attempt", "backoff"}
    BY <1>b, <1>8 DEF RequestAnswered
  <2>3. cursor'[w].n = cursor[w].n
    <3>1. UNCHANGED cursor \/ cursor' = [cursor EXCEPT ![w].attempt = @ + 1]
      BY <1>8 DEF RequestAnswered
    <3> QED
      BY <1>b, <3>1 DEF Cursor
  <2>4. /\ Alternates(messages[w]) /\ Len(messages[w]) = 2 * turnsCompleted[w] + 1
        /\ sessions[CurrentSession(w)] = NoSession
        /\ IsFiniteSet(Accepted(CurrentSession(w)))
        /\ Cardinality(Accepted(CurrentSession(w))) = turnsCompleted[w]
    BY <1>a, <2>2 DEF Tallied, InSession
  <2>5. CurrentSession(w)' = CurrentSession(w)
    BY <1>a, <2>3 DEF CurrentSession
  <2>6. CASE answer = "ok"
    <3>1. /\ Alternates(messages'[w]) /\ turnsCompleted'[w] = turnsCompleted[w] + 1
          /\ Len(messages'[w]) = 2 * turnsCompleted'[w]
      BY <1>b, <2>1, <2>4, <2>6, AssistantAppended
    <3>2. /\ CurrentAttempt(w) \notin Accepted(CurrentSession(w))
          /\ Accepted(CurrentSession(w))' =
               Accepted(CurrentSession(w)) \cup {CurrentAttempt(w)}
      <4>1. /\ CurrentAttempt(w) \notin Accepted(CurrentSession(w))
            /\ \A s : Accepted(s)' =
                 IF answer = "ok" /\ s = CurrentSession(w)
                   THEN Accepted(s) \cup {CurrentAttempt(w)}
                   ELSE Accepted(s)
        BY <2>1, <2>2, AcceptedAnswer
      <4>2. Accepted(CurrentSession(w))' =
              {a \in Attempt : SessionOf(a) = CurrentSession(w) /\ records'[a] = "ok"}
        BY <2>5 DEF Accepted
      <4> DEFINE s0 == CurrentSession(w)
      <4>3. {a \in Attempt : SessionOf(a) = s0 /\ records'[a] = "ok"} =
              Accepted(s0) \cup {CurrentAttempt(w)}
        BY <2>6, <4>1 DEF Accepted
      <4> QED
        BY <4>1, <4>2, <4>3
    <3>3. /\ IsFiniteSet(Accepted(CurrentSession(w))')
          /\ Cardinality(Accepted(CurrentSession(w))') = turnsCompleted[w] + 1
      BY <2>4, <3>2, FS_AddElement
    <3> QED
      BY <2>1, <2>2, <2>4, <2>5, <2>6, <3>1, <3>3 DEF Tallied
  <2>7. CASE answer # "ok"
    <3>1. Accepted(CurrentSession(w))' = Accepted(CurrentSession(w))
      <4>1. \A s : Accepted(s)' = Accepted(s)
        BY <2>1, <2>2, <2>7, AcceptedAnswer
      <4>2. Accepted(CurrentSession(w))' =
              {a \in Attempt : SessionOf(a) = CurrentSession(w) /\ records'[a] = "ok"}
        BY <2>5 DEF Accepted
      <4> DEFINE s0 == CurrentSession(w)
      <4>3. {a \in Attempt : SessionOf(a) = s0 /\ records'[a] = "ok"} = Accepted(s0)
        BY <4>1 DEF Accepted
      <4> QED
        BY <4>2, <4>3
    <3> QED
      BY <2>1, <2>2, <2>4, <2>5, <2>7, <3>1 DEF Tallied
  <2> QED
    BY <2>6, <2>7
<1>9. CASE BackoffEnds(w)
  <2>1. /\ pc[w] = "backoff" /\ pc'[w] = "attempt" /\ cursor'[w].n = cursor[w].n
        /\ UNCHANGED <<records, sessions, messages, turnsCompleted>>
    BY <1>b, <1>9 DEF BackoffEnds, WaitEnds, evidence, requestEvidence, Cursor
  <2> QED
    BY <1>a, <2>1, TallyKept DEF Tallied, InSession
<1>10. CASE DropUnansweredTurn(w)
  <2>1. /\ pc[w] = "settled" /\ pc'[w] = "ending" /\ LastRole(w) = "user"
        /\ UNCHANGED <<records, sessions, turnsCompleted, cursor>>
        /\ messages'[w] = SubSeq(messages[w], 1, Len(messages[w]) - 1)
    BY <1>b, <1>10 DEF DropUnansweredTurn, Popped, evidence, requestEvidence
  <2>2. /\ messages[w] # <<>> /\ Alternates(messages[w])
        /\ Len(messages[w]) \in {2 * turnsCompleted[w], 2 * turnsCompleted[w] + 1}
    BY <1>a, <2>1 DEF Tallied, InSession, IndInv, CursorInv, WellPlaced
  <2>3. Len(messages[w]) % 2 = 1
    BY <1>b, <2>1, <2>2, LastPopped DEF LastRole
  <2>4. Len(messages[w]) = 2 * turnsCompleted[w] + 1
    <3>1. Len(messages[w]) \in Nat
      BY <1>b
    <3> QED
      BY <1>b, <2>2, <2>3, <3>1, OddLength
  <2>5. Alternates(messages'[w]) /\ Len(messages'[w]) = 2 * turnsCompleted[w]
    BY <1>b, <2>1, <2>2, <2>4, LastPopped
  <2> QED
    BY <1>a, <2>1, <2>5, TallyKept DEF InSession
<1>11. CASE EndTurn(w)
  <2>1. /\ pc[w] = "settled" /\ LastRole(w) = "assistant"
        /\ pc'[w] \in {"think", "turn"}
        /\ UNCHANGED <<records, sessions, messages, turnsCompleted>>
    BY <1>b, <1>11 DEF EndTurn, evidence, requestEvidence
  <2>2. cursor'[w].n = cursor[w].n
    <3>1. UNCHANGED cursor \/ cursor' = [cursor EXCEPT ![w].turn = @ + 1]
      BY <1>11 DEF EndTurn
    <3> QED
      BY <1>b, <3>1 DEF Cursor
  <2>3. /\ messages[w] # <<>> /\ Alternates(messages[w])
        /\ Len(messages[w]) \in {2 * turnsCompleted[w], 2 * turnsCompleted[w] + 1}
    BY <1>a, <2>1 DEF Tallied, InSession, IndInv, CursorInv, WellPlaced
  <2>4. Len(messages[w]) % 2 # 1
    BY <1>b, <2>1, <2>3, LastPopped DEF LastRole
  <2>5. Len(messages[w]) = 2 * turnsCompleted[w]
    BY <1>b, <2>3, <2>4, Parity
  <2> QED
    BY <1>a, <2>1, <2>2, <2>3, <2>5, TallyKept DEF InSession
<1>12. CASE ThinkEnds(w)
  <2>1. /\ pc[w] = "think" /\ pc'[w] = "turn" /\ cursor'[w].n = cursor[w].n
        /\ UNCHANGED <<records, sessions, messages, turnsCompleted>>
    BY <1>b, <1>12 DEF ThinkEnds, WaitEnds, evidence, requestEvidence, Cursor
  <2> QED
    BY <1>a, <2>1, TallyKept DEF Tallied, InSession
<1>13. CASE CancelSession(w)
  <2>1. /\ pc[w] \in InSession /\ pc'[w] = "raising"
        /\ UNCHANGED <<records, sessions, messages, turnsCompleted, cursor>>
    BY <1>b, <1>13 DEF CancelSession, Cancellable, evidence, requestEvidence, InSession
  <2> QED
    BY <1>a, <2>1, TallyKept DEF Tallied
<1> QED
  BY <1>1, <1>2, <1>3, <1>4, <1>5, <1>6, <1>7, <1>8, <1>9, <1>10, <1>11, <1>12, <1>13
     DEF WorkerStep


\* A summary is written once, by the session's own worker, and then kept.
LEMMA WorkerSummaries ==
  ASSUME IndInv, NEW w \in Workers, WorkerStep(w)
  PROVE  \/ UNCHANGED sessions
         \/ FinishSession(w)
              /\ sessions' = [sessions EXCEPT ![CurrentSession(w)] = Summary(w, messages[w])]
         \/ HandleException(w)
              /\ sessions' = [sessions EXCEPT ![CurrentSession(w)] =
                                Summary(w, TranscriptAfterException(w))]
BY WorkerEvidence DEF BeginAttempt, RequestAnswered, FinishSession, HandleException

\* A worker's step keeps summaries to sessions that were started.
LEMMA WorkerSummariesBehind ==
  ASSUME IndInv, SummariesBehindCursor, NEW w \in Workers, WorkerStep(w)
  PROVE  SummariesBehindCursor'
<1> SUFFICES ASSUME NEW s \in SessionId, sessions'[s] # NoSession
             PROVE  s.concurrency <= level /\ (s.concurrency = level => s.n <= cursor'[s.worker].n)
  BY WorkerMoves DEF SummariesBehindCursor, IndInv
<1>a. s.worker \in Workers /\ s.n \in Nat /\ s.concurrency \in Int
  BY RampAssumption DEF SessionId, Levels
<1>b. level \in Int /\ cursor \in [Workers -> Cursor]
  BY RampAssumption DEF IndInv, TypeOK, MainTypes, TaskTypes, Levels
<1>1. CASE sessions[s] # NoSession
  <2>1. s.concurrency <= level /\ (s.concurrency = level => s.n <= cursor[s.worker].n)
    BY <1>1 DEF SummariesBehindCursor
  <2>2. cursor[s.worker].n <= cursor'[s.worker].n
    <3>1. CASE s.worker # w
      BY <1>a, <1>b, <3>1, OtherWorkersStay DEF IndInv, TypeOK, Cursor
    <3>2. CASE s.worker = w
      <4>0. cursor[w] \in Cursor
        BY <1>b
      <4>1. \/ UNCHANGED cursor
            \/ \E turns : cursor' = [cursor EXCEPT ![w] =
                 [n |-> @.n + 1, turns |-> turns, turn |-> 0, attempt |-> 0]]
            \/ \E k : cursor' = [cursor EXCEPT ![w].attempt = k]
            \/ \E k : cursor' = [cursor EXCEPT ![w].turn = k]
        BY DEF WorkerStep, StopWorker, StartSession, FinishSession, EndTurns, StopBeforeTurn,
          BeginTurn, StopBeforeAttempt, BeginAttempt, RequestAnswered, BackoffEnds, WaitEnds,
          DropUnansweredTurn, EndTurn, ThinkEnds, CancelUnstarted, CancelSession, HandleException
      <4>2. cursor'[w].n = cursor[w].n \/ cursor'[w].n = cursor[w].n + 1
        BY <1>b, <4>0, <4>1 DEF Cursor
      <4>3. cursor[w].n \in Int
        BY <4>0 DEF Cursor
      <4> QED
        BY <3>2, <4>2, <4>3
    <3> QED
      BY <3>1, <3>2
  <2>3. cursor'[s.worker].n \in Int /\ cursor[s.worker].n \in Int
    <3>1. cursor' \in [Workers -> Cursor]
      BY WorkerPreserves DEF IndInv, TypeOK, TaskTypes
    <3>2. cursor'[s.worker] \in Cursor /\ cursor[s.worker] \in Cursor
      BY <1>a, <1>b, <3>1
    <3> QED
      BY <3>2 DEF Cursor
  <2> QED
    BY <1>a, <2>1, <2>2, <2>3
<1>2. CASE sessions[s] = NoSession
  <2>1. s = CurrentSession(w) /\ UNCHANGED cursor
    BY <1>2, WorkerSummaries DEF FinishSession, HandleException, IndInv, TypeOK, EvidenceTypes
  <2> QED
    BY <1>a, <1>b, <2>1 DEF CurrentSession, Cursor
<1> QED
  BY <1>1, <1>2

\* A worker's step keeps SummariesMatchRecords: the summary it may write is true
\* of the records, and no answer arrives for a session that has its summary.
LEMMA WorkerSummariesMatch ==
  ASSUME IndInv, TallyInv, NEW w \in Workers, WorkerStep(w)
  PROVE  SummariesMatchRecords'
<1> DEFINE Matches(summary, n) ==
      /\ summary.completed = n
      /\ Len(summary.transcript) = 2 * summary.completed
      /\ Alternates(summary.transcript)
<1>0. Tallied(w)
  BY DEF TallyInv
<1> SUFFICES ASSUME NEW s \in SessionId, sessions'[s] # NoSession
             PROVE  Matches(sessions'[s], Cardinality(Accepted(s)'))
  BY DEF SummariesMatchRecords, Alternates
<1>1. CASE sessions'[s] = sessions[s]
  <2>1. Matches(sessions[s], Cardinality(Accepted(s)))
    BY <1>1 DEF TallyInv, SummariesMatchRecords, Alternates
  <2>2. s = CurrentSession(w) => ~RequestAnswered(w)
    BY <1>0, <1>1 DEF RequestAnswered, Tallied, InSession
  <2>3. Accepted(s)' = Accepted(s)
    BY <2>2, AcceptedKept
  <2> QED
    BY <1>1, <2>1, <2>3
<1>2. CASE sessions'[s] # sessions[s]
  <2>1. /\ s = CurrentSession(w)
        /\ \/ FinishSession(w) /\ sessions'[s] = Summary(w, messages[w])
           \/ HandleException(w) /\ sessions'[s] = Summary(w, TranscriptAfterException(w))
    BY <1>2, WorkerSummaries DEF IndInv, TypeOK, EvidenceTypes
  <2>2. Accepted(s)' = Accepted(s)
    <3>1. ~RequestAnswered(w)
      BY <2>1 DEF FinishSession, HandleException, RequestAnswered
    <3> QED
      BY <3>1, AcceptedKept
  <2>3. pc[w] \in InSession
    BY <2>1 DEF FinishSession, HandleException, InSession
  <2>4. Cardinality(Accepted(s)) = turnsCompleted[w]
    BY <1>0, <2>1, <2>3 DEF Tallied
  <2>5. CASE FinishSession(w) /\ sessions'[s] = Summary(w, messages[w])
    <3>1. Alternates(messages[w]) /\ Len(messages[w]) = 2 * turnsCompleted[w]
      BY <1>0, <2>5 DEF FinishSession, Tallied, InSession
    <3> QED
      BY <2>2, <2>4, <2>5, <3>1 DEF Summary
  <2>6. CASE HandleException(w) /\ sessions'[s] = Summary(w, TranscriptAfterException(w))
    <3>1. /\ Alternates(TranscriptAfterException(w))
          /\ Len(TranscriptAfterException(w)) = 2 * turnsCompleted[w]
      BY <1>0, <2>6, TranscriptAnswered DEF HandleException
    <3> QED
      BY <2>2, <2>4, <2>6, <3>1 DEF Summary
  <2> QED
    BY <2>1, <2>5, <2>6
<1> QED
  BY <1>1, <1>2

\* A step of the main task, and what comes from outside, keeps every tally.
LEMMA OthersKeepTally ==
  ASSUME IndInv, TallyInv, MainStep \/ SetStop \/ CancelRun \/ GatherIsTold \/ UNCHANGED vars
  PROVE  TallyInv'
<1>1. UNCHANGED <<records, sessions>>
  BY MainLeavesRequests DEF SetStop, CancelRun, GatherIsTold, vars, evidence, requestEvidence
<1>2. SummariesMatchRecords'
  BY <1>1 DEF TallyInv, SummariesMatchRecords, Accepted
<1>3. CASE StartLevel \/ ClientDoesNotOpen
  <2>1. level' > level /\ level' \in Nat /\ level \in Nat
    BY <1>3, RampAssumption DEF StartLevel, ClientDoesNotOpen, EnterLevel, LevelsAfter, IndInv,
       TypeOK, MainTypes, Levels
  <2>2. \A w \in Workers : pc'[w] \in {"ready", "idle"}
    BY <1>3 DEF StartLevel, ClientDoesNotOpen
  <2>3. SummariesBehindCursor'
    <3>1. \A s \in SessionId : s.concurrency \in Int
      BY RampAssumption DEF SessionId, Levels
    <3> QED
      BY <1>1, <2>1, <3>1 DEF TallyInv, SummariesBehindCursor
  <2> QED
    BY <1>2, <2>2, <2>3 DEF TallyInv, Tallied, InSession
<1>4. CASE UNCHANGED <<level, pc, cursor, messages, turnsCompleted, status>>
  <2>1. SummariesBehindCursor'
    BY <1>1, <1>4 DEF TallyInv, SummariesBehindCursor
  <2>2. \A w \in Workers : Tallied(w)'
    BY <1>1, <1>4 DEF TallyInv, Tallied, CurrentSession, Accepted
  <2> QED
    BY <1>2, <2>1, <2>2 DEF TallyInv
<1> QED
  BY <1>3, <1>4, MainKeepsTasks DEF SetStop, CancelRun, GatherIsTold, vars, mainVars, taskVars

\* In every reachable state the tallies are those of the records.
LEMMA Tallies == Spec => []TallyInv
<1>1. Init => TallyInv
  BY DEF Init, TallyInv, Tallied, SummariesBehindCursor, SummariesMatchRecords, InSession
<1>2. IndInv /\ TallyInv /\ [Next]_vars => TallyInv'
  <2> SUFFICES ASSUME IndInv, TallyInv, [Next]_vars PROVE TallyInv'
    OBVIOUS
  <2>1. ASSUME NEW w \in Workers, WorkerStep(w) PROVE TallyInv'
    BY <2>1, OthersTallied, OwnTallied, WorkerSummariesBehind, WorkerSummariesMatch DEF TallyInv
  <2> QED
    BY <2>1, OthersKeepTally DEF Next, Terminated
<1> QED
  BY Inductive, <1>1, <1>2, PTL DEF Spec

\* session.py:116-149: what a summary says, for any number of users, turns,
\* attempts and levels, is what the request records of its session say.
THEOREM SummariesMatch == Spec => []SummariesMatchRecords
<1>1. TallyInv => SummariesMatchRecords
  BY DEF TallyInv
<1> QED
  BY Tallies, <1>1, PTL

-----------------------------------------------------------------------------
(* 4. Retries.                                                             *)

\* An attempt follows a retryable one, and a turn an accepted one.
AttemptFollows(a) == a.attempt > 1 => records[[a EXCEPT !.attempt = @ - 1]] = "retryable"
TurnFollows(a) ==
  a.turn > 0 =>
    \E i \in 1..MaxAttempts : records[[a EXCEPT !.turn = @ - 1, !.attempt = i]] = "ok"

\* The attempt numbered i of the turn before a worker's, and the attempt before
\* the one it is at.
TurnBefore(w, i) ==
  [concurrency |-> level, worker |-> w, n |-> cursor[w].n,
   turn |-> cursor[w].turn - 1, attempt |-> i]
AttemptBefore(w) ==
  [concurrency |-> level, worker |-> w, n |-> cursor[w].n,
   turn |-> cursor[w].turn, attempt |-> cursor[w].attempt - 1]

TurnAccepted(w) ==
  cursor[w].turn > 0 => \E i \in 1..MaxAttempts : records[TurnBefore(w, i)] = "ok"
AttemptRetryable(w) == cursor[w].attempt > 1 => records[AttemptBefore(w)] = "retryable"

\* Where a worker may go on to another attempt or turn, the records it has
\* warrant it.
PlaceWarranted(w) ==
  /\ pc[w] \in {"turn", "attempt", "request", "backoff"} => TurnAccepted(w)
  /\ pc[w] \in {"attempt", "request", "backoff"} => AttemptRetryable(w)
  /\ pc[w] = "backoff" => records[CurrentAttempt(w)] = "retryable"
  /\ pc[w] = "settled" /\ LastRole(w) = "assistant" => records[CurrentAttempt(w)] = "ok"
  /\ pc[w] = "think" => records[CurrentAttempt(w)] = "ok"

\* The strengthening of RetryDiscipline.
RetryInv == RetryDiscipline /\ \A w \in Workers : PlaceWarranted(w)

\* The attempts of the turn before a worker's current one.
LEMMA TurnsBefore ==
  ASSUME NEW w, NEW i
  PROVE  [CurrentAttempt(w) EXCEPT !.turn = @ - 1, !.attempt = i] = TurnBefore(w, i)
<1> DEFINE r == [CurrentAttempt(w) EXCEPT !.turn = @ - 1, !.attempt = i]
<1>1. r \in [concurrency : {level}, worker : {w}, n : {cursor[w].n},
             turn : {cursor[w].turn - 1}, attempt : {i}]
  BY DEF CurrentAttempt
<1> HIDE DEF r
<1>2. r = [concurrency |-> level, worker |-> w, n |-> cursor[w].n,
           turn |-> cursor[w].turn - 1, attempt |-> i]
  BY <1>1
<1> QED
  BY <1>2 DEF r, TurnBefore

\* What warrants a worker's place warrants the attempt it is at.
LEMMA CurrentFollows ==
  ASSUME NEW w, TurnAccepted(w), AttemptRetryable(w)
  PROVE  TurnFollows(CurrentAttempt(w)) /\ AttemptFollows(CurrentAttempt(w))
<1>1. /\ CurrentAttempt(w).turn = cursor[w].turn
      /\ CurrentAttempt(w).attempt = cursor[w].attempt
      /\ [CurrentAttempt(w) EXCEPT !.attempt = @ - 1] = AttemptBefore(w)
  BY DEF CurrentAttempt, AttemptBefore
<1>2. TurnFollows(CurrentAttempt(w))
  BY <1>1, TurnsBefore, Zenon DEF TurnFollows, TurnAccepted
<1> QED
  BY <1>1, <1>2 DEF AttemptFollows, AttemptRetryable

\* A record once written is never changed.
LEMMA RecordsStay ==
  ASSUME IndInv, NEW w \in Workers, WorkerStep(w), NEW a \in Attempt, records[a] # "none"
  PROVE  records'[a] = records[a]
<1>1. CASE RequestAnswered(w)
  <2>1. records[CurrentAttempt(w)] = "none"
    <3>1. pc[w] = "request"
      BY <1>1 DEF RequestAnswered
    <3>2. CurrentAttempt(w) \in Attempt
      BY <3>1, InSessionCurrent DEF IndInv, InSession, InAttempt
    <3> QED
      BY <3>1, <3>2 DEF IndInv, OpenAttempts, RecordsMatchAttempts
  <2> QED
    BY <1>1, <2>1 DEF RequestAnswered, IndInv, TypeOK, EvidenceTypes
<1>2. CASE BeginAttempt(w)
  BY <1>2 DEF BeginAttempt
<1>3. CASE FinishSession(w)
  BY <1>3 DEF FinishSession, requestEvidence
<1>4. CASE HandleException(w)
  BY <1>4 DEF HandleException
<1>5. CASE UNCHANGED <<requestEvidence, sessions>>
  BY <1>5 DEF requestEvidence
<1> QED
  BY <1>1, <1>2, <1>3, <1>4, <1>5, WorkerEvidence

\* Records stay, so what followed once follows ever after.
LEMMA FollowsKept ==
  ASSUME IndInv, NEW w \in Workers, WorkerStep(w)
  PROVE  /\ \A a \in Attempt : TurnFollows(a) => TurnFollows(a)'
         /\ \A a \in Attempt : AttemptFollows(a) => AttemptFollows(a)'
<1>1. ASSUME NEW a \in Attempt, TurnFollows(a), a.turn > 0
      PROVE  \E i \in 1..MaxAttempts : records'[[a EXCEPT !.turn = @ - 1, !.attempt = i]] = "ok"
  <2>1. PICK i \in 1..MaxAttempts : records[[a EXCEPT !.turn = @ - 1, !.attempt = i]] = "ok"
    BY <1>1 DEF TurnFollows
  <2>2. [a EXCEPT !.turn = @ - 1, !.attempt = i] \in Attempt
    <3>1. a.turn - 1 \in 0..(TurnsMax - 1)
      BY <1>1, SessionAssumption DEF Attempt
    <3> QED
      BY <3>1 DEF Attempt
  <2> QED
    BY <2>1, <2>2, RecordsStay
<1>2. ASSUME NEW a \in Attempt, AttemptFollows(a), a.attempt > 1
      PROVE  records'[[a EXCEPT !.attempt = @ - 1]] = "retryable"
  <2>1. [a EXCEPT !.attempt = @ - 1] \in Attempt
    BY <1>2, SessionAssumption DEF Attempt
  <2> QED
    BY <1>2, <2>1, RecordsStay DEF AttemptFollows
<1> QED
  BY <1>1, <1>2 DEF TurnFollows, AttemptFollows

\* A worker's step keeps RetryDiscipline.
LEMMA WorkerRetries ==
  ASSUME IndInv, RetryInv, NEW w \in Workers, WorkerStep(w)
  PROVE  RetryDiscipline'
<1> SUFFICES ASSUME NEW a \in Attempt, attempts'[a] # "none"
             PROVE  TurnFollows(a)' /\ AttemptFollows(a)'
  BY DEF RetryDiscipline, TurnFollows, AttemptFollows
<1>2. TurnFollows(a) /\ AttemptFollows(a)
  <2>1. CASE attempts[a] # "none"
    BY <2>1 DEF RetryInv, RetryDiscipline, TurnFollows, AttemptFollows
  <2>2. CASE attempts[a] = "none"
    <3>1. a = CurrentAttempt(w) /\ pc[w] \in {"attempt", "request"}
      BY <2>2, WorkerAttempts DEF IndInv, BeginAttempt, RequestAnswered
    <3> QED
      BY <3>1, CurrentFollows DEF RetryInv, PlaceWarranted
  <2> QED
    BY <2>1, <2>2
<1> QED
  BY <1>2, FollowsKept

\* A worker whose cursor stays keeps what warrants its place.
LEMMA PlaceStaysWarranted ==
  ASSUME IndInv, NEW v \in Workers, WorkerStep(v), NEW w \in Workers, pc[w] \in InSession,
         cursor'[w].n = cursor[w].n, cursor'[w].turn = cursor[w].turn
  PROVE  /\ TurnAccepted(w) => TurnAccepted(w)'
         /\ /\ pc[w] \in InAttempt /\ cursor'[w].attempt = cursor[w].attempt
            /\ AttemptRetryable(w)
            => AttemptRetryable(w)'
<1>1. /\ level \in Levels /\ level' = level /\ cursor[w] \in Cursor /\ cursor[w].n >= 1
      /\ pc[w] \in InAttempt => cursor[w].turn < cursor[w].turns
  BY InSessionCurrent, WorkerMoves DEF IndInv, TypeOK, TaskTypes, CursorInv, WellPlaced
<1>2. ASSUME TurnAccepted(w), cursor[w].turn > 0
      PROVE  \E i \in 1..MaxAttempts : records'[TurnBefore(w, i)'] = "ok"
  <2>1. PICK i \in 1..MaxAttempts : records[TurnBefore(w, i)] = "ok"
    BY <1>2 DEF TurnAccepted
  <2>2. TurnBefore(w, i) \in Attempt
    BY <1>1, <1>2, SessionAssumption DEF TurnBefore, Attempt, Cursor
  <2>3. TurnBefore(w, i)' = TurnBefore(w, i)
    BY <1>1 DEF TurnBefore
  <2> QED
    BY <2>1, <2>2, <2>3, RecordsStay
<1>3. ASSUME pc[w] \in InAttempt, AttemptRetryable(w), cursor[w].attempt > 1,
             cursor'[w].attempt = cursor[w].attempt
      PROVE  records'[AttemptBefore(w)'] = "retryable"
  <2>1. AttemptBefore(w) \in Attempt
    BY <1>1, <1>3, SessionAssumption DEF AttemptBefore, Attempt, Cursor
  <2>2. AttemptBefore(w)' = AttemptBefore(w)
    BY <1>1, <1>3 DEF AttemptBefore
  <2> QED
    BY <1>3, <2>1, <2>2, RecordsStay DEF AttemptRetryable
<1> QED
  BY <1>2, <1>3 DEF TurnAccepted, AttemptRetryable

\* A step of another worker leaves a worker warranted.
LEMMA OthersWarranted ==
  ASSUME IndInv, RetryInv, NEW w \in Workers, WorkerStep(w), NEW v \in Workers, v # w
  PROVE  PlaceWarranted(v)'
<1>1. /\ pc'[v] = pc[v] /\ cursor'[v] = cursor[v] /\ messages'[v] = messages[v]
      /\ level' = level
  BY OtherWorkersStay, WorkerMoves DEF IndInv, TypeOK
<1>2. CurrentAttempt(v)' = CurrentAttempt(v) /\ LastRole(v)' = LastRole(v)
  BY <1>1 DEF CurrentAttempt, LastRole
<1> SUFFICES ASSUME pc[v] \in InSession PROVE PlaceWarranted(v)'
  BY <1>1 DEF PlaceWarranted, InSession
<1>3. pc[v] \in InAttempt => CurrentAttempt(v) \in Attempt
  BY InSessionCurrent DEF IndInv
<1>4. /\ TurnAccepted(v) => TurnAccepted(v)'
      /\ pc[v] \in InAttempt /\ AttemptRetryable(v) => AttemptRetryable(v)'
  BY <1>1, PlaceStaysWarranted
<1>5. pc[v] \in InAttempt /\ records[CurrentAttempt(v)] # "none" =>
        records'[CurrentAttempt(v)'] = records[CurrentAttempt(v)]
  BY <1>2, <1>3, RecordsStay
<1>6. PlaceWarranted(v)
  BY DEF RetryInv
<1> QED
  BY <1>1, <1>2, <1>4, <1>5, <1>6 DEF PlaceWarranted, InAttempt

\* After an accepted attempt the next turn is warranted.
LEMMA NextTurnWarranted ==
  ASSUME IndInv, NEW w \in Workers, pc[w] \in {"settled", "think"}, level' = level,
         cursor' = [cursor EXCEPT ![w].turn = @ + 1], records' = records,
         records[CurrentAttempt(w)] = "ok"
  PROVE  TurnAccepted(w)'
<1>1. cursor \in [Workers -> Cursor] /\ cursor[w] \in Cursor
  BY DEF IndInv, TypeOK, TaskTypes
<1>2. cursor[w].attempt \in 1..MaxAttempts
  BY <1>1, SessionAssumption DEF IndInv, CursorInv, WellPlaced, InAttempt, Cursor
<1>3. /\ cursor'[w].turn = cursor[w].turn + 1 /\ cursor'[w].n = cursor[w].n
      /\ cursor'[w].attempt = cursor[w].attempt /\ cursor[w].turn \in Nat
  BY <1>1 DEF Cursor
<1>4. TurnBefore(w, cursor[w].attempt)' = CurrentAttempt(w)
  BY <1>3 DEF CurrentAttempt, TurnBefore
<1> QED
  BY <1>2, <1>3, <1>4 DEF TurnAccepted

\* After a retryable answer the next attempt is warranted.
LEMMA NextAttemptWarranted ==
  ASSUME IndInv, NEW w \in Workers, WorkerStep(w), pc[w] \in {"request", "backoff"},
         cursor' = [cursor EXCEPT ![w].attempt = @ + 1],
         records'[CurrentAttempt(w)] = "retryable", TurnAccepted(w)
  PROVE  TurnAccepted(w)' /\ AttemptRetryable(w)'
<1>1. cursor \in [Workers -> Cursor] /\ cursor[w] \in Cursor /\ level' = level
  BY WorkerMoves DEF IndInv, TypeOK, TaskTypes
<1>2. cursor[w].attempt \in Nat
  BY <1>1, SessionAssumption DEF Cursor
<1>3. /\ cursor'[w].turn = cursor[w].turn /\ cursor'[w].n = cursor[w].n
      /\ cursor'[w].attempt = cursor[w].attempt + 1
  BY <1>1 DEF Cursor
<1>4. AttemptBefore(w)' = CurrentAttempt(w)
  BY <1>1, <1>2, <1>3 DEF CurrentAttempt, AttemptBefore
<1>5. TurnAccepted(w)'
  BY <1>3, PlaceStaysWarranted DEF InSession
<1> QED
  BY <1>4, <1>5 DEF AttemptRetryable

\* A worker's own step leaves it warranted to go where it goes.
LEMMA OwnWarranted ==
  ASSUME IndInv, RetryInv, NEW w \in Workers, WorkerStep(w)
  PROVE  PlaceWarranted(w)'
<1> USE DEF GoOn, Await, TaskRaises
<1>a. PlaceWarranted(w) /\ level' = level
  BY WorkerMoves DEF IndInv, RetryInv
<1>b. /\ pc \in [Workers -> Awaiting \cup Running \cup Finished]
      /\ cursor \in [Workers -> Cursor] /\ cursor[w] \in Cursor
  BY DEF IndInv, TypeOK, TaskTypes
<1>1. CASE pc'[w] \notin {"turn", "attempt", "request", "backoff", "settled", "think"}
  BY <1>1 DEF PlaceWarranted
<1>2. CASE StopWorker(w) \/ CancelUnstarted(w) \/ FinishSession(w)
  <2>1. pc'[w] \in {"returned", "cancelled", "budget", "session"}
    BY <1>b, <1>2 DEF StopWorker, CancelUnstarted, FinishSession
  <2> QED
    BY <1>1, <2>1
<1>3. CASE HandleException(w)
  <2>1. pc'[w] \in {"failed", "cancelled"}
    BY <1>b, <1>3 DEF HandleException, IndInv, CursorInv, WellPlaced
  <2> QED
    BY <1>1, <2>1
<1>4. CASE EndTurns(w) \/ StopBeforeTurn(w) \/ DropUnansweredTurn(w) \/ CancelSession(w)
  <2>1. pc'[w] \in {"ending", "raising"}
    BY <1>b, <1>4 DEF EndTurns, StopBeforeTurn, DropUnansweredTurn, CancelSession
  <2> QED
    BY <1>1, <2>1
<1>5. CASE StartSession(w)
  <2>1. pc'[w] = "turn" /\ cursor'[w].turn = 0
    BY <1>b, <1>5 DEF StartSession, Cursor
  <2> QED
    BY <2>1 DEF PlaceWarranted, TurnAccepted
<1>6. CASE BeginTurn(w)
  <2>1. /\ pc[w] = "turn" /\ pc'[w] = "attempt" /\ records' = records
        /\ cursor'[w].turn = cursor[w].turn /\ cursor'[w].n = cursor[w].n
        /\ cursor'[w].attempt = 1
    BY <1>b, <1>6 DEF BeginTurn, evidence, requestEvidence, Cursor
  <2>2. TurnAccepted(w)'
    BY <1>a, <2>1, PlaceStaysWarranted DEF PlaceWarranted, InSession
  <2>5. AttemptRetryable(w)'
    BY <2>1 DEF AttemptRetryable
  <2> QED
    BY <2>1, <2>2, <2>5 DEF PlaceWarranted
<1>7. CASE StopBeforeAttempt(w)
  <2>1. pc'[w] = "settled" /\ LastRole(w)' = "user"
    BY <1>b, <1>7 DEF StopBeforeAttempt, LastRole, IndInv, CursorInv, WellPlaced
  <2> QED
    BY <2>1 DEF PlaceWarranted
<1>8. CASE BeginAttempt(w)
  <2>1. /\ pc[w] = "attempt" /\ pc'[w] \in {"raising", "settled", "request"}
        /\ UNCHANGED <<cursor, messages>>
    BY <1>b, <1>8 DEF BeginAttempt
  <2>2. LastRole(w)' = "user"
    BY <2>1 DEF LastRole, IndInv, CursorInv, WellPlaced
  <2> QED
    BY <1>a, <2>1, <2>2, PlaceStaysWarranted DEF PlaceWarranted, InSession, InAttempt
<1>9. CASE RequestAnswered(w)
  <2>1. PICK answer \in Answers :
          /\ records' = [records EXCEPT ![CurrentAttempt(w)] = answer]
          /\ answer # "ok" => UNCHANGED messages
          /\ \/ pc'[w] = "raising"
             \/ pc'[w] = "settled" /\ UNCHANGED cursor
             \/ /\ answer # "ok" /\ ~GivesUp(w, answer)
                /\ \/ pc'[w] = "attempt" /\ cursor' = [cursor EXCEPT ![w].attempt = @ + 1]
                   \/ pc'[w] = "backoff" /\ UNCHANGED cursor
    BY <1>b, <1>9 DEF RequestAnswered
  <2>2. pc[w] = "request"
    BY <1>9 DEF RequestAnswered
  <2>3. records'[CurrentAttempt(w)] = answer
    <3>1. CurrentAttempt(w) \in Attempt
      BY <2>2, InSessionCurrent DEF IndInv, InSession, InAttempt
    <3> QED
      BY <2>1, <3>1 DEF IndInv, TypeOK, EvidenceTypes
  <2>4. CASE pc'[w] = "raising"
    BY <1>1, <2>4
  <2>5. CASE pc'[w] = "settled" /\ UNCHANGED cursor
    <3>1. CurrentAttempt(w)' = CurrentAttempt(w)
      BY <1>a, <2>5 DEF CurrentAttempt
    <3>2. answer # "ok" => LastRole(w)' = "user"
      BY <2>1, <2>2 DEF LastRole, IndInv, CursorInv, WellPlaced
    <3> QED
      BY <2>3, <2>5, <3>1, <3>2 DEF PlaceWarranted
  <2>6. CASE answer # "ok" /\ ~GivesUp(w, answer)
    <3>1. answer = "retryable"
      BY <2>6 DEF GivesUp, Answers
    <3>2. CASE pc'[w] = "attempt" /\ cursor' = [cursor EXCEPT ![w].attempt = @ + 1]
      <4>1. TurnAccepted(w)' /\ AttemptRetryable(w)'
        BY <1>a, <2>2, <2>3, <3>1, <3>2, NextAttemptWarranted DEF PlaceWarranted
      <4> QED
        BY <3>2, <4>1 DEF PlaceWarranted
    <3>3. CASE pc'[w] = "backoff" /\ UNCHANGED cursor
      <4>1. CurrentAttempt(w)' = CurrentAttempt(w)
        BY <1>a, <3>3 DEF CurrentAttempt
      <4>2. TurnAccepted(w)' /\ AttemptRetryable(w)'
        BY <1>a, <2>2, <3>3, PlaceStaysWarranted DEF PlaceWarranted, InSession, InAttempt
      <4> QED
        BY <2>3, <3>1, <3>3, <4>1, <4>2 DEF PlaceWarranted
    <3> QED
      BY <2>1, <2>4, <2>5, <3>2, <3>3
  <2> QED
    BY <2>1, <2>4, <2>5, <2>6
<1>10. CASE BackoffEnds(w)
  <2>1. /\ pc[w] = "backoff" /\ pc'[w] = "attempt" /\ records' = records
        /\ cursor' = [cursor EXCEPT ![w].attempt = @ + 1]
    BY <1>b, <1>10 DEF BackoffEnds, WaitEnds, evidence, requestEvidence
  <2>2. TurnAccepted(w) /\ records'[CurrentAttempt(w)] = "retryable"
    BY <1>a, <2>1 DEF PlaceWarranted
  <2>3. TurnAccepted(w)' /\ AttemptRetryable(w)'
    BY <1>a, <2>1, <2>2, NextAttemptWarranted
  <2> QED
    BY <2>1, <2>3 DEF PlaceWarranted
<1>11. CASE EndTurn(w) \/ ThinkEnds(w)
  <2>1. /\ pc[w] \in {"settled", "think"} /\ records' = records
        /\ pc[w] = "settled" => LastRole(w) = "assistant"
        /\ \/ pc'[w] = "think" /\ UNCHANGED cursor
           \/ pc'[w] = "turn" /\ cursor' = [cursor EXCEPT ![w].turn = @ + 1]
    BY <1>b, <1>11 DEF EndTurn, ThinkEnds, WaitEnds, evidence, requestEvidence
  <2>2. records[CurrentAttempt(w)] = "ok"
    BY <1>a, <2>1 DEF PlaceWarranted
  <2>3. CASE pc'[w] = "think" /\ UNCHANGED cursor
    <3>1. CurrentAttempt(w)' = CurrentAttempt(w)
      BY <1>a, <2>3 DEF CurrentAttempt
    <3> QED
      BY <2>1, <2>2, <2>3, <3>1 DEF PlaceWarranted
  <2>4. CASE pc'[w] = "turn" /\ cursor' = [cursor EXCEPT ![w].turn = @ + 1]
    <3>1. TurnAccepted(w)'
      BY <1>a, <2>1, <2>2, <2>4, NextTurnWarranted
    <3> QED
      BY <2>4, <3>1 DEF PlaceWarranted
  <2> QED
    BY <2>1, <2>3, <2>4
<1> QED
  BY <1>2, <1>3, <1>4, <1>5, <1>6, <1>7, <1>8, <1>9, <1>10, <1>11 DEF WorkerStep

\* No step of the main task, and nothing from outside, touches what warrants a
\* worker's next move.
LEMMA OthersKeepRetries ==
  ASSUME RetryInv, MainStep \/ SetStop \/ CancelRun \/ GatherIsTold \/ UNCHANGED vars
  PROVE  RetryInv'
<1>1. UNCHANGED <<attempts, records>>
  BY MainLeavesRequests DEF SetStop, CancelRun, GatherIsTold, vars, evidence, requestEvidence
<1>2. RetryDiscipline'
  BY <1>1 DEF RetryInv, RetryDiscipline
<1>3. CASE StartLevel \/ ClientDoesNotOpen
  <2>1. \A w \in Workers : pc'[w] \in {"ready", "idle"}
    BY <1>3 DEF StartLevel, ClientDoesNotOpen
  <2> QED
    BY <1>2, <2>1 DEF RetryInv, PlaceWarranted
<1>4. CASE UNCHANGED <<level, pc, cursor, messages, turnsCompleted, status>>
  BY <1>1, <1>2, <1>4 DEF RetryInv, PlaceWarranted, TurnAccepted, TurnBefore, AttemptRetryable, AttemptBefore,
                              CurrentAttempt, LastRole
<1> QED
  BY <1>3, <1>4, MainKeepsTasks DEF SetStop, CancelRun, GatherIsTold, vars, mainVars, taskVars

\* session.py:84-129: for any retry policy and number of turns, nothing is sent
\* again but after a retryable answer, and no turn follows an unanswered one.
THEOREM RetriesWarranted == Spec => []RetryDiscipline
<1>1. Init => RetryInv
  BY DEF Init, RetryInv, RetryDiscipline, PlaceWarranted
<1>2. IndInv /\ RetryInv /\ [Next]_vars => RetryInv'
  <2> SUFFICES ASSUME IndInv, RetryInv, [Next]_vars PROVE RetryInv'
    OBVIOUS
  <2>1. ASSUME NEW w \in Workers, WorkerStep(w) PROVE RetryInv'
    BY <2>1, WorkerRetries, OthersWarranted, OwnWarranted DEF RetryInv
  <2> QED
    BY <2>1, OthersKeepRetries DEF Next, Terminated
<1>3. RetryInv => RetryDiscipline
  BY DEF RetryInv
<1> QED
  BY Inductive, <1>1, <1>2, <1>3, PTL DEF Spec

-----------------------------------------------------------------------------
(* 5. Outcomes.                                                            *)

\* run_level is running; run_level is past its gather.
InLevel == MainAwaiting \cup {"leave"}
AfterGather == InLevel \ {"gather"}

\* A session still under way was not cut short, but by stop.
SessionsOnCourse ==
  \A w \in Workers : pc[w] \in InSession \ {"raising"} =>
    status[w] = "completed" \/ (status[w] = "stopped" /\ stop)

\* The levels before the current one are completed, it is not while it runs,
\* and the later ones have no outcome.
LevelsInOrder ==
  \A l \in Levels :
    /\ l < level \/ (l = level /\ runPc = "ramp") => levelStatus[l] = "completed"
    /\ l = level /\ runPc \in InLevel => levelStatus[l] # "completed"
    /\ l > level => levelStatus[l] = "none"

\* The exception of run_level exists from a worker's failure on, and only then.
ExceptionInPlace ==
  /\ runPc \in {"ramp", "gather"} => exc = "none"
  /\ runPc = "join" => exc # "none"
  /\ runPc \in AfterGather /\ exc = "none" => raised = "none"
  /\ raised = "none" => "done" \notin gather /\ \A w \in Workers : pc[w] \notin Exceptions

\* A level's exception is the first of its workers', unless a cancellation or a
\* failing client came on top of it.
ExceptionExplained ==
  /\ runPc = "ramp" => raised = "none"
  /\ raised # "none" => \E w \in Workers : pc[w] = raised
  /\ runPc \in AfterGather =>
       \/ exc \in {raised, "cancelled"}
       \/ exc = "failed" /\ "client" \in Disturbances

\* A session cut short, and what becomes of its exception.
CutShort(s) == sessions[s].status \in {"failed", "cancelled"}
FailureKept ==
  (\E s \in SessionId : CutShort(s)) =>
    \/ runPc = "gather" /\ raised # "none"
    \/ runPc \in AfterGather /\ exc # "none"
    \/ runPc \in Ended /\ runStatus \notin {"completed", "stopped"}

\* A session that stop ended: stop was set, and is never taken back.
StopKept == \A s \in SessionId : sessions[s].status = "stopped" => stop

\* Whatever is cancelled was cancelled from outside, or with a failed level.
CancelsTraced ==
  /\ cancelPending => cancels > 0
  /\ exc = "none" /\ cancelling # {} => cancels > 0
  /\ "cancelled" \in gather => cancels > 0
  /\ raised = "cancelled" => cancels > 0 \/ exc # "none"
  /\ exc = "cancelled" => cancels > 0
  /\ runPc = "gather" => \A w \in Workers :
       pc[w] = "raising" /\ status[w] = "cancelled" => cancels > 0

\* run_ramp has seen stop unset whenever it is about to enter another level
\* (ramp.py:94-98).
StopChecked == runPc = "ramp" /\ level \in Levels => ~stop

\* The strengthening of RunStatusExplained.
OutcomeInv ==
  /\ StopChecked /\ SessionsOnCourse /\ LevelsInOrder /\ ExceptionInPlace /\ FailureKept
  /\ StopKept /\ CancelsTraced /\ ExceptionExplained /\ RunStatusExplained

\* The first session of a worker in the current level.
FirstSession(w) == [concurrency |-> level, worker |-> w, n |-> 1]
HasFirst(w) == sessions[FirstSession(w)] # NoSession

\* A worker that goes on or is through has completed its first session.
Served(w) ==
  /\ pc[w] # "idle" /\ cursor[w].n > 1 => HasFirst(w)
  /\ pc[w] = "session" => HasFirst(w)
  /\ pc[w] = "returned" => stop \/ HasFirst(w)

\* The worker tasks of the current level.
Tasks == {w \in Workers : pc[w] # "idle"}

\* Only the tasks of a level have sessions in it.
SessionsOfTasks ==
  \A s \in SessionId : sessions[s] # NoSession =>
    /\ s.concurrency <= level
    /\ s.concurrency = level /\ runPc \in InLevel => pc[s.worker] # "idle"

\* The strengthening of CompletedLevelServedEveryWorker.
ServedInv ==
  /\ \A w \in Workers : Served(w)
  /\ SessionsOfTasks
  /\ Cardinality(Tasks) <= level
  /\ runPc \in InLevel /\ exc = "none" => Cardinality(Tasks) = level
  /\ runPc \in AfterGather /\ exc = "none" =>
       \A w \in Workers : pc[w] \in {"idle", "returned"}
  /\ CompletedLevelServedEveryWorker

\* run_level has given a level it leaves with an exception its outcome.
LevelOutcomeInv ==
  /\ runPc # "sampler"
  /\ runPc \in {"monitor", "leave"} /\ exc # "none" => levelStatus[level] # "running"
  /\ LevelOutcomeTerminal

\* A cancellation is pending, or has become the level's exception, or gather
\* took it when another exception was on its way.
CancellationInv ==
  /\ runPc # "monitor"
  /\ runPc \in {"ramp", "leave"} => ~cancelPending
  /\ runPc # "raised" /\ cancels > 0 =>
       \/ cancelPending
       \/ exc \in {"failed", "cancelled"}
       \/ "cancelled" \in gather /\ (runPc = "gather" \/ exc = "budget")
  /\ CancellationEndsRun

-----------------------------------------------------------------------------
\* What a worker's step leaves to the main task.
LEMMA WorkerKeepsMain ==
  ASSUME NEW w \in Workers, WorkerStep(w)
  PROVE  /\ UNCHANGED <<runPc, level, gather, exc, cancelPending, cancels, runStatus, levelStatus>>
         /\ stop => stop'
         /\ cancelling' \subseteq cancelling
<1> USE DEF mainVars, evidence, statusEvidence, TaskRaises
<1>1. CASE StopWorker(w) \/ StartSession(w) \/ FinishSession(w)
  BY <1>1 DEF StopWorker, StartSession, FinishSession
<1>2. CASE EndTurns(w) \/ StopBeforeTurn(w) \/ BeginTurn(w) \/ StopBeforeAttempt(w)
  BY <1>2 DEF EndTurns, StopBeforeTurn, BeginTurn, StopBeforeAttempt
<1>3. CASE BeginAttempt(w)
  BY <1>3 DEF BeginAttempt, StopAfter
<1>4. CASE RequestAnswered(w)
  BY <1>4 DEF RequestAnswered, StopAfter
<1>5. CASE BackoffEnds(w) \/ DropUnansweredTurn(w) \/ EndTurn(w) \/ ThinkEnds(w)
  BY <1>5 DEF BackoffEnds, WaitEnds, DropUnansweredTurn, EndTurn, ThinkEnds
<1>6. CASE CancelUnstarted(w) \/ CancelSession(w) \/ HandleException(w)
  BY <1>6 DEF CancelUnstarted, CancelSession, HandleException
<1> QED
  BY <1>1, <1>2, <1>3, <1>4, <1>5, <1>6 DEF WorkerStep

\* A worker's step ends its task with an exception, which counts if it is the
\* first, or leaves the first as it was.
LEMMA WorkerGather ==
  ASSUME TaskTypes, CursorInv, NEW w \in Workers, WorkerStep(w)
  PROVE  \/ raised' = raised /\ pc'[w] \notin Exceptions
         \/ \E e \in Exceptions :
              /\ TaskRaises(w, e)
              /\ e = "cancelled" => w \in cancelling \/ (pc[w] = "raising" /\ status[w] = e)
              /\ pc[w] = "raising" => e # "budget"
<1> USE DEF GoOn, Await, mainVars, Exceptions, TaskTypes
<1>1. CASE StopWorker(w) \/ StartSession(w)
  BY <1>1 DEF StopWorker, StartSession
<1>2. CASE FinishSession(w)
  BY <1>2 DEF FinishSession
<1>3. CASE EndTurns(w) \/ StopBeforeTurn(w) \/ BeginTurn(w) \/ StopBeforeAttempt(w)
  BY <1>3 DEF EndTurns, StopBeforeTurn, BeginTurn, StopBeforeAttempt
<1>4. CASE BeginAttempt(w)
  BY <1>4 DEF BeginAttempt
<1>5. CASE RequestAnswered(w)
  BY <1>5 DEF RequestAnswered
<1>6. CASE BackoffEnds(w) \/ DropUnansweredTurn(w) \/ EndTurn(w) \/ ThinkEnds(w)
  BY <1>6 DEF BackoffEnds, WaitEnds, DropUnansweredTurn, EndTurn, ThinkEnds
<1>7. CASE CancelUnstarted(w) \/ CancelSession(w)
  BY <1>7 DEF CancelUnstarted, CancelSession
<1>8. CASE HandleException(w)
  <2>1. status[w] \in {"failed", "cancelled"} /\ pc[w] = "raising"
    BY <1>8 DEF HandleException, CursorInv, WellPlaced
  <2> QED
    BY <1>8, <2>1 DEF HandleException
<1> QED
  BY <1>1, <1>2, <1>3, <1>4, <1>5, <1>6, <1>7, <1>8 DEF WorkerStep

\* A worker's step writes no summary but that of its session, when it is over.
LEMMA WorkerWritesSummary ==
  ASSUME IndInv, NEW w \in Workers, WorkerStep(w)
  PROVE  \/ UNCHANGED sessions
         \/ /\ pc[w] \in {"ending", "raising"}
            /\ CurrentSession(w) \in SessionId
            /\ sessions'[CurrentSession(w)].status = status[w]
            /\ sessions'[CurrentSession(w)] # NoSession
            /\ \A s \in SessionId \ {CurrentSession(w)} : sessions'[s] = sessions[s]
            /\ pc[w] = "raising" => \E e \in Exceptions : TaskRaises(w, e)
<1>a. sessions \in [SessionId -> SessionRecord \cup {NoSession}]
  BY DEF IndInv, TypeOK, EvidenceTypes
<1>b. ASSUME pc[w] \in {"ending", "raising"} PROVE CurrentSession(w) \in SessionId
  BY <1>b, InSessionCurrent DEF IndInv, InSession
<1>c. ASSUME NEW t PROVE Summary(w, t).status = status[w]
  BY DEF Summary
<1>d. ASSUME NEW t PROVE Summary(w, t) # NoSession
  <2>1. status[w] # "none"
    BY DEF IndInv, TypeOK, TaskTypes, SessionStatus
  <2>2. NoSession.status = "none"
    BY DEF NoSession
  <2> QED
    BY <1>c, <2>1, <2>2
<1>1. CASE FinishSession(w)
  <2>1. /\ pc[w] = "ending"
        /\ sessions' = [sessions EXCEPT ![CurrentSession(w)] = Summary(w, messages[w])]
    BY <1>1 DEF FinishSession
  <2> QED
    BY <1>a, <1>b, <1>c, <1>d, <2>1
<1>2. CASE HandleException(w)
  <2>1. /\ pc[w] = "raising"
        /\ sessions' = [sessions EXCEPT ![CurrentSession(w)] =
                          Summary(w, TranscriptAfterException(w))]
        /\ TaskRaises(w, status[w])
    BY <1>2 DEF HandleException
  <2>2. status[w] \in Exceptions
    BY <2>1 DEF IndInv, CursorInv, WellPlaced, Exceptions
  <2> QED
    BY <1>a, <1>b, <1>c, <1>d, <2>1, <2>2
<1>3. CASE ~FinishSession(w) /\ ~HandleException(w)
  BY <1>3, WorkerEvidence DEF BeginAttempt, RequestAnswered
<1> QED
  BY <1>1, <1>2, <1>3

\* A worker's step leaves the sessions under way on course.
LEMMA WorkerOnCourse ==
  ASSUME IndInv, SessionsOnCourse, NEW w \in Workers, WorkerStep(w)
  PROVE  SessionsOnCourse'
<1> USE DEF GoOn, Await, TaskRaises
<1>a. /\ pc \in [Workers -> Awaiting \cup Running \cup Finished]
      /\ status \in [Workers -> SessionStatus]
  BY DEF IndInv, TypeOK, TaskTypes
<1>b. stop => stop'
  BY WorkerKeepsMain
<1>c. pc[w] \in InSession \ {"raising"} =>
        status[w] = "completed" \/ (status[w] = "stopped" /\ stop)
  BY DEF SessionsOnCourse
<1> SUFFICES pc'[w] \in InSession \ {"raising"} =>
               status'[w] = "completed" \/ (status'[w] = "stopped" /\ stop')
  BY <1>b, OtherWorkersStay DEF IndInv, TypeOK, SessionsOnCourse
<1>1. CASE StopWorker(w) \/ FinishSession(w) \/ CancelUnstarted(w)
  BY <1>a, <1>1 DEF StopWorker, FinishSession, CancelUnstarted, InSession
<1>2. CASE HandleException(w)
  BY <1>a, <1>2 DEF HandleException, InSession, IndInv, CursorInv, WellPlaced
<1>3. CASE CancelSession(w)
  BY <1>a, <1>3 DEF CancelSession
<1>4. CASE StartSession(w)
  BY <1>a, <1>4 DEF StartSession
<1>5. CASE StopBeforeTurn(w) \/ StopBeforeAttempt(w)
  BY <1>a, <1>5 DEF StopBeforeTurn, StopBeforeAttempt
<1>6. CASE BeginAttempt(w)
  BY <1>a, <1>c, <1>6 DEF BeginAttempt, StopSeenAfterStart, InSession
<1>7. CASE RequestAnswered(w)
  BY <1>a, <1>b, <1>c, <1>7 DEF RequestAnswered, InSession
<1>8. CASE EndTurns(w) \/ BeginTurn(w) \/ DropUnansweredTurn(w)
  BY <1>a, <1>c, <1>8 DEF EndTurns, BeginTurn, DropUnansweredTurn, InSession
<1>9. CASE BackoffEnds(w) \/ EndTurn(w) \/ ThinkEnds(w)
  BY <1>a, <1>c, <1>9 DEF BackoffEnds, WaitEnds, EndTurn, ThinkEnds, InSession
<1> QED
  BY <1>1, <1>2, <1>3, <1>4, <1>5, <1>6, <1>7, <1>8, <1>9 DEF WorkerStep

\* Which status a worker's step sets, and when it meets a cancellation.
LEMMA WorkerTurnsToRaise ==
  ASSUME TaskTypes, NEW w \in Workers, WorkerStep(w), pc'[w] = "raising", status'[w] = "cancelled"
  PROVE  w \in cancelling
<1> USE DEF GoOn, Await, TaskRaises, TaskTypes
<1>1. CASE StopWorker(w) \/ StartSession(w) \/ FinishSession(w)
  BY <1>1 DEF StopWorker, StartSession, FinishSession
<1>2. CASE EndTurns(w) \/ StopBeforeTurn(w) \/ BeginTurn(w) \/ StopBeforeAttempt(w)
  BY <1>2 DEF EndTurns, StopBeforeTurn, BeginTurn, StopBeforeAttempt
<1>3. CASE BeginAttempt(w)
  BY <1>3 DEF BeginAttempt
<1>4. CASE RequestAnswered(w)
  BY <1>4 DEF RequestAnswered
<1>5. CASE BackoffEnds(w) \/ DropUnansweredTurn(w) \/ EndTurn(w) \/ ThinkEnds(w)
  BY <1>5 DEF BackoffEnds, WaitEnds, DropUnansweredTurn, EndTurn, ThinkEnds
<1>6. CASE CancelUnstarted(w) \/ CancelSession(w)
  BY <1>6 DEF CancelUnstarted, CancelSession
<1>7. CASE HandleException(w)
  BY <1>7 DEF HandleException, SessionStatus
<1> QED
  BY <1>1, <1>2, <1>3, <1>4, <1>5, <1>6, <1>7 DEF WorkerStep

\* A worker's step keeps the outcome accounted for.
LEMMA WorkerOutcome ==
  ASSUME IndInv, OutcomeInv, NEW w \in Workers, WorkerStep(w)
  PROVE  OutcomeInv'
<1>a. /\ UNCHANGED <<runPc, level, gather, exc, cancelPending, cancels, runStatus, levelStatus>>
      /\ stop => stop'
      /\ cancelling' \subseteq cancelling
  BY WorkerKeepsMain
<1>b. runPc \in {"gather", "join"}
  BY WorkerMoves DEF IndInv, LoopInv, Awaiting, Running, Finished, Exceptions
<1>c. runPc \notin Ended /\ runPc \in InLevel
  BY <1>b DEF Ended, InLevel, MainAwaiting
<1>d. \A v \in Workers : v # w => pc'[v] = pc[v] /\ status'[v] = status[v]
  BY OtherWorkersStay DEF IndInv, TypeOK
<1>e. \/ raised' = raised /\ pc'[w] \notin Exceptions
      \/ \E e \in Exceptions :
           /\ TaskRaises(w, e)
           /\ e = "cancelled" => w \in cancelling \/ (pc[w] = "raising" /\ status[w] = e)
           /\ pc[w] = "raising" => e # "budget"
  BY WorkerGather DEF IndInv, TypeOK
<1>f. raised # "none" => raised' = raised
  BY <1>e DEF TaskRaises
<1>g. (\E e \in Exceptions : TaskRaises(w, e)) => raised' # "none"
  BY DEF TaskRaises, Exceptions
<1>1. SessionsOnCourse'
  BY WorkerOnCourse DEF OutcomeInv
<1>2. StopChecked' /\ LevelsInOrder' /\ RunStatusExplained'
  BY <1>a, <1>b, <1>c DEF OutcomeInv, StopChecked, LevelsInOrder, RunStatusExplained
<1>3. ExceptionInPlace'
  <2>1. raised' = "none" => raised = "none" /\ pc'[w] \notin Exceptions
    BY <1>e, <1>f, <1>g
  <2>2. runPc \in AfterGather => exc # "none"
    BY <1>b DEF AfterGather, OutcomeInv, ExceptionInPlace
  <2> QED
    BY <1>a, <1>d, <2>1, <2>2 DEF OutcomeInv, ExceptionInPlace
<1>4. FailureKept' /\ StopKept'
  <2>1. CASE UNCHANGED sessions
    BY <1>a, <1>f, <2>1 DEF OutcomeInv, FailureKept, CutShort, StopKept
  <2>2. CASE /\ pc[w] \in {"ending", "raising"}
             /\ sessions'[CurrentSession(w)].status = status[w]
             /\ \A s \in SessionId \ {CurrentSession(w)} : sessions'[s] = sessions[s]
             /\ pc[w] = "raising" => \E e \in Exceptions : TaskRaises(w, e)
    <3>1. pc[w] = "ending" => status[w] = "completed" \/ (status[w] = "stopped" /\ stop)
      BY DEF OutcomeInv, SessionsOnCourse, InSession
    <3>2. pc[w] = "raising" => status[w] # "stopped" /\ raised' # "none"
      BY <1>g, <2>2 DEF IndInv, CursorInv, WellPlaced
    <3>3. StopKept'
      BY <1>a, <2>2, <3>1, <3>2 DEF OutcomeInv, StopKept
    <3>4. ASSUME NEW s \in SessionId, CutShort(s)'
          PROVE  \/ runPc = "gather" /\ raised' # "none"
                 \/ runPc = "join" /\ exc # "none"
      <4>1. CASE CutShort(s)
        BY <1>b, <1>c, <1>f, <4>1 DEF OutcomeInv, FailureKept, ExceptionInPlace
      <4>2. CASE ~CutShort(s)
        <5>1. pc[w] = "raising"
          BY <2>2, <3>1, <3>4, <4>2 DEF CutShort
        <5> QED
          BY <1>b, <3>2, <5>1 DEF OutcomeInv, ExceptionInPlace
      <4> QED
        BY <4>1, <4>2
    <3>5. FailureKept'
      BY <1>a, <3>4 DEF FailureKept, AfterGather, InLevel, MainAwaiting
    <3> QED
      BY <3>3, <3>5
  <2> QED
    BY <2>1, <2>2, WorkerWritesSummary
<1>5. CancelsTraced'
  <2>1. exc = "none" /\ w \in cancelling => cancels > 0
    BY DEF OutcomeInv, CancelsTraced
  <2>2. raised' = "cancelled" => cancels > 0 \/ exc # "none"
    <3>1. CASE raised' = raised
      BY <3>1 DEF OutcomeInv, CancelsTraced
    <3>2. CASE exc = "none"
      <4>1. runPc = "gather"
        BY <1>b, <3>2 DEF OutcomeInv, ExceptionInPlace
      <4> QED
        BY <1>e, <2>1, <3>2, <4>1 DEF OutcomeInv, CancelsTraced, TaskRaises
    <3> QED
      BY <3>1, <3>2
  <2>3. ASSUME runPc = "gather", pc'[w] = "raising", status'[w] = "cancelled"
        PROVE  cancels > 0
    BY <2>1, <2>3, WorkerTurnsToRaise DEF OutcomeInv, ExceptionInPlace, IndInv, TypeOK
  <2> QED
    BY <1>a, <1>d, <2>2, <2>3 DEF OutcomeInv, CancelsTraced
<1>6. ExceptionExplained'
  <2>1. raised' # "none" => \E v \in Workers : pc'[v] = raised'
    <3>1. ASSUME NEW e \in Exceptions, TaskRaises(w, e)
          PROVE  pc'[w] = e /\ (raised = "none" => raised' = e)
      BY <3>1 DEF TaskRaises, Await, IndInv, TypeOK, TaskTypes
    <3>2. CASE raised = "none"
      BY <1>e, <3>1, <3>2
    <3>3. CASE raised # "none"
      <4>1. PICK v \in Workers : pc[v] = raised
        BY <3>3 DEF OutcomeInv, ExceptionExplained
      <4>2. v # w
        <5>1. raised \in Exceptions
          BY <3>3 DEF IndInv, TypeOK, MainTypes
        <5>2. pc[w] \in Awaiting \cup Running
          BY WorkerMoves DEF IndInv
        <5> QED
          BY <4>1, <5>1, <5>2 DEF Awaiting, Running, Exceptions
      <4> QED
        BY <1>d, <1>f, <3>3, <4>1, <4>2
    <3> QED
      BY <3>2, <3>3
  <2>2. ASSUME runPc \in AfterGather
        PROVE  exc \in {raised', "cancelled"} \/ (exc = "failed" /\ "client" \in Disturbances)
    <3>1. runPc = "join" /\ exc # "none"
      BY <1>b, <2>2 DEF AfterGather, OutcomeInv, ExceptionInPlace
    <3> QED
      BY <1>f, <2>2, <3>1 DEF OutcomeInv, ExceptionExplained
  <2> QED
    BY <1>a, <1>b, <2>1, <2>2 DEF ExceptionExplained
<1> QED
  BY <1>1, <1>2, <1>3, <1>4, <1>5, <1>6 DEF OutcomeInv
-----------------------------------------------------------------------------
(* The main task: entering a level, awaiting it, leaving it.               *)

\* The levels are positive numbers, and the last is the stop of the ramp.
LEMMA LevelsAreNat == Levels \subseteq Nat \ {0} /\ RampStop \in Levels
BY RampAssumption DEF Levels

\* Nothing is entered before every earlier level is over.
LEMMA EnteringOrder ==
  ASSUME TypeOK, LevelsInOrder, runPc = "ramp", NEW l \in Levels, EnterLevel(l)
  PROVE  /\ \A m \in Levels : m < l => m <= level
         /\ \A m \in Levels : m <= level => levelStatus[m] = "completed"
         /\ \A m \in Levels : m >= l => levelStatus[m] = "none"
<1>1. level \in Nat /\ Levels \subseteq Nat
  BY LevelsAreNat DEF TypeOK, MainTypes
<1>2. level < l /\ \A m \in Levels : m > level => l <= m
  BY DEF EnterLevel, LevelsAfter
<1>3. \A m \in Levels : m < l => m <= level
  BY <1>1, <1>2
<1>4. \A m \in Levels : m <= level => m < level \/ m = level
  BY <1>1
<1>5. \A m \in Levels : m >= l => m > level
  BY <1>1, <1>2
<1> QED
  BY <1>3, <1>4, <1>5 DEF LevelsInOrder

\* Entering a level, with or without a client, keeps the outcome accounted for.
LEMMA EnterOutcome ==
  ASSUME IndInv, OutcomeInv, StartLevel \/ ClientDoesNotOpen
  PROVE  OutcomeInv'
<1>a. PICK l \in Levels :
        /\ EnterLevel(l)
        /\ levelStatus' = [levelStatus EXCEPT ![l] = IF StartLevel THEN "running" ELSE "failed"]
  BY DEF StartLevel, ClientDoesNotOpen
<1>b. /\ runPc = "ramp" /\ level' = l /\ raised' = "none" /\ gather' = {} /\ ~stop
      /\ UNCHANGED <<cancelPending, cancels, stop, cancelling, sessions>>
  BY <1>a DEF EnterLevel
<1>c. /\ \A w \in Workers : pc'[w] \in {"ready", "idle"}
      /\ \/ runPc' = "gather" /\ exc' = "none"
         \/ runPc' \in AfterGather \ {"join"} /\ exc' = "failed"
  BY DEF StartLevel, ClientDoesNotOpen, MainGoesTo, AfterClient, AfterSampler, AfterGather,
         InLevel, MainAwaiting
<1>f. runPc' = "gather" \/ "client" \in Disturbances
  BY DEF StartLevel, ClientDoesNotOpen, MainGoesTo
<1>d. exc = "none" /\ \A s \in SessionId : ~CutShort(s)
  <2>1. exc = "none"
    BY <1>b DEF OutcomeInv, ExceptionInPlace
  <2> QED
    BY <1>b, <2>1 DEF OutcomeInv, FailureKept, AfterGather, InLevel, MainAwaiting, Ended
<1>1. StopChecked' /\ StopKept' /\ SessionsOnCourse' /\ ExceptionInPlace' /\ RunStatusExplained'
  <2>1. runPc' \notin {"ramp", "join"} \cup Ended
    BY <1>c DEF AfterGather, InLevel, MainAwaiting, Ended
  <2> QED
    BY <1>b, <1>c, <2>1 DEF OutcomeInv, StopChecked, StopKept, SessionsOnCourse, ExceptionInPlace,
         RunStatusExplained, InSession, Exceptions, AfterGather
<1>2. FailureKept'
  BY <1>b, <1>d DEF FailureKept, CutShort
<1>3. CancelsTraced' /\ ExceptionExplained'
  <2>1. runPc' # "ramp"
    BY <1>c DEF AfterGather, InLevel, MainAwaiting
  <2>2. ExceptionExplained'
    BY <1>b, <1>c, <1>f, <2>1 DEF ExceptionExplained, AfterGather
  <2> QED
    BY <1>b, <1>c, <1>d, <2>2 DEF OutcomeInv, CancelsTraced
<1>4. LevelsInOrder'
  <2>1. /\ \A m \in Levels : m < l => m <= level
        /\ \A m \in Levels : m <= level => levelStatus[m] = "completed"
        /\ \A m \in Levels : m >= l => levelStatus[m] = "none"
    BY <1>a, <1>b, EnteringOrder DEF IndInv, OutcomeInv
  <2>2. levelStatus \in [Levels -> RunStatus \cup {"none"}] /\ Levels \subseteq Nat
    BY LevelsAreNat DEF IndInv, TypeOK, EvidenceTypes
  <2>3. runPc' # "ramp" /\ levelStatus'[l] # "completed"
    BY <1>a, <1>c, <2>2 DEF AfterGather, InLevel, MainAwaiting
  <2>4. \A m \in Levels : m # l => levelStatus'[m] = levelStatus[m]
    BY <1>a, <2>2
  <2>5. \A m \in Levels : /\ m < l => m # l
                          /\ m > l => m # l /\ m >= l
    BY <2>2
  <2> QED
    BY <1>b, <2>1, <2>3, <2>4, <2>5 DEF LevelsInOrder
<1> QED
  BY <1>1, <1>2, <1>3, <1>4 DEF OutcomeInv

\* What the awaits of the main task do: they go on in the level with an
\* exception that was there, a pending cancellation or a failure, and give the
\* level no outcome but that of an exception.
LEMMA MainAwaits ==
  ASSUME IndInv, OutcomeInv,
         GatherReturns \/ GatherRaises \/ JoinTasks \/ CloseClient \/ JoinSampler \/ FinishMonitor
  PROVE  /\ runPc \in MainAwaiting /\ runPc' \in AfterGather
         /\ UNCHANGED <<level, raised, gather, cancels, stop, pc, status, sessions>>
         /\ exc # "none" => exc' # "none"
         /\ runPc = "gather" /\ raised # "none" => exc' # "none"
         /\ runPc' = "join" => exc' # "none"
         /\ exc' = "cancelled" =>
              CancelledMeanwhile \/ exc = "cancelled" \/ (runPc = "gather" /\ raised = exc')
         /\ \/ exc' \in {exc, "cancelled"}
            \/ runPc = "gather" /\ exc' = raised
            \/ exc' = "failed" /\ "client" \in Disturbances
         /\ exc' = "none" => cancelling' = cancelling
         /\ cancelPending' = FALSE
         /\ \/ UNCHANGED levelStatus
            \/ levelStatus' = [levelStatus EXCEPT ![level] = StatusOf(exc)]
            \/ levelStatus' = [levelStatus EXCEPT ![level] = StatusOf(exc')]
<1> USE DEF AfterGather, InLevel, MainAwaiting, MainGoesTo, SetStatus, taskVars, CancelledMeanwhile
<1>1. CASE GatherReturns
  BY <1>1 DEF GatherReturns, evidence, statusEvidence
<1>2. CASE GatherRaises
  <2>1. raised = "none" => "done" \notin gather
    BY DEF OutcomeInv, ExceptionInPlace
  <2> QED
    BY <1>2, <2>1 DEF GatherRaises, evidence, statusEvidence
<1>3. CASE JoinTasks
  BY <1>3 DEF JoinTasks, statusEvidence
<1>4. CASE CloseClient
  BY <1>4 DEF CloseClient, statusEvidence, AfterClient, AfterSampler
<1>5. CASE JoinSampler
  BY <1>5 DEF JoinSampler, evidence, statusEvidence, AfterSampler, AfterSamplerJoined
<1>6. CASE FinishMonitor
  BY <1>6 DEF FinishMonitor, evidence, statusEvidence
<1> QED
  BY <1>1, <1>2, <1>3, <1>4, <1>5, <1>6

\* An await of the main task keeps the outcome accounted for.
LEMMA AwaitsOutcome ==
  ASSUME IndInv, OutcomeInv,
         GatherReturns \/ GatherRaises \/ JoinTasks \/ CloseClient \/ JoinSampler \/ FinishMonitor
  PROVE  OutcomeInv'
<1>a. /\ runPc \in MainAwaiting /\ runPc' \in AfterGather
      /\ UNCHANGED <<level, raised, gather, cancels, stop, pc, status, sessions>>
      /\ exc # "none" => exc' # "none"
      /\ runPc = "gather" /\ raised # "none" => exc' # "none"
      /\ runPc' = "join" => exc' # "none"
      /\ exc' = "cancelled" =>
           CancelledMeanwhile \/ exc = "cancelled" \/ (runPc = "gather" /\ raised = exc')
      /\ \/ exc' \in {exc, "cancelled"}
         \/ runPc = "gather" /\ exc' = raised
         \/ exc' = "failed" /\ "client" \in Disturbances
      /\ exc' = "none" => cancelling' = cancelling
      /\ cancelPending' = FALSE
      /\ \/ UNCHANGED levelStatus
         \/ levelStatus' = [levelStatus EXCEPT ![level] = StatusOf(exc)]
         \/ levelStatus' = [levelStatus EXCEPT ![level] = StatusOf(exc')]
  BY MainAwaits
<1>b. /\ runPc \notin {"ramp"} \cup Ended /\ runPc' \notin {"ramp", "gather"} \cup Ended
      /\ runPc \in InLevel
  BY <1>a DEF AfterGather, InLevel, MainAwaiting, Ended
<1>1. StopChecked' /\ StopKept' /\ SessionsOnCourse' /\ RunStatusExplained'
  BY <1>a, <1>b DEF OutcomeInv, StopChecked, StopKept, SessionsOnCourse, RunStatusExplained
<1>2. LevelsInOrder'
  <2>1. \A l \in Levels : /\ l # level => levelStatus'[l] = levelStatus[l]
                          /\ levelStatus'[l] # levelStatus[l] => levelStatus'[l] # "completed"
    BY <1>a DEF IndInv, TypeOK, EvidenceTypes, StatusOf
  <2>2. level \in Nat /\ Levels \subseteq Nat
    BY LevelsAreNat DEF IndInv, TypeOK, MainTypes
  <2>3. \A l \in Levels : l < level \/ l > level => l # level
    BY <2>2
  <2> QED
    BY <1>a, <1>b, <2>1, <2>3 DEF OutcomeInv, LevelsInOrder
<1>3. ExceptionInPlace'
  <2>1. exc' = "none" => raised = "none"
    BY <1>a, <1>b DEF OutcomeInv, ExceptionInPlace, AfterGather, InLevel
  <2> QED
    BY <1>a, <1>b, <2>1 DEF OutcomeInv, ExceptionInPlace
<1>4. FailureKept'
  BY <1>a, <1>b DEF OutcomeInv, FailureKept, CutShort
<1>5. CancelsTraced'
  <2>1. exc' = "cancelled" => cancels > 0
    <3>1. ASSUME runPc = "gather", raised = "cancelled" PROVE cancels > 0
      BY <1>a, <3>1 DEF OutcomeInv, CancelsTraced, ExceptionInPlace
    <3> QED
      BY <1>a, <3>1 DEF OutcomeInv, CancelsTraced, CancelledMeanwhile
  <2> QED
    BY <1>a, <1>b, <2>1 DEF OutcomeInv, CancelsTraced
<1>6. ExceptionExplained'
  <2>1. \/ exc' \in {raised, "cancelled"}
        \/ exc' = "failed" /\ "client" \in Disturbances
    <3>1. CASE exc' = exc
      <4>1. CASE runPc = "gather"
        BY <1>a, <3>1, <4>1 DEF OutcomeInv, ExceptionInPlace
      <4>2. CASE runPc # "gather"
        BY <1>b, <3>1, <4>2 DEF OutcomeInv, ExceptionExplained, AfterGather
      <4> QED
        BY <4>1, <4>2
    <3> QED
      BY <1>a, <3>1
  <2> QED
    BY <1>a, <1>b, <2>1 DEF OutcomeInv, ExceptionExplained
<1> QED
  BY <1>1, <1>2, <1>3, <1>4, <1>5, <1>6 DEF OutcomeInv

\* What leaving a level or the ramp does not touch.
LEMMA LeavingKeeps ==
  ASSUME EvidenceTypes,
         EndRamp \/ StopRamp \/ ReturnFromLevel \/ BudgetEndsRamp \/ RaiseFromLevel
  PROVE  /\ runPc \in {"ramp", "leave"} /\ runPc' \in {"ramp"} \cup Ended
         /\ UNCHANGED <<level, raised, gather, exc, cancelPending, cancels, cancelling, pc,
                        cursor, status, sessions>>
         /\ stop => stop'
         /\ \A l \in Levels : l # level => levelStatus'[l] = levelStatus[l]
<1> USE DEF MainGoesTo, Ended, taskVars, EvidenceTypes
<1>1. CASE EndRamp \/ StopRamp
  BY <1>1 DEF EndRamp, StopRamp
<1>2. CASE ReturnFromLevel
  BY <1>2 DEF ReturnFromLevel, StopAfter
<1>3. CASE BudgetEndsRamp
  BY <1>3 DEF BudgetEndsRamp, SetStatus
<1>4. CASE RaiseFromLevel
  BY <1>4 DEF RaiseFromLevel
<1> QED
  BY <1>1, <1>2, <1>3, <1>4

\* Leaving a level or the ramp keeps the outcome accounted for.
LEMMA LeavingOutcome ==
  ASSUME IndInv, OutcomeInv,
         EndRamp \/ StopRamp \/ ReturnFromLevel \/ BudgetEndsRamp \/ RaiseFromLevel
  PROVE  OutcomeInv'
<1> USE DEF MainGoesTo
<1>a. /\ runPc \in {"ramp", "leave"} /\ runPc' \in {"ramp"} \cup Ended
      /\ UNCHANGED <<level, raised, gather, exc, cancelPending, cancels, cancelling, pc,
                     cursor, status, sessions>>
      /\ stop => stop'
      /\ \A l \in Levels : l # level => levelStatus'[l] = levelStatus[l]
  BY LeavingKeeps DEF IndInv, TypeOK
<1>b. /\ level \in Levels \cup {0} /\ Levels \subseteq Nat \ {0}
      /\ levelStatus \in [Levels -> RunStatus \cup {"none"}]
  BY LevelsAreNat DEF IndInv, TypeOK, MainTypes, EvidenceTypes
<1>c. exc = "none" => \A s \in SessionId : ~CutShort(s)
  BY <1>a DEF OutcomeInv, FailureKept, Ended
<1>d. runPc = "ramp" => exc = "none"
  BY DEF OutcomeInv, ExceptionInPlace
<1>e. \A s \in SessionId : CutShort(s)' => CutShort(s)
  BY <1>a DEF CutShort
<1>1. /\ runPc' = "ramp" => ~stop' /\ levelStatus'[level] = "completed"
      /\ runPc' \in Ended =>
           \/ /\ runPc' = "raised" /\ exc = "none" /\ runStatus' = "failed"
              /\ "observer_raises" \in Disturbances
              /\ levelStatus'[level] \in {"completed", "stopped"}
           \/ runPc' = "raised" /\ exc \in {"failed", "cancelled"} /\ runStatus' = StatusOf(exc)
           \/ runPc' = "returned" /\ exc = "none" /\ runStatus' = "stopped" /\ stop'
           \/ runPc' = "returned" /\ exc = "budget" /\ runStatus' = "budget_exceeded"
           \/ EndRamp
  <2>1. CASE EndRamp
    BY <2>1 DEF EndRamp
  <2>2. CASE StopRamp
    BY <1>d, <2>2 DEF StopRamp, Ended
  <2>3. CASE ReturnFromLevel
    <3>1. level \in Levels
      BY <2>3 DEF ReturnFromLevel, IndInv, LoopInv
    <3>2. levelStatus'[level] = LevelOutcome
      BY <1>b, <2>3, <3>1 DEF ReturnFromLevel
    <3>3. runPc' = "ramp" => ~stop'
      BY <2>3 DEF ReturnFromLevel, Ended
    <3> QED
      BY <1>a, <2>3, <3>2, <3>3 DEF ReturnFromLevel, LevelOutcome, Observation, Ended
  <2>4. CASE BudgetEndsRamp
    BY <2>4 DEF BudgetEndsRamp, CaughtAsBudget, SetStatus, Ended
  <2>5. CASE RaiseFromLevel
    BY <2>5 DEF RaiseFromLevel, CaughtAsBudget, Exceptions, Ended
  <2> QED
    BY <2>1, <2>2, <2>3, <2>4, <2>5
<1>f. exc = "none" => raised = "none" /\ \A w \in Workers : pc'[w] \notin Exceptions
  BY <1>a DEF OutcomeInv, ExceptionExplained, ExceptionInPlace, AfterGather, InLevel
<1>g. ExceptionExplained'
  <2>1. runPc' = "ramp" => exc = "none"
    <3>1. CASE ReturnFromLevel
      BY <3>1 DEF ReturnFromLevel
    <3> QED
      BY <3>1 DEF EndRamp, StopRamp, BudgetEndsRamp, RaiseFromLevel
  <2> QED
    BY <1>a, <1>f, <2>1 DEF OutcomeInv, ExceptionExplained, AfterGather, InLevel, MainAwaiting, Ended
<1>2. CASE EndRamp
  <2>1. \A l \in Levels : l <= level
    BY <1>b, <1>2 DEF EndRamp, LevelsAfter
  <2>2. level \in Levels
    BY <1>b, <2>1, LevelsAreNat
  <2>3. runPc = "ramp" /\ ~stop /\ stop' = stop
    BY <1>2, <2>2 DEF EndRamp, OutcomeInv, StopChecked
  <2>4. \A l \in Levels : l < level \/ l = level
    BY <1>b, <2>1
  <2>5. \A l \in Levels : levelStatus'[l] = "completed"
    BY <1>2, <2>3, <2>4 DEF EndRamp, OutcomeInv, LevelsInOrder
  <2>6. RunStatusExplained'
    BY <1>2, <1>a, <1>c, <1>d, <1>e, <1>f, <2>3, <2>5 DEF EndRamp, RunStatusExplained, CutShort
  <2> QED
    BY <1>2, <2>6, <1>a, <1>c, <1>d, <1>e, <1>g
       DEF EndRamp, OutcomeInv, StopChecked, SessionsOnCourse, LevelsInOrder, ExceptionInPlace,
           FailureKept, StopKept, CancelsTraced, AfterGather, InLevel, MainAwaiting
<1>3. CASE ~EndRamp
  <2>1. StopChecked' /\ SessionsOnCourse' /\ StopKept'
    BY <1>1, <1>a DEF OutcomeInv, StopChecked, SessionsOnCourse, StopKept
  <2>2. LevelsInOrder'
    <3>1. \A l \in Levels : l < level \/ l > level => l # level
      BY <1>b
    <3> QED
      BY <1>1, <1>a, <3>1 DEF OutcomeInv, LevelsInOrder, InLevel, MainAwaiting, Ended
  <2>3. ExceptionInPlace'
    <3>1. runPc' = "ramp" => exc = "none"
      <4>1. CASE ReturnFromLevel
        BY <4>1 DEF ReturnFromLevel
      <4> QED
        BY <1>3, <4>1 DEF StopRamp, BudgetEndsRamp, RaiseFromLevel
    <3> QED
      BY <1>a, <3>1 DEF OutcomeInv, ExceptionInPlace, AfterGather, InLevel, MainAwaiting, Ended
  <2>4. FailureKept'
    <3>1. exc # "none" => runPc' \in Ended /\ runStatus' \notin {"completed", "stopped"}
      <4>1. CASE ReturnFromLevel
        BY <4>1 DEF ReturnFromLevel
      <4>2. CASE StopRamp
        BY <1>d, <4>2 DEF StopRamp
      <4>3. CASE BudgetEndsRamp \/ RaiseFromLevel
        BY <4>3 DEF BudgetEndsRamp, RaiseFromLevel, SetStatus, StatusOf, Ended
      <4> QED
        BY <1>3, <4>1, <4>2, <4>3
    <3> QED
      BY <1>c, <1>e, <3>1 DEF FailureKept
  <2>5. CancelsTraced'
    BY <1>a DEF OutcomeInv, CancelsTraced, Ended
  <2>6. RunStatusExplained'
    <3> SUFFICES ASSUME runPc' \in Ended PROVE RunStatusExplained'
      BY DEF RunStatusExplained
    <3>1. exc = "none" => \A s \in SessionId : sessions'[s].status \notin {"failed", "cancelled"}
      BY <1>c, <1>e DEF CutShort
    <3>2. exc = "cancelled" => cancels' > 0
      BY <1>a DEF OutcomeInv, CancelsTraced
    <3>3. exc # "none" => runPc = "leave"
      BY <1>a, <1>d
    <3>4. CASE exc = "none"
      BY <1>1, <1>3, <1>a, <1>f, <3>1, <3>4 DEF RunStatusExplained
    <3>5. CASE exc = "cancelled"
      BY <1>1, <1>3, <1>a, <3>2, <3>5 DEF RunStatusExplained, StatusOf
    <3>6. CASE exc = "budget"
      <4>1. raised = "budget" /\ \E w \in Workers : pc'[w] = "budget"
        BY <1>a, <3>3, <3>6 DEF OutcomeInv, ExceptionExplained, AfterGather, InLevel
      <4> QED
        BY <1>1, <1>3, <1>a, <3>6, <4>1 DEF RunStatusExplained, RunStatusOf
    <3>7. CASE exc = "failed"
      <4>1. \/ raised = "failed" /\ \E w \in Workers : pc'[w] = "failed"
            \/ "client" \in Disturbances
        BY <1>a, <3>3, <3>7 DEF OutcomeInv, ExceptionExplained, AfterGather, InLevel
      <4> QED
        BY <1>1, <1>3, <1>a, <3>7, <4>1 DEF RunStatusExplained, RunStatusOf, StatusOf
    <3> QED
      BY <3>4, <3>5, <3>6, <3>7 DEF IndInv, TypeOK, MainTypes, Exceptions
  <2> QED
    BY <1>g, <2>1, <2>2, <2>3, <2>4, <2>5, <2>6 DEF OutcomeInv
<1> QED
  BY <1>2, <1>3

\* What comes from outside keeps the outcome accounted for.
LEMMA EnvironmentOutcome ==
  ASSUME IndInv, OutcomeInv, SetStop \/ CancelRun \/ GatherIsTold \/ UNCHANGED vars
  PROVE  OutcomeInv'
<1> USE DEF OutcomeInv, StopChecked, SessionsOnCourse, LevelsInOrder, ExceptionInPlace,
            FailureKept, CutShort, StopKept, CancelsTraced, ExceptionExplained, RunStatusExplained
<1>1. UNCHANGED <<runPc, level, raised, exc, pc, status, sessions, runStatus, levelStatus>>
  BY DEF SetStop, CancelRun, GatherIsTold, vars, mainVars, taskVars, evidence, statusEvidence
<1>2. CASE SetStop
  <2>1. stop' = TRUE /\ runPc # "ramp" /\ runPc \notin Ended
    BY <1>2, TaskAssumption DEF SetStop, IndInv, LoopInv
  <2>2. UNCHANGED <<gather, cancelPending, cancels, cancelling>>
    BY <1>2 DEF SetStop, mainVars, taskVars
  <2> QED
    BY <1>1, <2>1, <2>2
<1>3. CASE CancelRun
  <2>1. cancels \in Nat
    BY SessionAssumption DEF IndInv, TypeOK, MainTypes
  <2>2. /\ cancels' > 0 /\ stop' = stop
        /\ "done" \in gather' => "done" \in gather
    BY <1>3, <2>1 DEF CancelRun
  <2> QED
    BY <1>1, <2>2
<1>4. CASE GatherIsTold
  <2>1. /\ UNCHANGED <<cancelPending, cancels, cancelling, stop>>
        /\ "cancelled" \in gather' => "cancelled" \in gather
        /\ raised # "none"
    BY <1>4 DEF GatherIsTold, taskVars
  <2> QED
    BY <1>1, <2>1
<1>5. CASE UNCHANGED vars
  BY <1>1, <1>5 DEF vars, mainVars, taskVars
<1> QED
  BY <1>2, <1>3, <1>4, <1>5

\* Every step keeps the outcome accounted for.
LEMMA OutcomeStep == IndInv /\ OutcomeInv /\ [Next]_vars => OutcomeInv'
BY WorkerOutcome, EnterOutcome, AwaitsOutcome, LeavingOutcome, EnvironmentOutcome
   DEF Next, MainStep, Terminated

\* Before the first level there is nothing to account for.
LEMMA InitOutcome == Init => OutcomeInv
<1> SUFFICES ASSUME Init PROVE OutcomeInv
  OBVIOUS
<1>1. /\ runPc = "ramp" /\ level = 0 /\ raised = "none" /\ gather = {} /\ exc = "none"
      /\ cancelPending = FALSE /\ cancelling = {}
      /\ \A w \in Workers : pc[w] = "idle"
      /\ \A s \in SessionId : sessions[s] = NoSession
      /\ \A l \in Levels : levelStatus[l] = "none"
  BY DEF Init
<1>2. \A l \in Levels : l # 0 /\ ~(l < 0)
  BY LevelsAreNat
<1>3. \A s \in SessionId : sessions[s].status = "none"
  BY <1>1 DEF NoSession
<1> QED
  BY <1>1, <1>2, <1>3 DEF OutcomeInv, StopChecked, SessionsOnCourse, LevelsInOrder, ExceptionInPlace,
         FailureKept, CutShort, StopKept, CancelsTraced, ExceptionExplained, RunStatusExplained,
         InSession, InLevel, MainAwaiting, AfterGather, Ended, Exceptions

\* What the run has become is accounted for at every moment.
LEMMA OutcomeAccounted == Spec => []OutcomeInv
BY InitOutcome, OutcomeStep, Inductive, PTL DEF Spec

\* ramp.py:77-107: however levels, sessions, stop and cancellation fall out, the
\* run's status and its way of ending are explained by them.
THEOREM StatusExplained == Spec => []RunStatusExplained
<1>1. OutcomeInv => RunStatusExplained
  BY DEF OutcomeInv
<1> QED
  BY <1>1, OutcomeAccounted, PTL
-----------------------------------------------------------------------------
(* A completed level served every one of its workers.                      *)

\* Where a worker's step takes it: on, unless its session or its task is over.
LEMMA WorkerGoes ==
  ASSUME IndInv, NEW w \in Workers, WorkerStep(w)
  PROVE  /\ pc[w] # "idle" /\ pc'[w] # "idle"
         /\ \/ StopWorker(w) \/ StartSession(w) \/ FinishSession(w)
            \/ pc'[w] \notin {"session", "returned"} /\ cursor'[w].n = cursor[w].n
<1> USE DEF GoOn, Await, TaskRaises
<1>a. /\ pc \in [Workers -> Awaiting \cup Running \cup Finished]
      /\ cursor \in [Workers -> Cursor] /\ cursor[w] \in Cursor
  BY DEF IndInv, TypeOK, TaskTypes
<1>1. CASE StopWorker(w) \/ StartSession(w)
  BY <1>a, <1>1 DEF StopWorker, StartSession, AtLoopTop
<1>2. CASE FinishSession(w)
  BY <1>a, <1>2 DEF FinishSession
<1>3. CASE EndTurns(w) \/ StopBeforeTurn(w) \/ StopBeforeAttempt(w) \/ DropUnansweredTurn(w)
  BY <1>a, <1>3 DEF EndTurns, StopBeforeTurn, StopBeforeAttempt, DropUnansweredTurn
<1>4. CASE BeginTurn(w)
  BY <1>a, <1>4 DEF BeginTurn, Cursor
<1>5. CASE BeginAttempt(w)
  BY <1>a, <1>5 DEF BeginAttempt
<1>6. CASE RequestAnswered(w)
  <2>1. /\ pc[w] = "request" /\ pc'[w] \in {"raising", "settled", "attempt", "backoff"}
        /\ cursor' = cursor \/ cursor' = [cursor EXCEPT ![w].attempt = @ + 1]
    BY <1>a, <1>6 DEF RequestAnswered
  <2> QED
    BY <1>a, <2>1 DEF Cursor
<1>7. CASE BackoffEnds(w) \/ ThinkEnds(w)
  BY <1>a, <1>7 DEF BackoffEnds, WaitEnds, ThinkEnds, Cursor
<1>8. CASE EndTurn(w)
  <2>1. /\ pc[w] = "settled" /\ pc'[w] \in {"think", "turn"}
        /\ cursor' = cursor \/ cursor' = [cursor EXCEPT ![w].turn = @ + 1]
    BY <1>a, <1>8 DEF EndTurn
  <2> QED
    BY <1>a, <2>1 DEF Cursor
<1>9. CASE CancelUnstarted(w) \/ CancelSession(w)
  BY <1>a, <1>9 DEF CancelUnstarted, CancelSession, Cancellable
<1>10. CASE HandleException(w)
  BY <1>a, <1>10 DEF HandleException, IndInv, CursorInv, WellPlaced
<1> QED
  BY <1>1, <1>2, <1>3, <1>4, <1>5, <1>6, <1>7, <1>8, <1>9, <1>10 DEF WorkerStep

\* A first session, once summarised, stays so, and a worker's first summary is
\* that of its first session.
LEMMA FirstStays ==
  ASSUME IndInv, NEW w \in Workers, WorkerStep(w), NEW v \in Workers
  PROVE  /\ HasFirst(v) => HasFirst(v)'
         /\ FinishSession(w) /\ cursor[w].n = 1 => HasFirst(w)'
<1>1. level' = level /\ runPc \in {"gather", "join"}
  BY WorkerMoves DEF IndInv, LoopInv, Awaiting, Running, Finished, Exceptions
<1>2. level \in Levels
  BY <1>1 DEF IndInv, LoopInv, MainAwaiting
<1>3. FirstSession(v) \in SessionId /\ FirstSession(v)' = FirstSession(v)
  BY <1>1, <1>2, SessionAssumption DEF FirstSession, SessionId
<1>4. cursor[w].n = 1 => CurrentSession(w) = FirstSession(w)
  BY DEF CurrentSession, FirstSession
<1>5. FirstSession(w)' = FirstSession(w)
  BY <1>1 DEF FirstSession
<1>6. FinishSession(w) => sessions'[CurrentSession(w)] # NoSession
  <2> SUFFICES ASSUME FinishSession(w) PROVE sessions'[CurrentSession(w)] # NoSession
    OBVIOUS
  <2>1. CurrentSession(w) \in SessionId
    BY InSessionCurrent DEF FinishSession, IndInv, InSession
  <2>2. sessions'[CurrentSession(w)] = Summary(w, messages[w])
    BY <2>1 DEF FinishSession, IndInv, TypeOK, EvidenceTypes
  <2>3. status[w] # "none" /\ NoSession.status = "none"
    BY DEF IndInv, TypeOK, TaskTypes, SessionStatus, NoSession
  <2> QED
    BY <2>2, <2>3 DEF Summary
<1> QED
  BY <1>3, <1>4, <1>5, <1>6, WorkerWritesSummary DEF HasFirst

\* A worker's step leaves every worker served as far as it got.
LEMMA WorkerServed ==
  ASSUME IndInv, ServedInv, NEW w \in Workers, WorkerStep(w), NEW v \in Workers
  PROVE  Served(v)'
<1> USE DEF GoOn, Await, TaskRaises
<1>a. /\ pc \in [Workers -> Awaiting \cup Running \cup Finished]
      /\ cursor \in [Workers -> Cursor] /\ cursor[w] \in Cursor
  BY DEF IndInv, TypeOK, TaskTypes
<1>b. Served(v) /\ Served(w) /\ (stop => stop') /\ (HasFirst(v) => HasFirst(v)')
  BY WorkerKeepsMain, FirstStays DEF ServedInv
<1>c. pc[w] # "idle"
  BY WorkerGoes
<1>1. CASE v # w
  <2>1. pc'[v] = pc[v] /\ cursor'[v] = cursor[v]
    BY <1>1, OtherWorkersStay DEF IndInv, TypeOK
  <2> QED
    BY <1>b, <2>1 DEF Served
<1>2. CASE v = w /\ StopWorker(w)
  <2>1. pc'[w] = "returned" /\ cursor' = cursor /\ stop'
    BY <1>a, <1>2 DEF StopWorker
  <2> QED
    BY <1>2, <1>b, <1>c, <2>1 DEF Served
<1>3. CASE v = w /\ StartSession(w)
  <2>1. pc'[w] = "turn" /\ cursor'[w].n = cursor[w].n + 1
    BY <1>a, <1>3 DEF StartSession, Cursor
  <2>2. pc[w] = "ready" => cursor[w].n = 0
    BY DEF IndInv, CursorInv, WellPlaced
  <2>3. pc[w] \in {"ready", "session"}
    BY <1>3 DEF StartSession, AtLoopTop
  <2> QED
    BY <1>3, <1>b, <2>1, <2>2, <2>3 DEF Served
<1>4. CASE v = w /\ FinishSession(w)
  <2>1. cursor[w].n \in Nat /\ cursor[w].n >= 1 /\ cursor' = cursor
    BY <1>a, <1>4, SessionAssumption
       DEF FinishSession, IndInv, CursorInv, WellPlaced, InSession, Cursor
  <2>2. HasFirst(w)'
    <3>1. CASE cursor[w].n = 1
      BY <1>4, <3>1, FirstStays
    <3>2. CASE cursor[w].n > 1
      BY <1>4, <1>b, <1>c, <3>2 DEF Served
    <3> QED
      BY <2>1, <3>1, <3>2
  <2> QED
    BY <1>4, <2>2 DEF Served
<1>5. CASE v = w /\ pc'[w] \notin {"session", "returned"} /\ cursor'[w].n = cursor[w].n
  BY <1>5, <1>b, <1>c DEF Served
<1> QED
  BY <1>1, <1>2, <1>3, <1>4, <1>5, WorkerGoes

\* A worker's step writes no session but of its own, in the current level.
LEMMA WorkerSessionsOfTasks ==
  ASSUME IndInv, ServedInv, NEW w \in Workers, WorkerStep(w)
  PROVE  SessionsOfTasks'
<1>1. level' = level /\ runPc' = runPc /\ pc[w] # "idle" /\ pc'[w] # "idle"
  BY WorkerKeepsMain, WorkerGoes
<1>2. \A v \in Workers : v # w => pc'[v] = pc[v]
  BY OtherWorkersStay DEF IndInv, TypeOK
<1>3. \A s \in SessionId : s.worker \in Workers
  BY DEF SessionId
<1>4. level \in Nat /\ CurrentSession(w).concurrency = level /\ CurrentSession(w).worker = w
  BY LevelsAreNat DEF IndInv, TypeOK, MainTypes, CurrentSession
<1>5. \A s \in SessionId : s # CurrentSession(w) => sessions'[s] = sessions[s]
  BY WorkerWritesSummary
<1>6. SessionsOfTasks
  BY DEF ServedInv
<1> QED
  BY <1>1, <1>2, <1>3, <1>4, <1>5, <1>6 DEF SessionsOfTasks

\* The completed first sessions of a level.
FirstCompleted(l) ==
  {s \in SessionId : s.concurrency = l /\ s.n = 1 /\ sessions[s].status = "completed"}

\* The outcome of a level cannot change any more once it is completed.
LEMMA CompletedStays ==
  ASSUME CompletedLevelServedEveryWorker,
         \A l \in Levels : levelStatus'[l] = "completed" =>
           /\ levelStatus[l] = "completed"
           /\ \A s \in SessionId : s.concurrency = l => sessions'[s] = sessions[s]
  PROVE  CompletedLevelServedEveryWorker'
<1> SUFFICES ASSUME NEW l \in Levels, levelStatus'[l] = "completed"
             PROVE  /\ Cardinality(FirstCompleted(l)') = l
                    /\ \A s \in SessionId : s.concurrency = l =>
                         sessions'[s].status \in {"none", "completed"}
  BY DEF CompletedLevelServedEveryWorker, FirstCompleted
<1>1. /\ levelStatus[l] = "completed"
      /\ \A s \in SessionId : s.concurrency = l => sessions'[s] = sessions[s]
  OBVIOUS
<1>2. FirstCompleted(l)' = FirstCompleted(l)
  BY <1>1 DEF FirstCompleted
<1> QED
  BY <1>1, <1>2 DEF CompletedLevelServedEveryWorker, FirstCompleted

\* A worker's step keeps ServedInv.
LEMMA WorkerServedInv ==
  ASSUME IndInv, OutcomeInv, ServedInv, NEW w \in Workers, WorkerStep(w)
  PROVE  ServedInv'
<1>1. UNCHANGED <<runPc, level, exc, levelStatus>> /\ runPc \in {"gather", "join"}
  BY WorkerKeepsMain, WorkerMoves DEF IndInv, LoopInv, Awaiting, Running, Finished, Exceptions
<1>2. Tasks' = Tasks
  <2>1. pc[w] # "idle" /\ pc'[w] # "idle"
    BY WorkerGoes
  <2>2. \A v \in Workers : v # w => pc'[v] = pc[v]
    BY OtherWorkersStay DEF IndInv, TypeOK
  <2> QED
    BY <2>1, <2>2 DEF Tasks
<1>3. runPc \in AfterGather => exc # "none"
  BY <1>1 DEF OutcomeInv, ExceptionInPlace, AfterGather
<1>4. CompletedLevelServedEveryWorker'
  <2>1. ASSUME NEW s \in SessionId, s.concurrency # level PROVE sessions'[s] = sessions[s]
    <3>1. s # CurrentSession(w)
      BY <2>1 DEF CurrentSession
    <3> QED
      BY <3>1, WorkerWritesSummary
  <2>2. levelStatus[level] # "completed"
    BY <1>1 DEF OutcomeInv, LevelsInOrder, InLevel, MainAwaiting, IndInv, LoopInv
  <2> QED
    BY <1>1, <2>1, <2>2, CompletedStays DEF ServedInv
<1> QED
  BY <1>1, <1>2, <1>3, <1>4, WorkerServed, WorkerSessionsOfTasks DEF ServedInv

\* Entering a level, with or without a client, keeps ServedInv.
LEMMA EnterServedInv ==
  ASSUME IndInv, OutcomeInv, ServedInv, StartLevel \/ ClientDoesNotOpen
  PROVE  ServedInv'
<1>a. PICK l \in Levels :
        /\ EnterLevel(l)
        /\ levelStatus' = [levelStatus EXCEPT ![l] = IF StartLevel THEN "running" ELSE "failed"]
        /\ \/ /\ runPc' = "gather"
              /\ \E tasks \in SUBSET Workers :
                   /\ Cardinality(tasks) = l
                   /\ pc' = [w \in Workers |-> IF w \in tasks THEN "ready" ELSE "idle"]
              /\ \A w \in Workers : cursor'[w].n = 0
           \/ /\ exc' = "failed"
              /\ pc' = [w \in Workers |-> "idle"]
  BY DEF StartLevel, ClientDoesNotOpen, MainGoesTo
<1>b. /\ runPc = "ramp" /\ level' = l /\ sessions' = sessions /\ level < l
      /\ level \in Nat /\ Levels \subseteq Nat
  BY <1>a, LevelsAreNat DEF EnterLevel, LevelsAfter, IndInv, TypeOK, MainTypes
<1>1. \A w \in Workers : Served(w)'
  BY <1>a DEF Served
<1>2. SessionsOfTasks'
  <2>1. ASSUME NEW s \in SessionId, sessions[s] # NoSession
        PROVE  s.concurrency <= l /\ s.concurrency # l
    <3>1. s.concurrency <= level /\ s.concurrency \in Nat
      BY <1>b, <2>1 DEF ServedInv, SessionsOfTasks, SessionId
    <3> QED
      BY <1>b, <3>1
  <2> QED
    BY <1>b, <2>1 DEF SessionsOfTasks
<1>3. Cardinality(Tasks') <= level' /\ (exc' = "none" => Cardinality(Tasks') = level')
  <2>1. CASE pc' = [w \in Workers |-> "idle"] /\ exc' = "failed"
    <3>1. Tasks' = {}
      BY <2>1 DEF Tasks
    <3> QED
      BY <1>b, <2>1, <3>1, FS_EmptySet
  <2>2. CASE \E tasks \in SUBSET Workers :
               /\ Cardinality(tasks) = l
               /\ pc' = [w \in Workers |-> IF w \in tasks THEN "ready" ELSE "idle"]
    <3>1. PICK tasks \in SUBSET Workers :
            /\ Cardinality(tasks) = l
            /\ pc' = [w \in Workers |-> IF w \in tasks THEN "ready" ELSE "idle"]
      BY <2>2
    <3>2. Tasks' = tasks
      BY <3>1 DEF Tasks
    <3> QED
      BY <1>b, <3>1, <3>2
  <2> QED
    BY <1>a, <2>1, <2>2
<1>4. runPc' \in AfterGather /\ exc' = "none" => FALSE
  BY <1>a DEF AfterGather
<1>5. CompletedLevelServedEveryWorker'
  <2>1. ASSUME NEW m \in Levels, levelStatus'[m] = "completed" PROVE levelStatus[m] = "completed"
    BY <1>a, <2>1 DEF IndInv, TypeOK, EvidenceTypes
  <2> QED
    BY <1>b, <2>1, CompletedStays DEF ServedInv
<1> QED
  BY <1>1, <1>2, <1>3, <1>4, <1>5 DEF ServedInv

\* An await of the main task keeps ServedInv: gather only returns when every
\* task has.
LEMMA AwaitsServedInv ==
  ASSUME IndInv, OutcomeInv, ServedInv,
         GatherReturns \/ GatherRaises \/ JoinTasks \/ CloseClient \/ JoinSampler \/ FinishMonitor
  PROVE  ServedInv'
<1>a. /\ runPc \in MainAwaiting /\ runPc' \in AfterGather
      /\ UNCHANGED <<level, raised, stop, pc, sessions>>
      /\ exc # "none" => exc' # "none"
      /\ runPc = "gather" /\ raised # "none" => exc' # "none"
      /\ runPc' = "join" => exc' # "none"
      /\ \/ UNCHANGED levelStatus
         \/ levelStatus' = [levelStatus EXCEPT ![level] = StatusOf(exc)]
         \/ levelStatus' = [levelStatus EXCEPT ![level] = StatusOf(exc')]
  BY MainAwaits
<1>b. UNCHANGED cursor
  BY DEF GatherReturns, GatherRaises, JoinTasks, CloseClient, JoinSampler, FinishMonitor, taskVars
<1>c. runPc \in InLevel /\ runPc' \in InLevel
  BY <1>a DEF InLevel, AfterGather
<1>1. \A w \in Workers : Served(w)'
  BY <1>a, <1>b DEF ServedInv, Served, HasFirst, FirstSession
<1>2. /\ SessionsOfTasks' /\ Cardinality(Tasks') <= level'
      /\ exc' = "none" => Cardinality(Tasks') = level'
  BY <1>a, <1>c DEF ServedInv, SessionsOfTasks, Tasks
<1>3. ASSUME exc' = "none", NEW w \in Workers PROVE pc'[w] \in {"idle", "returned"}
  <2>1. CASE runPc = "gather"
    <3>1. GatherReturns
      BY <1>3, <2>1, <1>a DEF GatherRaises, JoinTasks, CloseClient, JoinSampler, FinishMonitor, MainGoesTo
    <3>2. pc[w] \notin Awaiting /\ loop = Idle /\ raised = "none"
      BY <3>1 DEF GatherReturns, Undone
    <3>3. pc[w] \notin Running /\ pc[w] \notin Exceptions
      BY <3>2, TaskAssumption DEF IndInv, LoopInv, OutcomeInv, ExceptionInPlace
    <3>4. pc[w] \in Awaiting \cup Running \cup Finished
      BY DEF IndInv, TypeOK, TaskTypes
    <3> QED
      BY <1>a, <3>2, <3>3, <3>4 DEF Finished
  <2>2. CASE runPc # "gather"
    BY <1>3, <1>a, <1>c, <2>2 DEF ServedInv, AfterGather
  <2> QED
    BY <2>1, <2>2
<1>4. CompletedLevelServedEveryWorker'
  <2>1. \A l \in Levels : levelStatus'[l] = "completed" => levelStatus[l] = "completed"
    BY <1>a DEF IndInv, TypeOK, EvidenceTypes, StatusOf
  <2> QED
    BY <1>a, <2>1, CompletedStays DEF ServedInv
<1> QED
  BY <1>1, <1>2, <1>3, <1>4 DEF ServedInv

\* When a level's tasks have all returned and none of its sessions was cut
\* short, each of them has completed its first session.
LEMMA AllServed ==
  ASSUME IndInv, OutcomeInv, ServedInv, runPc = "leave", exc = "none", ~stop
  PROVE  /\ Cardinality(FirstCompleted(level)) = level
         /\ \A s \in SessionId : sessions[s].status \in {"none", "completed"}
<1>1. level \in Levels
  BY DEF IndInv, LoopInv
<1>2. \A s \in SessionId : sessions[s].status \in {"none", "completed"}
  <2>1. \A s \in SessionId : sessions[s].status \in SessionStatus \cup {"none"}
    BY DEF IndInv, TypeOK, EvidenceTypes, SessionRecord, NoSession
  <2>2. \A s \in SessionId : ~CutShort(s) /\ sessions[s].status # "stopped"
    BY DEF OutcomeInv, FailureKept, StopKept, Ended
  <2> QED
    BY <2>1, <2>2 DEF CutShort, SessionStatus
<1>3. \A s \in SessionId : sessions[s] # NoSession <=> sessions[s].status = "completed"
  <2>1. \A s \in SessionId : sessions[s] # NoSession => sessions[s].status # "none"
    BY DEF IndInv, TypeOK, EvidenceTypes, SessionRecord, SessionStatus
  <2> QED
    BY <1>2, <2>1 DEF NoSession
<1>4. \A w \in Workers : FirstSession(w) \in SessionId
  BY <1>1, SessionAssumption DEF FirstSession, SessionId
<1>5. \A w \in Tasks : FirstSession(w) \in FirstCompleted(level)
  <2> SUFFICES ASSUME NEW w \in Tasks PROVE FirstSession(w) \in FirstCompleted(level)
    OBVIOUS
  <2>1. HasFirst(w)
    BY DEF Tasks, ServedInv, Served, AfterGather, InLevel
  <2>2. w \in Workers
    BY DEF Tasks
  <2> QED
    BY <1>3, <1>4, <2>1, <2>2 DEF HasFirst, FirstCompleted, FirstSession
<1>6. \A s \in FirstCompleted(level) : s.worker \in Tasks /\ s = FirstSession(s.worker)
  <2> SUFFICES ASSUME NEW s \in FirstCompleted(level)
               PROVE  s.worker \in Tasks /\ s = FirstSession(s.worker)
    OBVIOUS
  <2>1. s \in SessionId /\ s.concurrency = level /\ s.n = 1 /\ sessions[s] # NoSession
    BY <1>3 DEF FirstCompleted
  <2>2. s.worker \in Workers /\ pc[s.worker] # "idle"
    BY <2>1 DEF ServedInv, SessionsOfTasks, InLevel, SessionId
  <2> QED
    BY <2>1, <2>2 DEF Tasks, FirstSession, SessionId
<1>7. IsFiniteSet(Tasks) /\ Cardinality(Tasks) = level
  BY TaskAssumption, FS_Subset DEF Tasks, ServedInv, InLevel
<1>8. ExistsBijection(Tasks, FirstCompleted(level))
  <2> DEFINE f == [w \in Tasks |-> FirstSession(w)]
  <2>1. f \in [Tasks -> FirstCompleted(level)]
    BY <1>5
  <2>2. \A v, w \in Tasks : f[v] = f[w] => v = w
    BY DEF FirstSession
  <2>3. \A s \in FirstCompleted(level) : \E w \in Tasks : f[w] = s
    BY <1>6
  <2> HIDE DEF f
  <2>4. f \in Bijection(Tasks, FirstCompleted(level))
    BY <2>1, <2>2, <2>3 DEF Bijection, Injection, Surjection, IsInjective
  <2> QED
    BY <2>4 DEF ExistsBijection
<1> QED
  BY <1>2, <1>7, <1>8, FS_Bijection

\* Leaving a level or the ramp keeps ServedInv.
LEMMA LeavingServedInv ==
  ASSUME IndInv, OutcomeInv, ServedInv,
         EndRamp \/ StopRamp \/ ReturnFromLevel \/ BudgetEndsRamp \/ RaiseFromLevel
  PROVE  ServedInv'
<1>a. /\ runPc \in {"ramp", "leave"} /\ runPc' \in {"ramp"} \cup Ended
      /\ UNCHANGED <<level, raised, gather, exc, cancelPending, cancels, cancelling, pc,
                     cursor, status, sessions>>
      /\ stop => stop'
      /\ \A l \in Levels : l # level => levelStatus'[l] = levelStatus[l]
  BY LeavingKeeps DEF IndInv, TypeOK
<1>b. runPc' \notin InLevel
  BY <1>a DEF InLevel, MainAwaiting, Ended
<1>1. \A w \in Workers : Served(w)'
  BY <1>a DEF ServedInv, Served, HasFirst, FirstSession
<1>2. SessionsOfTasks' /\ Cardinality(Tasks') <= level'
  BY <1>a, <1>b DEF ServedInv, SessionsOfTasks, Tasks
<1>3. CompletedLevelServedEveryWorker'
  <2>1. CASE /\ runPc = "leave" /\ exc = "none" /\ ~stop
    <3> SUFFICES ASSUME NEW l \in Levels, levelStatus'[l] = "completed"
                 PROVE  /\ Cardinality(FirstCompleted(l)') = l
                        /\ \A s \in SessionId : s.concurrency = l =>
                             sessions'[s].status \in {"none", "completed"}
      BY DEF CompletedLevelServedEveryWorker, FirstCompleted
    <3>1. FirstCompleted(l)' = FirstCompleted(l)
      BY <1>a DEF FirstCompleted
    <3>2. CASE l = level
      BY <1>a, <2>1, <3>1, <3>2, AllServed
    <3>3. CASE l # level
      BY <1>a, <3>1, <3>3 DEF ServedInv, CompletedLevelServedEveryWorker, FirstCompleted
    <3> QED
      BY <3>2, <3>3
  <2>2. CASE ~(runPc = "leave" /\ exc = "none" /\ ~stop)
    <3>1. ASSUME NEW l \in Levels, levelStatus'[l] = "completed" PROVE levelStatus[l] = "completed"
      <4>1. CASE EndRamp \/ StopRamp \/ RaiseFromLevel
        BY <3>1, <4>1 DEF EndRamp, StopRamp, RaiseFromLevel
      <4>2. CASE BudgetEndsRamp
        BY <3>1, <4>2 DEF BudgetEndsRamp, SetStatus, IndInv, TypeOK, EvidenceTypes
      <4>3. CASE ReturnFromLevel
        BY <2>2, <3>1, <4>3
           DEF ReturnFromLevel, LevelOutcome, IndInv, TypeOK, EvidenceTypes
      <4> QED
        BY <4>1, <4>2, <4>3
    <3> QED
      BY <1>a, <3>1, CompletedStays DEF ServedInv
  <2> QED
    BY <2>1, <2>2
<1> QED
  BY <1>1, <1>2, <1>3, <1>b DEF ServedInv, AfterGather

\* Nothing from outside, and no step that changes nothing, disturbs ServedInv.
LEMMA EnvironmentServedInv ==
  ASSUME ServedInv, SetStop \/ CancelRun \/ GatherIsTold \/ UNCHANGED vars
  PROVE  ServedInv'
<1>1. /\ UNCHANGED <<runPc, level, exc, pc, cursor, sessions, levelStatus>>
      /\ stop => stop'
  BY DEF SetStop, CancelRun, GatherIsTold, vars, mainVars, taskVars, evidence, statusEvidence
<1>2. (\A w \in Workers : Served(w)') /\ SessionsOfTasks' /\ Tasks' = Tasks
  BY <1>1 DEF ServedInv, Served, HasFirst, FirstSession, SessionsOfTasks, Tasks
<1>3. CompletedLevelServedEveryWorker'
  BY <1>1, CompletedStays DEF ServedInv
<1> QED
  BY <1>1, <1>2, <1>3 DEF ServedInv

\* In every reachable state the sessions of the tasks are as ServedInv says.
LEMMA ServedAlways == Spec => []ServedInv
<1>1. Init => ServedInv
  <2> SUFFICES ASSUME Init PROVE ServedInv
    OBVIOUS
  <2>1. /\ runPc = "ramp" /\ \A w \in Workers : pc[w] = "idle"
        /\ \A s \in SessionId : sessions[s] = NoSession
        /\ \A l \in Levels : levelStatus[l] = "none"
    BY DEF Init
  <2>2. Tasks = {} /\ level = 0
    BY <2>1 DEF Tasks, Init
  <2>3. Cardinality(Tasks) <= level
    BY <2>2, FS_EmptySet
  <2> QED
    BY <2>1, <2>3 DEF ServedInv, Served, SessionsOfTasks, CompletedLevelServedEveryWorker, InLevel,
                AfterGather, MainAwaiting
<1>2. IndInv /\ OutcomeInv /\ ServedInv /\ [Next]_vars => ServedInv'
  BY WorkerServedInv, EnterServedInv, AwaitsServedInv, LeavingServedInv, EnvironmentServedInv
     DEF Next, MainStep, Terminated
<1> QED
  BY Inductive, OutcomeAccounted, <1>1, <1>2, PTL DEF Spec

\* pool.py:42-43, 83: for every ramp and any number of workers and sessions, a
\* level reported as completed ran one worker per simulated user, each of them
\* completed a session, and none of its sessions was cut short.
THEOREM CompletedServed == Spec => []CompletedLevelServedEveryWorker
<1>1. ServedInv => CompletedLevelServedEveryWorker
  BY DEF ServedInv
<1> QED
  BY ServedAlways, <1>1, PTL
-----------------------------------------------------------------------------
(* Two promises that hold as long as the level has no sampler, or no       *)
(* injector monitor, to await: with them TLC finds them broken.            *)

\* Every step keeps LevelOutcomeInv when there is no sampler.
LEMMA LevelOutcomeStep ==
  ASSUME ~SampleResources, IndInv, OutcomeInv, LevelOutcomeInv, [Next]_vars
  PROVE  LevelOutcomeInv'
<1> USE DEF MainGoesTo
<1>a. levelStatus \in [Levels -> RunStatus \cup {"none"}]
  BY DEF IndInv, TypeOK, EvidenceTypes
<1>b. runPc \in MainAwaiting \cup {"leave"} => level \in Levels
  BY DEF IndInv, LoopInv
<1>1. ASSUME NEW w \in Workers, WorkerStep(w) PROVE LevelOutcomeInv'
  BY <1>1, WorkerKeepsMain DEF LevelOutcomeInv, LevelOutcomeTerminal
<1>2. CASE SetStop \/ CancelRun \/ GatherIsTold \/ UNCHANGED vars
  BY <1>2 DEF SetStop, CancelRun, GatherIsTold, vars, mainVars, evidence, statusEvidence, LevelOutcomeInv,
              LevelOutcomeTerminal
<1>3. CASE StartLevel \/ ClientDoesNotOpen
  <2>1. runPc' \notin {"sampler"} \cup Ended
    BY <1>3 DEF StartLevel, ClientDoesNotOpen, AfterClient, AfterSampler, Ended
  <2>2. CASE StartLevel
    BY <2>1, <2>2 DEF StartLevel, LevelOutcomeInv, LevelOutcomeTerminal
  <2>3. CASE ClientDoesNotOpen
    <3>1. PICK l \in Levels :
            EnterLevel(l) /\ levelStatus' = [levelStatus EXCEPT ![l] = "failed"]
      BY <2>3 DEF ClientDoesNotOpen
    <3>2. levelStatus'[level'] # "running"
      BY <1>a, <3>1 DEF EnterLevel
    <3> QED
      BY <2>1, <3>2 DEF LevelOutcomeInv, LevelOutcomeTerminal
  <2> QED
    BY <1>3, <2>2, <2>3
<1>4. CASE GatherReturns \/ GatherRaises \/ JoinTasks
  BY <1>4 DEF GatherReturns, GatherRaises, JoinTasks, Ended, LevelOutcomeInv, LevelOutcomeTerminal
<1>5. CASE CloseClient
  <2>1. runPc' \in {"monitor", "leave"} /\ level' = level /\ level \in Levels
    BY <1>5, <1>b DEF CloseClient, AfterClient, AfterSampler, MainAwaiting
  <2>2. exc' # "none" => levelStatus'[level] # "running"
    BY <1>5, <1>a, <2>1 DEF CloseClient, SetStatus, StatusOf
  <2> QED
    BY <2>1, <2>2 DEF LevelOutcomeInv, LevelOutcomeTerminal, Ended
<1>6. CASE JoinSampler
  BY <1>6 DEF JoinSampler, LevelOutcomeInv
<1>7. CASE FinishMonitor
  BY <1>7 DEF FinishMonitor, LevelOutcomeInv, LevelOutcomeTerminal, evidence, statusEvidence, Ended
<1>8. CASE EndRamp \/ StopRamp \/ ReturnFromLevel \/ BudgetEndsRamp \/ RaiseFromLevel
  <2>1. runPc' \in {"ramp"} \cup Ended /\ level' = level
    BY <1>8, LeavingKeeps DEF IndInv, TypeOK
  <2>2. level \in Levels => levelStatus'[level] # "running"
    <3>1. CASE EndRamp \/ StopRamp
      <4>1. levelStatus' = levelStatus /\ runPc = "ramp"
        BY <3>1 DEF EndRamp, StopRamp
      <4> QED
        BY <4>1 DEF OutcomeInv, LevelsInOrder
    <3>2. CASE ReturnFromLevel
      BY <1>a, <3>2 DEF ReturnFromLevel, LevelOutcome
    <3>3. CASE BudgetEndsRamp
      BY <1>a, <3>3 DEF BudgetEndsRamp, SetStatus
    <3>4. CASE RaiseFromLevel
      BY <3>4 DEF RaiseFromLevel, Exceptions, LevelOutcomeInv
    <3> QED
      BY <1>8, <3>1, <3>2, <3>3, <3>4
  <2>3. ASSUME NEW l \in Levels PROVE levelStatus'[l] # "running"
    <3>1. level \in Nat /\ l \in Nat
      BY LevelsAreNat DEF IndInv, TypeOK, MainTypes
    <3>2. LevelsInOrder'
      BY <1>8, LeavingOutcome DEF OutcomeInv
    <3>3. CASE l = level
      BY <2>2, <3>3
    <3>4. CASE l < level \/ l > level
      BY <2>1, <3>2, <3>4 DEF LevelsInOrder
    <3> QED
      BY <3>1, <3>3, <3>4
  <2> QED
    BY <2>1, <2>3 DEF LevelOutcomeInv, LevelOutcomeTerminal, Ended
<1> QED
  BY <1>1, <1>2, <1>3, <1>4, <1>5, <1>6, <1>7, <1>8 DEF Next, MainStep, Terminated

\* schemas.py:197: without a sampler to join, every level that was started has
\* a terminal outcome once the run has ended.
THEOREM OutcomesTerminal ==
  ASSUME ~SampleResources
  PROVE  Spec => []LevelOutcomeTerminal
<1>1. Init => LevelOutcomeInv
  BY DEF Init, LevelOutcomeInv, LevelOutcomeTerminal, Ended
<1>2. IndInv /\ OutcomeInv /\ LevelOutcomeInv /\ [Next]_vars => LevelOutcomeInv'
  BY LevelOutcomeStep
<1>3. LevelOutcomeInv => LevelOutcomeTerminal
  BY DEF LevelOutcomeInv
<1> QED
  BY Inductive, OutcomeAccounted, <1>1, <1>2, <1>3, PTL DEF Spec

\* Every step keeps CancellationInv when there is no monitor.
LEMMA CancellationStep ==
  ASSUME ~MonitorInjector, IndInv, OutcomeInv, CancellationInv, [Next]_vars
  PROVE  CancellationInv'
<1> USE DEF MainGoesTo
<1>a. /\ cancels \in Nat /\ cancelPending \in BOOLEAN
      /\ raised \in Exceptions \cup {"none"} /\ exc \in Exceptions \cup {"none"}
      /\ gather \subseteq {"cancelled", "done"}
  BY SessionAssumption DEF IndInv, TypeOK, MainTypes
<1>1. ASSUME NEW w \in Workers, WorkerStep(w) PROVE CancellationInv'
  BY <1>1, WorkerKeepsMain DEF CancellationInv, CancellationEndsRun
<1>2. CASE SetStop \/ UNCHANGED vars
  BY <1>2 DEF SetStop, vars, mainVars, CancellationInv, CancellationEndsRun
<1>3. CASE CancelRun
  <2>1. /\ runPc \in MainAwaiting /\ UNCHANGED <<runPc, exc>>
        /\ cancelPending' \/ (runPc = "gather" /\ "cancelled" \in gather')
    BY <1>3 DEF CancelRun, GatherTakesCancellation
  <2> QED
    BY <2>1 DEF MainAwaiting, CancellationInv, CancellationEndsRun
<1>9. CASE GatherIsTold
  BY <1>9 DEF GatherIsTold, CancellationInv, CancellationEndsRun
<1>4. CASE StartLevel \/ ClientDoesNotOpen
  <2>1. /\ UNCHANGED <<cancelPending, cancels>> /\ runPc = "ramp"
        /\ runPc' \in {"gather", "sampler", "leave"}
    BY <1>4 DEF StartLevel, ClientDoesNotOpen, EnterLevel, AfterClient, AfterSampler
  <2>2. exc = "none"
    BY <2>1 DEF OutcomeInv, ExceptionInPlace
  <2> QED
    BY <1>a, <2>1, <2>2 DEF CancellationInv, CancellationEndsRun
<1>5. CASE GatherReturns
  BY <1>5 DEF GatherReturns, CancelledMeanwhile, CancellationInv, CancellationEndsRun,
              OutcomeInv, ExceptionInPlace
<1>6. CASE GatherRaises \/ JoinTasks \/ CloseClient \/ JoinSampler
  <2>1. /\ cancels' = cancels /\ runPc \in {"gather", "join", "close", "sampler"}
        /\ runPc' \in {"join", "close", "sampler", "leave"} /\ cancelPending' = FALSE
    BY <1>6 DEF GatherRaises, JoinTasks, CloseClient, JoinSampler, AfterClient, AfterSampler
  <2>2. cancelPending => exc' = "cancelled"
    BY <1>6 DEF GatherRaises, JoinTasks, CloseClient, JoinSampler, AfterSamplerJoined
  <2>3. CASE GatherRaises
    <3>1. exc = "none" /\ gather' = gather /\ exc' \in Exceptions
      BY <1>a, <2>3 DEF GatherRaises, Exceptions, OutcomeInv, ExceptionInPlace
    <3> QED
      BY <2>1, <2>2, <3>1 DEF CancellationInv, CancellationEndsRun, Exceptions
  <2>4. CASE JoinTasks \/ CloseClient \/ JoinSampler
    <3>1. /\ exc' \in {exc, "failed", "cancelled"} /\ gather' = gather
          /\ runPc # "gather"
      BY <2>4 DEF JoinTasks, CloseClient, JoinSampler, AfterSamplerJoined
    <3> QED
      BY <2>1, <2>2, <3>1 DEF CancellationInv, CancellationEndsRun
  <2> QED
    BY <1>6, <2>3, <2>4
<1>7. CASE FinishMonitor
  BY <1>7 DEF FinishMonitor, CancellationInv
<1>8. CASE EndRamp \/ StopRamp \/ ReturnFromLevel \/ BudgetEndsRamp \/ RaiseFromLevel
  <2>1. /\ runPc \in {"ramp", "leave"} /\ runPc' \in {"ramp"} \cup Ended
        /\ UNCHANGED <<gather, exc, cancelPending, cancels>>
    BY <1>8, LeavingKeeps DEF IndInv, TypeOK
  <2>2. runPc' # "raised" => exc \in {"none", "budget"}
    BY <1>8 DEF EndRamp, StopRamp, ReturnFromLevel, BudgetEndsRamp, RaiseFromLevel,
                CaughtAsBudget, OutcomeInv, ExceptionInPlace
  <2>3. ~cancelPending /\ runPc # "gather"
    BY <2>1 DEF CancellationInv
  <2>4. runPc' # "raised" /\ cancels > 0 => exc = "budget" /\ "cancelled" \in gather
    BY <2>1, <2>2, <2>3 DEF CancellationInv, Ended
  <2> QED
    BY <2>1, <2>3, <2>4 DEF CancellationInv, CancellationEndsRun, Ended
<1> QED
  BY <1>1, <1>2, <1>3, <1>4, <1>5, <1>6, <1>7, <1>8, <1>9 DEF Next, MainStep, Terminated

\* pool.py:91-124: without a monitor to finish, run_ramp returns from a run that
\* was cancelled from outside only when gather took the cancellation while a
\* worker's BudgetExceeded was on its way to it; otherwise it raises.
THEOREM CancellationRaises ==
  ASSUME ~MonitorInjector
  PROVE  Spec => []CancellationEndsRun
<1>1. Init => CancellationInv
  BY DEF Init, CancellationInv, CancellationEndsRun
<1>2. IndInv /\ OutcomeInv /\ CancellationInv /\ [Next]_vars => CancellationInv'
  BY CancellationStep
<1>3. CancellationInv => CancellationEndsRun
  BY DEF CancellationInv
<1> QED
  BY Inductive, OutcomeAccounted, <1>1, <1>2, <1>3, PTL DEF Spec
=============================================================================
