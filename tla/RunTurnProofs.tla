--------------------------- MODULE RunTurnProofs ---------------------------
(***************************************************************************)
(* What a record says of its request, for any statuses and any number of   *)
(* chunks.  TurnInv ties the locals of run_turn to what really happened,   *)
(* the reason for leaving to the exchange, and the outcome to the reason;  *)
(* every checked invariant follows from it without another induction.      *)
(***************************************************************************)
EXTENDS RunTurn, TLAPS

\* What the locals hold is what happened.
LocalsAgree ==
  /\ seen.status = sent.response.status
  /\ seen.fault = sent.response.fault
  /\ seen.chunks = sent.chunks
  /\ seen.usage = sent.usage
  /\ seen.ttft <=> sent.chunks > 0
  /\ seen.gaps = IF sent.chunks > 0 THEN sent.chunks - 1 ELSE 0

\* How far the exchange has come in each phase.
Progress ==
  /\ phase \in BeforeResponse => leaving = "nothing" /\ ~Responded
  /\ phase \in {"send", "wait"} => sent.connected
  /\ phase \in {"stream", "close"} => Responded /\ sent.connected
  /\ phase = "stream" => leaving = "nothing" /\ sent.response.status < 400 /\ ~sent.ended
  /\ phase \in {"close", "done"} => leaving # "nothing"
  /\ sent.response.status \notin 100..399 => sent.chunks = 0 /\ ~sent.ended

\* What each reason to leave says of the exchange.
ReasonsHold ==
  /\ leaving = "completed" => sent.ended
  /\ sent.ended => leaving \in {"completed", "wall", "cancelled"}
  /\ leaving = "http" => sent.response.status >= 400 /\ sent.response.retryAfter # "date"
  /\ sent.response.status >= 400 =>
       \/ leaving \in {"http", "wall", "cancelled"}
       \/ leaving = "failed" /\ sent.response.retryAfter = "date"
  /\ leaving = "gap" => sent.connected
  /\ leaving = "wall" /\ Responded => sent.connected
  /\ leaving = "cancelled" <=> cancelled

\* The outcome is decided where the call ends, from what its locals hold then.
OutcomeDecided ==
  /\ phase # "done" => outcome = NoOutcome
  /\ phase = "done" => outcome = Result(leaving)

TurnInv == TypeOK /\ LocalsAgree /\ Progress /\ ReasonsHold /\ OutcomeDecided
-----------------------------------------------------------------------------

\* No response of any kind is taken for the absence of one.
LEMMA ResponseHasStatus ==
  ASSUME NEW response \in Responses
  PROVE  /\ response # NoResponse
         /\ response.status \in RecordStatuses /\ response.status \in 100..599
         /\ response.fault \in Faults
         /\ response.retryAfter \in RetryAfter
<1>1. CASE response \in ServerResponses
  <2>1. /\ response.status \in Statuses /\ response.fault = "none"
        /\ response.retryAfter \in RetryAfter
    BY <1>1 DEF ServerResponses
  <2>2. response.status \in 100..599
    BY <2>1, StatusAssumption
  <2>3. response # NoResponse
    BY <2>2 DEF NoResponse, NoStatus
  <2> QED
    BY <2>1, <2>2, <2>3 DEF RecordStatuses, Faults
<1>2. CASE response \in InjectedResponses
  BY <1>2 DEF InjectedResponses, NoResponse, NoStatus, RetryAfter, RecordStatuses, Faults
<1> QED
  BY <1>1, <1>2 DEF Responses

\* What the handlers make of a reason is a record.
LEMMA RecordTyped ==
  ASSUME TypeOK, NEW why \in Reasons,
         why = "http" => sent.response.retryAfter # "date"
  PROVE  RecordOf(why) \in Record
<1>1. sent.response.retryAfter \in RetryAfter
  BY ResponseHasStatus DEF TypeOK, Exchange, Locals, NoResponse, RetryAfter
<1>2. why = "http" => sent.response.retryAfter \in {"absent", "seconds"}
  BY <1>1 DEF RetryAfter
<1> QED
  BY <1>2, ChunkAssumption
     DEF TypeOK, Locals, RecordOf, Record, Abandons, KeepsStatus, NoStatus, NotCounted,
         Reasons, Usage, RecordStatuses, Faults

\* A record is neither of the two other outcomes.
LEMMA OutcomesDiffer ==
  ASSUME NEW record \in Record
  PROVE  record # NoOutcome /\ record # Raised
BY OutcomeAssumption

\* The status of what arrived, if anything did, is a number.
LEMMA ResponseStatusInt == TypeOK => sent.response.status \in Int
BY ResponseHasStatus DEF TypeOK, Exchange, Locals, NoResponse, NoStatus

\* The invariant holds initially.
LEMMA TurnInit == Init => TurnInv
<1> SUFFICES ASSUME Init PROVE TurnInv
  OBVIOUS
<1>1. TypeOK
  <2>1. 0 \in 0..MaxChunks
    BY ChunkAssumption
  <2>2. sent \in Exchange
    BY <2>1 DEF Init, Exchange, Usage
  <2>3. seen \in Locals
    BY <2>1 DEF Init, Locals, Usage, RecordStatuses, Faults
  <2> QED
    BY <2>2, <2>3 DEF Init, TypeOK, Phases, BeforeResponse
<1> QED
  BY <1>1
   DEF Init, TurnInv, LocalsAgree, Progress, ReasonsHold, OutcomeDecided, Responded,
       NoResponse, NoStatus, Phases, BeforeResponse, Usage, Reasons

\* Leaving the body for a reason that holds of the exchange keeps the invariant.
LEMMA LeavePreserves ==
  ASSUME TurnInv, NEW why \in Reasons \ {"completed", "http"}, Leave(why),
         phase # "done",
         why = "failed" => phase \in BeforeResponse \cup {"stream"},
         why = "gap" => phase \in {"send", "wait", "stream"},
         why = "cancelled" => cancelled',
         why # "cancelled" => ~cancelled /\ ~cancelled',
         cancelled' \in BOOLEAN
  PROVE  TurnInv'
<1> USE DEF TurnInv
<1>1. why \in Reasons /\ why # "completed" /\ why # "http"
  OBVIOUS
<1>2. UNCHANGED <<sent, seen>> /\ leaving' = why
  BY DEF Leave
<1>3. Result(why)' = Result(why)
  BY <1>2 DEF Result, RecordOf, Abandons, KeepsStatus
<1>4. RecordOf(why) \in Record
  BY <1>1, RecordTyped
<1>5. \/ phase \in BeforeResponse /\ phase' = "done" /\ outcome' = Result(why)
      \/ phase \in {"stream", "close"} /\ phase' = "close" /\ outcome' = NoOutcome
  BY DEF Leave, TypeOK, Phases, OutcomeDecided
<1>6. TypeOK'
  BY <1>1, <1>2, <1>4, <1>5 DEF TypeOK, Result, Phases, BeforeResponse, Reasons
<1>7. LocalsAgree'
  BY <1>2 DEF LocalsAgree
<1>8. Progress'
  BY <1>1, <1>2, <1>5 DEF Progress, Responded, BeforeResponse, Reasons
<1>9. ReasonsHold'
  <2>1. phase \in BeforeResponse => sent.response = NoResponse /\ ~sent.ended
    BY DEF Progress, Responded, NoResponse, NoStatus
  <2>2. why \in {"failed", "gap"} => sent.response.status < 400 /\ ~sent.ended
    BY <2>1, <1>1 DEF Progress, NoResponse, NoStatus, BeforeResponse
  <2>3. why = "gap" => sent.connected
    BY DEF Progress
  <2>4. Responded => sent.connected
    BY <1>5 DEF Progress
  <2>5. sent.response.status \in Int
    BY ResponseStatusInt
  <2>6. why = "cancelled" <=> cancelled'
    OBVIOUS
  <2> QED
    BY <1>1, <1>2, <2>2, <2>3, <2>4, <2>5, <2>6 DEF ReasonsHold, Responded, Reasons
<1>10. OutcomeDecided'
  BY <1>2, <1>3, <1>5 DEF OutcomeDecided, BeforeResponse
<1> QED
  BY <1>6, <1>7, <1>8, <1>9, <1>10

\* The locals take the status and the fault of a response.
LEMMA StatusSeen ==
  ASSUME TypeOK, NEW response \in Responses,
         seen' = [seen EXCEPT !.status = response.status, !.fault = response.fault]
  PROVE  seen' \in Locals
<1>1. seen \in Locals
  BY DEF TypeOK
<1>2. response.status \in RecordStatuses /\ response.fault \in Faults
  BY ResponseHasStatus
<1> QED
  BY <1>1, <1>2 DEF Locals

\* A response that arrives is in the locals before anything reads them.
LEMMA ServerAnswersPreserves ==
  ASSUME TurnInv, NEW response \in ServerResponses, ServerAnswers(response)
  PROVE  TurnInv'
<1> USE DEF TurnInv
<1>1. response \in Responses
  BY DEF Responses
<1>2. sent' = [sent EXCEPT !.response = response]
  BY DEF ServerAnswers, Receive
<1>3. seen' = [seen EXCEPT !.status = response.status, !.fault = response.fault]
  BY DEF ServerAnswers, Receive
<1>4. \/ response.status < 400 /\ phase' = "stream" /\ leaving' = "nothing"
      \/ /\ response.status >= 400 /\ phase' = "close"
         /\ leaving' = IF response.retryAfter = "date" THEN "failed" ELSE "http"
  BY DEF ServerAnswers, HttpError, Progress, BeforeResponse
<1>5. /\ phase = "wait" /\ UNCHANGED <<cancelled, outcome>> /\ sent.response = NoResponse
      /\ sent.connected /\ outcome = NoOutcome /\ ~cancelled /\ leaving = "nothing"
  BY DEF ServerAnswers, Progress, BeforeResponse, Responded, OutcomeDecided, ReasonsHold
<1>6. sent.chunks = 0 /\ ~sent.ended
  BY <1>5 DEF Progress, NoResponse, NoStatus
<1>7. sent' \in Exchange
  BY <1>1, <1>2 DEF TypeOK, Exchange, Locals
<1>8. seen' \in Locals
  BY <1>1, <1>3, StatusSeen
<1>9. TypeOK'
  BY <1>4, <1>5, <1>7, <1>8 DEF TypeOK, Phases, Reasons
<1>10. LocalsAgree'
  BY <1>2, <1>3 DEF LocalsAgree, TypeOK
<1>11. sent'.response = response /\ sent'.connected /\ sent'.chunks = 0 /\ ~sent'.ended
  BY <1>2, <1>5, <1>6 DEF TypeOK
<1>12. Progress'
  BY <1>1, <1>4, <1>11, ResponseHasStatus DEF Progress, Responded, BeforeResponse
<1>13. ReasonsHold'
  BY <1>1, <1>4, <1>5, <1>11, ResponseHasStatus DEF ReasonsHold, Responded
<1>14. OutcomeDecided'
  BY <1>4, <1>5 DEF OutcomeDecided
<1> QED
  BY <1>9, <1>10, <1>12, <1>13, <1>14

\* An injected response is recorded at once, from what it put into the locals.
LEMMA FaultInjectedPreserves ==
  ASSUME TurnInv, NEW response \in InjectedResponses, FaultInjected(response)
  PROVE  TurnInv'
<1> USE DEF TurnInv
<1>1. /\ response \in Responses /\ response.status >= 400
      /\ response.retryAfter # "date" /\ HttpError(response) = "http"
  BY DEF Responses, InjectedResponses, HttpError
<1>2. sent' = [sent EXCEPT !.response = response]
  BY DEF FaultInjected, Receive
<1>3. seen' = [seen EXCEPT !.status = response.status, !.fault = response.fault]
  BY DEF FaultInjected, Receive
<1>4. /\ phase' = "done" /\ leaving' = "http" /\ outcome' = RecordOf("http")'
      /\ UNCHANGED cancelled /\ ~cancelled
      /\ sent.response = NoResponse
  BY <1>1 DEF FaultInjected, Progress, BeforeResponse, Responded, ReasonsHold
<1>5. sent.chunks = 0 /\ ~sent.ended
  BY <1>4 DEF Progress, NoResponse, NoStatus
<1>6. sent' \in Exchange
  BY <1>1, <1>2 DEF TypeOK, Exchange, Locals
<1>7. seen' \in Locals
  BY <1>1, <1>3, StatusSeen
<1>8. sent'.response = response /\ sent'.chunks = 0 /\ ~sent'.ended
  BY <1>2, <1>5 DEF TypeOK
<1>9. RecordOf("http")' \in Record
  <2>1. sent'.response.retryAfter \in {"absent", "seconds"}
    BY <1>1, <1>8, ResponseHasStatus DEF RetryAfter
  <2> QED
    BY <2>1, <1>7, ChunkAssumption
       DEF Locals, RecordOf, Record, Abandons, KeepsStatus, NoStatus, NotCounted, Reasons,
           Usage, RecordStatuses, Faults
<1>10. TypeOK'
  BY <1>4, <1>6, <1>7, <1>9 DEF TypeOK, Phases, Reasons
<1>11. LocalsAgree'
  BY <1>2, <1>3 DEF LocalsAgree, TypeOK
<1>12. Progress'
  BY <1>1, <1>4, <1>8 DEF Progress, BeforeResponse
<1>13. ReasonsHold'
  BY <1>1, <1>4, <1>8 DEF ReasonsHold
<1>14. OutcomeDecided'
  BY <1>4 DEF OutcomeDecided, Result
<1> QED
  BY <1>10, <1>11, <1>12, <1>13, <1>14

\* A chunk is counted where it is sent and where it is read.
LEMMA ChunkPreserves ==
  ASSUME TurnInv, NEW content \in BOOLEAN, NEW usage \in Usage, ChunkArrives(content, usage)
  PROVE  TurnInv'
<1> USE DEF TurnInv
<1> DEFINE last == IF usage = "none" THEN sent.usage ELSE usage
<1>1. /\ phase = "stream" /\ (content => sent.chunks < MaxChunks)
      /\ UNCHANGED <<phase, leaving, cancelled, outcome>>
  BY DEF ChunkArrives
<1>2. /\ sent.chunks \in 0..MaxChunks /\ seen.chunks = sent.chunks /\ seen.usage = sent.usage
      /\ sent.usage \in Usage /\ last \in Usage
  BY DEF TypeOK, Exchange, Locals, LocalsAgree
<1>3. sent' = [sent EXCEPT !.chunks = IF content THEN @ + 1 ELSE @, !.usage = last]
  BY DEF ChunkArrives
<1>4. seen' = [(IF content THEN ContentSeen ELSE seen) EXCEPT !.usage = last]
  BY <1>2 DEF ChunkArrives, ContentSeen, TypeOK
<1>5. CASE content
  <2>1. sent' = [sent EXCEPT !.chunks = sent.chunks + 1, !.usage = last]
    BY <1>3, <1>5
  <2>2. seen' = [seen EXCEPT !.ttft = TRUE, !.chunks = sent.chunks + 1,
                             !.gaps = sent.chunks, !.usage = last]
    <3>1. (IF seen.ttft THEN seen.gaps + 1 ELSE seen.gaps) = sent.chunks
      BY <1>2, ChunkAssumption DEF LocalsAgree
    <3>2. ContentSeen = [seen EXCEPT !.ttft = TRUE, !.chunks = sent.chunks + 1,
                                     !.gaps = sent.chunks]
      BY <1>2, <3>1 DEF ContentSeen, TypeOK
    <3>3. seen' = [ContentSeen EXCEPT !.usage = last]
      BY <1>4, <1>5
    <3> HIDE DEF last
    <3> QED
      BY <3>2, <3>3 DEF TypeOK
  <2>3. sent.chunks + 1 \in 0..MaxChunks
    BY <1>1, <1>2, <1>5, ChunkAssumption
  <2>4. TypeOK'
    <3> HIDE DEF last
    <3>1. sent' \in Exchange
      BY <1>2, <2>1, <2>3 DEF TypeOK, Exchange, Locals
    <3>2. seen' \in Locals
      BY <1>2, <2>2, <2>3 DEF TypeOK, Exchange, Locals
    <3> QED
      BY <1>1, <3>1, <3>2 DEF TypeOK
  <2>5. LocalsAgree'
    BY <1>2, <2>1, <2>2 DEF LocalsAgree, TypeOK
  <2>6. /\ sent'.response = sent.response /\ sent'.ended = sent.ended
        /\ sent'.connected = sent.connected
    BY <2>1 DEF TypeOK
  <2>7. sent.response.status \in 100..399
    BY <1>1, ResponseHasStatus DEF Progress, Responded, TypeOK, Exchange, Locals
  <2> QED
    BY <1>1, <2>4, <2>5, <2>6, <2>7
       DEF Progress, ReasonsHold, OutcomeDecided, Responded, BeforeResponse
<1>6. CASE ~content
  <2>1. sent' = [sent EXCEPT !.usage = last]
    BY <1>3, <1>6 DEF TypeOK
  <2>2. seen' = [seen EXCEPT !.usage = last]
    BY <1>4, <1>6
  <2>3. TypeOK'
    BY <1>1, <1>2, <2>1, <2>2 DEF TypeOK, Exchange, Locals
  <2>4. LocalsAgree'
    BY <1>2, <2>1, <2>2 DEF LocalsAgree, TypeOK
  <2>5. /\ sent'.response = sent.response /\ sent'.ended = sent.ended
        /\ sent'.connected = sent.connected /\ sent'.chunks = sent.chunks
    BY <2>1 DEF TypeOK
  <2> QED
    BY <1>1, <2>3, <2>4, <2>5
       DEF Progress, ReasonsHold, OutcomeDecided, Responded, BeforeResponse
<1> QED
  BY <1>5, <1>6

\* TurnInv is kept by every step.
LEMMA TurnStep == TurnInv /\ [Next]_vars => TurnInv'
<1> SUFFICES ASSUME TurnInv, [Next]_vars PROVE TurnInv'
  OBVIOUS
<1> USE DEF TurnInv
<1>0. cancelled \in BOOLEAN
  BY DEF TypeOK
<1>1. CASE Connected
  <2>1. sent' = [sent EXCEPT !.connected = TRUE] /\ phase = "connect" /\ phase' = "send"
        /\ UNCHANGED <<seen, leaving, cancelled, outcome>>
    BY <1>1 DEF Connected
  <2>2. /\ sent'.response = sent.response /\ sent'.ended = sent.ended /\ sent'.connected
        /\ sent'.chunks = sent.chunks /\ sent'.usage = sent.usage
    BY <2>1 DEF TypeOK
  <2>3. TypeOK'
    BY <2>1 DEF TypeOK, Exchange, Phases, BeforeResponse
  <2> QED
    BY <2>1, <2>2, <2>3
       DEF LocalsAgree, Progress, ReasonsHold, OutcomeDecided, Responded, BeforeResponse
<1>2. CASE RequestSent
  <2>1. phase = "send" /\ phase' = "wait" /\ UNCHANGED <<sent, seen, leaving, cancelled, outcome>>
    BY <1>2 DEF RequestSent
  <2> QED
    BY <2>1 DEF TypeOK, Phases, LocalsAgree, Progress, ReasonsHold, OutcomeDecided, Responded,
                BeforeResponse
<1>3. ASSUME NEW response \in ServerResponses, ServerAnswers(response) PROVE TurnInv'
  BY <1>3, ServerAnswersPreserves
<1>4. ASSUME NEW response \in InjectedResponses, FaultInjected(response) PROVE TurnInv'
  BY <1>4, FaultInjectedPreserves
<1>5. ASSUME NEW content \in BOOLEAN, NEW usage \in Usage, ChunkArrives(content, usage)
      PROVE TurnInv'
  BY <1>5, ChunkPreserves
<1>6. CASE StreamEnds
  <2>1. sent' = [sent EXCEPT !.ended = TRUE] /\ phase = "stream" /\ phase' = "close"
        /\ leaving' = "completed" /\ UNCHANGED <<seen, cancelled, outcome>>
    BY <1>6 DEF StreamEnds
  <2>2. /\ sent'.response = sent.response /\ sent'.ended /\ sent'.connected = sent.connected
        /\ sent'.chunks = sent.chunks /\ sent'.usage = sent.usage
    BY <2>1 DEF TypeOK
  <2>3. TypeOK'
    BY <2>1 DEF TypeOK, Exchange, Locals, Phases, Reasons
  <2>4. sent.response.status \in 100..399
    BY <2>1, ResponseHasStatus DEF Progress, Responded, TypeOK, Exchange, Locals
  <2> QED
    BY <2>1, <2>2, <2>3, <2>4
       DEF LocalsAgree, Progress, ReasonsHold, OutcomeDecided, Responded, BeforeResponse
<1>7. CASE Fails
  <2>1. ~cancelled
    BY <1>7 DEF Fails, Progress, ReasonsHold, BeforeResponse
  <2>2. /\ "failed" \in Reasons \ {"completed", "http"} /\ cancelled' = cancelled
        /\ phase # "done" /\ phase \in BeforeResponse \cup {"stream"} /\ Leave("failed")
    BY <1>7 DEF Fails, Reasons, BeforeResponse
  <2> QED
    BY <1>0, <2>1, <2>2, LeavePreserves
<1>8. CASE GapTimeout
  <2>1. ~cancelled
    BY <1>8 DEF GapTimeout, Progress, ReasonsHold, BeforeResponse
  <2>2. /\ "gap" \in Reasons \ {"completed", "http"} /\ cancelled' = cancelled
        /\ phase # "done" /\ phase \in {"send", "wait", "stream"} /\ Leave("gap")
    BY <1>8 DEF GapTimeout, Reasons
  <2> QED
    BY <1>0, <2>1, <2>2, LeavePreserves
<1>9. CASE WallExpires
  <2>1. /\ "wall" \in Reasons \ {"completed", "http"} /\ ~cancelled /\ cancelled' = cancelled
        /\ phase # "done" /\ Leave("wall")
    BY <1>9 DEF WallExpires, WallConverts, WallCovers, Reasons, BeforeResponse
  <2> QED
    BY <1>0, <2>1, LeavePreserves
<1>10. CASE Cancel
  BY <1>10, LeavePreserves DEF Cancel, Reasons
<1>11. CASE CloseResponse
  <2>1. /\ phase = "close" /\ phase' = "done" /\ outcome' = Result(leaving)
        /\ UNCHANGED <<sent, seen, leaving, cancelled>>
    BY <1>11 DEF CloseResponse
  <2>2. leaving \in Reasons
    BY <2>1 DEF TypeOK, Progress
  <2>3. RecordOf(leaving) \in Record
    BY <2>2, RecordTyped DEF ReasonsHold
  <2>4. TypeOK'
    BY <2>1, <2>3 DEF TypeOK, Phases, Result
  <2>5. Result(leaving)' = Result(leaving)
    BY <2>1 DEF Result, RecordOf, Abandons, KeepsStatus
  <2> QED
    BY <2>1, <2>4, <2>5
       DEF LocalsAgree, Progress, ReasonsHold, OutcomeDecided, Responded, BeforeResponse
<1>12. CASE UNCHANGED vars
  <2>1. UNCHANGED <<phase, sent, seen, leaving, cancelled, outcome>>
    BY <1>12 DEF vars
  <2>2. Result(leaving)' = Result(leaving)
    BY <2>1 DEF Result, RecordOf, Abandons, KeepsStatus
  <2> QED
    BY <2>1, <2>2 DEF TypeOK, LocalsAgree, Progress, ReasonsHold, OutcomeDecided, Responded
<1> QED
  BY <1>1, <1>2, <1>3, <1>4, <1>5, <1>6, <1>7, <1>8, <1>9, <1>10, <1>11, <1>12 DEF Next

\* The locals tell what happened, the reason agrees with them, and the outcome
\* with the reason, in every state of every call.
THEOREM TurnInductive == Spec => []TurnInv
BY TurnInit, TurnStep, PTL DEF Spec
-----------------------------------------------------------------------------

\* The outcome of a call that returned is the record of its reason to leave.
LEMMA ReturnedRecord ==
  ASSUME TurnInv, Returned
  PROVE  /\ phase = "done" /\ leaving \in Reasons /\ leaving # "cancelled"
         /\ outcome = RecordOf(leaving)
BY DEF TurnInv, TypeOK, OutcomeDecided, Returned, Result, Progress

\* The variables of a call, and the record it returns, keep their types.
THEOREM TurnTypeCorrect == Spec => []TypeOK
BY TurnInductive, PTL DEF TurnInv

\* A record is ok exactly if the stream ran to its end and nothing overrode it,
\* and then holds what the server sent, down to the last chunk; the status and
\* the fault of any record are those that arrived, or lost to a gap timeout or
\* a failure.
THEOREM RecordFaithful == Spec => []RecordTellsTheStream
<1>1. TurnInv => RecordTellsTheStream
  <2> SUFFICES ASSUME TurnInv, Returned PROVE RecordTellsTheStream!2
    BY DEF RecordTellsTheStream
  <2>1. /\ phase = "done" /\ leaving \in Reasons /\ leaving # "cancelled"
        /\ outcome = RecordOf(leaving)
    BY ReturnedRecord
  <2>2. sent.chunks \in Nat
    BY ChunkAssumption DEF TurnInv, TypeOK, Exchange, Locals
  <2>3. outcome.ok <=> leaving = "completed"
    BY <2>1 DEF RecordOf
  <2>4. leaving = "completed" <=> /\ Responded /\ sent.response.status < 400
                                  /\ sent.ended /\ leaving # "wall"
    <3>1. sent.ended => sent.response.status \in 100..399 /\ Responded
      BY DEF TurnInv, Progress, Responded, NoResponse, NoStatus
    <3> QED
      BY <2>1, <3>1 DEF TurnInv, ReasonsHold
  <2>5. outcome.error = leaving /\ (outcome.ttft <=> sent.chunks > 0)
    BY <2>1 DEF RecordOf, TurnInv, LocalsAgree
  <2>6. leaving = "completed" =>
          /\ outcome.usage = sent.usage
          /\ outcome.chunks = sent.chunks /\ outcome.itl = (seen.gaps > 0)
    BY <2>1 DEF RecordOf, TurnInv, LocalsAgree
  <2>7. seen.gaps > 0 <=> sent.chunks >= 2
    BY <2>2 DEF TurnInv, LocalsAgree
  <2>8. leaving # "completed" =>
          outcome.usage = "none" /\ outcome.chunks = NotCounted /\ ~outcome.itl
    BY <2>1 DEF RecordOf
  <2>9. /\ leaving \in {"gap", "failed"} =>
             outcome.status = NoResponse.status /\ outcome.fault = NoResponse.fault
        /\ leaving \notin {"gap", "failed"} =>
             /\ outcome.status = sent.response.status
             /\ outcome.fault = sent.response.fault
    BY <2>1 DEF RecordOf, KeepsStatus, NoResponse, Reasons, TurnInv, LocalsAgree
  <2> QED
    BY <2>3, <2>4, <2>5, <2>6, <2>7, <2>8, <2>9
<1> QED
  BY <1>1, TurnInductive, PTL

\* What is recorded as abandoned reached the server and was given up by the
\* client; by the wall exactly if a status had arrived.
THEOREM AbandonmentHonest == Spec => []AbandonedMeansGaveUp
<1>1. TurnInv => AbandonedMeansGaveUp
  <2> SUFFICES ASSUME TurnInv, Returned PROVE AbandonedMeansGaveUp!2
    BY DEF AbandonedMeansGaveUp
  <2>1. leaving \in Reasons /\ outcome = RecordOf(leaving)
    BY ReturnedRecord
  <2>2. outcome.error = leaving /\ outcome.abandoned = Abandons(leaving)
    BY <2>1 DEF RecordOf
  <2>3. seen.status # NoStatus <=> Responded
    BY ResponseHasStatus
       DEF TurnInv, TypeOK, Exchange, Locals, LocalsAgree, Responded, NoResponse, NoStatus
  <2> QED
    BY <2>2, <2>3 DEF Abandons, TurnInv, ReasonsHold
<1> QED
  BY <1>1, TurnInductive, PTL

\* The status and the injected fault of an error answer reach the record, and
\* the retry decision is about that answer.
THEOREM ErrorAnswers == Spec => []ErrorAnswersKept
<1>1. TurnInv => ErrorAnswersKept
  <2> SUFFICES ASSUME TurnInv, Returned, sent.response.status >= 400,
                      sent.response.retryAfter # "date"
               PROVE  ErrorAnswersKept!2
    BY DEF ErrorAnswersKept
  <2>1. leaving # "cancelled" /\ outcome = RecordOf(leaving)
    BY ReturnedRecord
  <2>2. leaving \in {"http", "wall"}
    BY <2>1 DEF TurnInv, ReasonsHold
  <2>3. /\ outcome.status = sent.response.status /\ outcome.fault = sent.response.fault
        /\ ~outcome.ok
    BY <2>1, <2>2 DEF RecordOf, KeepsStatus, TurnInv, LocalsAgree
  <2> QED
    BY <2>3 DEF Retryable, NoStatus
<1> QED
  BY <1>1, TurnInductive, PTL

\* A call raises exactly if its worker was cancelled.
THEOREM OnlyCancellation == Spec => []OnlyCancellationRaises
<1>1. TurnInv => OnlyCancellationRaises
  <2> SUFFICES ASSUME TurnInv, phase = "done" PROVE outcome = Raised <=> cancelled
    BY DEF OnlyCancellationRaises
  <2>1. leaving \in Reasons /\ outcome = Result(leaving) /\ (leaving = "cancelled" <=> cancelled)
    BY DEF TurnInv, TypeOK, Progress, OutcomeDecided, ReasonsHold
  <2>2. RecordOf(leaving) # Raised
    BY <2>1, RecordTyped, OutcomesDiffer DEF TurnInv, ReasonsHold
  <2> QED
    BY <2>1, <2>2 DEF Result
<1> QED
  BY <1>1, TurnInductive, PTL
=============================================================================
