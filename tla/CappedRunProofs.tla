-------------------------- MODULE CappedRunProofs --------------------------
(***************************************************************************)
(* A capped run is a run of the generator and a life of the controller at  *)
(* once, so what was proved of each holds of it; together they give what   *)
(* neither promises alone: nothing is dispatched beyond the cap.           *)
(***************************************************************************)
EXTENDS CappedRun, LoadGeneratorProofs, WellFoundedInduction

ControllerProofs == INSTANCE SpendControllerProofs WITH Key <- Attempt

\* Every step of a capped run is a step of the generator.
LEMMA CappedStepGenerates == [CappedNext]_cappedVars => [Next]_vars
<1> SUFFICES ASSUME [CappedNext]_cappedVars PROVE [Next]_vars
  OBVIOUS
<1>1. CASE OtherStep
  BY <1>1 DEF OtherStep
<1>2. ASSUME NEW w \in Workers, AnswerObserved(w)
      PROVE  Next
  BY <1>2 DEF AnswerObserved, WorkerStep, Next
<1>3. CASE UNCHANGED cappedVars
  BY <1>3 DEF cappedVars
<1> QED
  BY <1>1, <1>2, <1>3 DEF CappedNext

\* A capped run is a run of the generator: what is proved of Spec holds of it.
THEOREM CappedGenerates == CappedSpec => Spec
<1>1. CappedInit => Init
  BY DEF CappedInit
<1> QED
  BY <1>1, CappedStepGenerates, PTL DEF CappedSpec, Spec

\* Every step of a capped run tells the controller of a new attempt, or
\* nothing at all.
LEMMA CappedStepControls ==
  ASSUME IndInv, [CappedNext]_cappedVars
  PROVE  \/ UNCHANGED Controller!vars
         \/ \E key \in Attempt, usage \in Controller!Usage :
              Controller!Charge(key, usage) /\ UNCHANGED <<cap, dispatched>>
<1>1. CASE OtherStep
  BY <1>1 DEF OtherStep, accounting, Controller!vars, Controller!accounting
<1>2. ASSUME NEW w \in Workers, AnswerObserved(w), ReachesController(w)
      PROVE  \E key \in Attempt, usage \in Controller!Usage :
               Controller!Charge(key, usage) /\ UNCHANGED <<cap, dispatched>>
  <2>1. RequestAnswered(w) /\ cap' = cap
    BY <1>2 DEF AnswerObserved
  <2>2. pc[w] = "request" /\ UNCHANGED dispatched
    BY <2>1 DEF RequestAnswered
  <2>3. TypeOK /\ LoopInv /\ CursorInv
    BY DEF IndInv
  <2>4. CurrentAttempt(w) \in Attempt
    BY <2>2, <2>3, InSessionCurrent DEF InSession, InAttempt
  <2>5. \E usage \in Controller!Usage : Controller!Charge(CurrentAttempt(w), usage)
    BY <1>2 DEF AnswerObserved
  <2> QED
    BY <2>1, <2>2, <2>4, <2>5
<1>3. ASSUME NEW w \in Workers, AnswerObserved(w), ~ReachesController(w)
      PROVE  UNCHANGED Controller!vars
  BY <1>3 DEF AnswerObserved, accounting, Controller!vars, Controller!accounting
<1>4. CASE UNCHANGED cappedVars
  BY <1>4 DEF cappedVars, vars, accounting, Controller!vars, Controller!accounting
<1> QED
  BY <1>1, <1>2, <1>3, <1>4 DEF CappedNext

\* A capped run is a life of the controller: what is proved of its Spec holds.
THEOREM CappedControls == CappedSpec => Controller!Spec
<1>1. CappedInit => Controller!Init
  BY DEF CappedInit
<1>2. IndInv /\ [CappedNext]_cappedVars => [Controller!Next]_(Controller!vars)
  BY CappedStepControls DEF Controller!Next, Controller!OnAttemptComplete
<1> QED
  BY <1>1, <1>2, CappedGenerates, Inductive, PTL DEF CappedSpec, Controller!Spec

\* Controller and ControllerProofs instantiate the same module.
LEMMA SameController == Controller!Spec => ControllerProofs!Spec
<1>1. Controller!Init => ControllerProofs!Init
  BY DEF ControllerProofs!Init, Controller!Init
<1>2. Controller!Usage = ControllerProofs!Usage
  BY DEF Controller!Usage, ControllerProofs!Usage
<1>3. ASSUME NEW key, NEW usage
      PROVE  Controller!Replay(key, usage) => ControllerProofs!Replay(key, usage)
  BY DEF Controller!Replay, ControllerProofs!Replay, Controller!IsNew, ControllerProofs!IsNew,
         Controller!accounting, ControllerProofs!accounting
<1>4. ASSUME NEW key, NEW usage
      PROVE  Controller!Reject(key, usage) => ControllerProofs!Reject(key, usage)
  BY DEF Controller!Reject, ControllerProofs!Reject, Controller!IsNew, ControllerProofs!IsNew,
         Controller!Negative, ControllerProofs!Negative,
         Controller!accounting, ControllerProofs!accounting
<1>5. ASSUME NEW key, NEW usage
      PROVE  Controller!Charge(key, usage) => ControllerProofs!Charge(key, usage)
  <2>1. /\ Controller!IsNew(key) <=> ControllerProofs!IsNew(key)
        /\ Controller!Negative(usage.input) <=> ControllerProofs!Negative(usage.input)
        /\ Controller!Negative(usage.output) <=> ControllerProofs!Negative(usage.output)
    BY DEF Controller!IsNew, ControllerProofs!IsNew,
           Controller!Negative, ControllerProofs!Negative
  <2>2. /\ Controller!Known(usage.input) = ControllerProofs!Known(usage.input)
        /\ Controller!Known(usage.output) = ControllerProofs!Known(usage.output)
    BY DEF Controller!Known, ControllerProofs!Known
  <2>3. Controller!KnownCounts(usage) = ControllerProofs!KnownCounts(usage)
    BY <2>2 DEF Controller!KnownCounts, ControllerProofs!KnownCounts
  <2>4. Controller!FullyKnown(usage) <=> ControllerProofs!FullyKnown(usage)
    BY <2>3 DEF Controller!FullyKnown, ControllerProofs!FullyKnown
  <2>5. Controller!ChargeOf(usage) = ControllerProofs!ChargeOf(usage)
    BY DEF Controller!ChargeOf, ControllerProofs!ChargeOf,
           Controller!Priced, ControllerProofs!Priced
  <2>6. ASSUME NEW reason
        PROVE  Controller!RequestStop(reason) <=> ControllerProofs!RequestStop(reason)
    BY DEF Controller!RequestStop, ControllerProofs!RequestStop,
           Controller!ReasonAfter, ControllerProofs!ReasonAfter
  <2>7. ASSUME NEW spend
        PROVE  Controller!ReachesCap(spend) <=> ControllerProofs!ReachesCap(spend)
    BY DEF Controller!ReachesCap, ControllerProofs!ReachesCap
  <2> QED
    BY <2>1, <2>2, <2>3, <2>4, <2>5, <2>6, <2>7 DEF Controller!Charge, ControllerProofs!Charge
<1>6. Controller!CallerStops => ControllerProofs!CallerStops
  BY DEF Controller!CallerStops, ControllerProofs!CallerStops,
         Controller!accounting, ControllerProofs!accounting
<1>7. UNCHANGED Controller!vars => UNCHANGED ControllerProofs!vars
  BY DEF Controller!vars, ControllerProofs!vars,
         Controller!accounting, ControllerProofs!accounting
<1>8. [Controller!Next]_(Controller!vars) => [ControllerProofs!Next]_(ControllerProofs!vars)
  BY <1>2, <1>3, <1>4, <1>5, <1>6, <1>7
     DEF Controller!Next, ControllerProofs!Next,
         Controller!OnAttemptComplete, ControllerProofs!OnAttemptComplete
<1> QED
  BY <1>1, <1>8, PTL DEF Controller!Spec, ControllerProofs!Spec

\* In a capped run too, the controller is well typed and its stop is warranted.
LEMMA CappedWarranted ==
  CappedSpec => [](Controller!StopIsWarranted /\ cap \in Caps /\ knownSpend \in Nat)
<1>a. NotSeen \notin ControllerProofs!Usage
  BY NotSeenAssumed DEF Controller!Usage, ControllerProofs!Usage
<1>1. ControllerProofs!Spec => []ControllerProofs!StopIsWarranted
  BY <1>a, ControllerProofs!StopWarranted, PricesAssumed
<1>2. ControllerProofs!Spec => []ControllerProofs!TypeOK
  BY <1>a, ControllerProofs!SpendTypeCorrect, PricesAssumed
<1>3. ControllerProofs!StopIsWarranted => Controller!StopIsWarranted
  BY DEF Controller!StopIsWarranted, ControllerProofs!StopIsWarranted,
         Controller!TotalKnown, ControllerProofs!TotalKnown
<1>4. ControllerProofs!TypeOK => cap \in Caps /\ knownSpend \in Nat
  BY DEF ControllerProofs!TypeOK
<1> QED
  BY <1>1, <1>2, <1>3, <1>4, CappedControls, SameController, PTL

\* An unstopped capped run is below its cap and knows its spend.
LEMMA UnstoppedIsWithin ==
  ASSUME Controller!StopIsWarranted, cap \in Caps, knownSpend \in Nat, ~stop, Capped
  PROVE  knownSpend < cap /\ Controller!TotalKnown /\ stopReason = "none"
<1>1. stopReason = "none"
  BY DEF Controller!StopIsWarranted
<1>2. ~(knownSpend >= cap) /\ Controller!TotalKnown
  BY <1>1 DEF Controller!StopIsWarranted, Capped
<1>3. cap \in Nat
  BY PricesAssumed DEF Capped
<1> QED
  BY <1>1, <1>2, <1>3

\* A capped run dispatches nothing once its spend reached the cap or is
\* unknown: the controller has then set stop, and stop closes admission.
THEOREM NothingBeyondCap == CappedSpec => DispatchWithinCap
<1> DEFINE Warranted == Controller!StopIsWarranted /\ cap \in Caps /\ knownSpend \in Nat
           Within == dispatched' # dispatched /\ Capped =>
                       knownSpend < cap /\ Controller!TotalKnown
<1>1. ASSUME IndInv, Warranted, [CappedNext]_cappedVars
      PROVE  [Within]_cappedVars
  <2> SUFFICES ASSUME dispatched' # dispatched, Capped
               PROVE  knownSpend < cap /\ Controller!TotalKnown
    OBVIOUS
  <2>1. ~stop
    BY <1>1, CappedStepGenerates, StepAdmission
  <2> QED
    BY <1>1, <2>1, UnstoppedIsWithin
<1>2. IndInv /\ Warranted /\ [CappedNext]_cappedVars => [Within]_cappedVars
  BY <1>1
<1> HIDE DEF Within, Warranted
<1>3. CappedSpec => [][Within]_cappedVars
  <2>1. CappedSpec => []Warranted
    BY CappedWarranted DEF Warranted
  <2> QED
    BY <1>2, <2>1, CappedGenerates, Inductive, PTL DEF CappedSpec
<1> QED
  BY <1>3 DEF DispatchWithinCap, Within

\* A capped run reports completion only below its cap and with its spend known:
\* it completes without stop, and the controller would have asked for it.
THEOREM CompletedWithin == CappedSpec => []CompletedWithinCap
<1>1. RunStatusExplained /\ Controller!StopIsWarranted /\ cap \in Caps /\ knownSpend \in Nat
        => CompletedWithinCap
  BY UnstoppedIsWithin DEF RunStatusExplained, CompletedWithinCap
<1> QED
  BY <1>1, CappedWarranted, CappedGenerates, StatusExplained, PTL
-----------------------------------------------------------------------------
(* Every recorded answer is charged, or its session has failed.            *)

\* The controller, or the record's writing, raised: the session is about to fail.
Failing(a) ==
  /\ a.concurrency = level /\ a.n = cursor[a.worker].n
  /\ pc[a.worker] = "raising" /\ status[a.worker] = "failed"
FailureNoted(a) == Failing(a) \/ sessions[SessionOf(a)].status = "failed"

ChargedInv ==
  /\ \A k \in Attempt : seen[k] # NotSeen => records[k] # "none"
  /\ \A a \in Attempt : records[a] # "none" /\ seen[a] = NotSeen => FailureNoted(a)

\* A worker that handles an exception ends its session with the status it has.
LEMMA RaisingHandles ==
  ASSUME NEW w \in Workers, WorkerStep(w), pc[w] = "raising"
  PROVE  HandleException(w)
BY DEF WorkerStep, StopWorker, StartSession, AtLoopTop, FinishSession, EndTurns, StopBeforeTurn,
       BeginTurn, StopBeforeAttempt, BeginAttempt, RequestAnswered, BackoffEnds, WaitEnds,
       DropUnansweredTurn, EndTurn, ThinkEnds, CancelUnstarted, CancelSession, Cancellable

\* A failure once noted stays: the session's summary is written once.
LEMMA FailureStaysNoted ==
  ASSUME IndInv, TallyInv, [Next]_vars, NEW a \in Attempt, FailureNoted(a)
  PROVE  FailureNoted(a)'
<1>a. a.worker \in Workers /\ SessionOf(a) \in SessionId
  BY DEF Attempt, SessionId, SessionOf
<1>1. ASSUME NEW w \in Workers, WorkerStep(w) PROVE FailureNoted(a)'
  <2>1. CASE sessions[SessionOf(a)].status = "failed"
    <3>1. pc[w] \in {"ending", "raising"} => sessions[CurrentSession(w)].status = "none"
      BY DEF TallyInv, Tallied, InSession, NoSession
    <3>2. sessions'[SessionOf(a)] = sessions[SessionOf(a)]
      BY <1>1, <1>a, <2>1, <3>1, WorkerWritesSummary
    <3> QED
      BY <2>1, <3>2 DEF FailureNoted
  <2>2. CASE Failing(a) /\ w # a.worker
    <3>1. /\ level' = level /\ cursor'[a.worker] = cursor[a.worker]
          /\ pc'[a.worker] = pc[a.worker] /\ status'[a.worker] = status[a.worker]
      BY <1>1, <1>a, <2>2, OtherWorkersStay, WorkerMoves DEF IndInv, TypeOK
    <3> QED
      BY <2>2, <3>1 DEF FailureNoted, Failing
  <2>3. CASE Failing(a) /\ w = a.worker
    <3>1. HandleException(w) /\ status[w] = "failed" /\ SessionOf(a) = CurrentSession(w)
      BY <1>1, <2>3, RaisingHandles DEF Failing, SessionOf, CurrentSession
    <3>2. sessions'[SessionOf(a)].status = "failed"
      BY <1>a, <3>1 DEF HandleException, Summary, IndInv, TypeOK, EvidenceTypes
    <3> QED
      BY <3>2 DEF FailureNoted
  <2> QED
    BY <2>1, <2>2, <2>3 DEF FailureNoted
<1>2. CASE MainStep
  <2>1. sessions' = sessions
    BY <1>2, MainLeavesRequests
  <2>2. CASE StartLevel \/ ClientDoesNotOpen
    <3>1. pc[a.worker] \in Finished
      BY <1>a, <2>2 DEF StartLevel, ClientDoesNotOpen, EnterLevel, IndInv, LoopInv
    <3> QED
      BY <2>1, <3>1 DEF FailureNoted, Failing, Finished, Exceptions
  <2>3. CASE UNCHANGED <<level, pc, cursor, messages, turnsCompleted, status>>
    BY <2>1, <2>3 DEF FailureNoted, Failing
  <2> QED
    BY <1>2, <2>2, <2>3, MainKeepsTasks
<1>3. CASE SetStop \/ CancelRun \/ GatherIsTold \/ UNCHANGED vars
  BY <1>3 DEF SetStop, CancelRun, GatherIsTold, vars, mainVars, taskVars, evidence, FailureNoted, Failing
<1> QED
  BY <1>1, <1>2, <1>3 DEF Next, Terminated

\* Every step of a capped run keeps ChargedInv.
LEMMA ChargedStep ==
  ASSUME IndInv, TallyInv, ChargedInv, seen \in [Attempt -> Controller!Usage \cup {NotSeen}],
         [CappedNext]_cappedVars
  PROVE  ChargedInv'
<1>a. \A a \in Attempt : FailureNoted(a) => FailureNoted(a)'
  BY CappedStepGenerates, FailureStaysNoted
<1>1. ASSUME NEW w \in Workers, AnswerObserved(w) PROVE ChargedInv'
  <2>1. RequestAnswered(w) /\ pc[w] = "request"
    BY <1>1 DEF AnswerObserved, RequestAnswered
  <2>2. CurrentAttempt(w) \in Attempt
    BY <2>1, InSessionCurrent DEF IndInv, InSession, InAttempt
  <2>3. /\ records'[CurrentAttempt(w)] # "none"
        /\ \A a \in Attempt : a # CurrentAttempt(w) => records'[a] = records[a]
    BY <2>1, <2>2 DEF RequestAnswered, IndInv, TypeOK, EvidenceTypes, Answers
  <2>4. CASE ReachesController(w)
    <3>1. PICK usage \in Controller!Usage : Controller!Charge(CurrentAttempt(w), usage)
      BY <1>1, <2>4 DEF AnswerObserved
    <3>2. seen' = [seen EXCEPT ![CurrentAttempt(w)] = usage] /\ usage # NotSeen
      BY <3>1, NotSeenAssumed DEF Controller!Charge
    <3>3. /\ seen'[CurrentAttempt(w)] # NotSeen
          /\ \A a \in Attempt : a # CurrentAttempt(w) => seen'[a] = seen[a]
      BY <2>2, <3>2
    <3> QED
      BY <1>a, <2>3, <3>3 DEF ChargedInv
  <2>5. CASE ~ReachesController(w)
    <3>1. pc'[w] = "raising" /\ seen' = seen
      BY <1>1, <2>5 DEF AnswerObserved, ReachesController, accounting
    <3>2. status'[w] = "failed" /\ cursor' = cursor /\ level' = level
      BY <2>1, <3>1 DEF RequestAnswered, GoOn, Await, mainVars, IndInv, TypeOK, TaskTypes
    <3>3. Failing(CurrentAttempt(w))'
      <4>1. PICK a : a = CurrentAttempt(w)
        OBVIOUS
      <4>2. a.worker = w /\ a.concurrency = level /\ a.n = cursor[w].n
        BY <4>1 DEF CurrentAttempt
      <4>3. CurrentAttempt(w)' = a
        BY <3>2, <4>1 DEF CurrentAttempt
      <4> QED
        BY <3>1, <3>2, <4>2, <4>3 DEF Failing
    <3>4. CurrentAttempt(w)' = CurrentAttempt(w)
      BY <3>2 DEF CurrentAttempt
    <3>5. \A a \in Attempt : a = CurrentAttempt(w) => FailureNoted(a)'
      BY <3>3, <3>4 DEF FailureNoted
    <3> QED
      BY <1>a, <2>3, <3>1, <3>5 DEF ChargedInv
  <2> QED
    BY <2>4, <2>5
<1>2. CASE OtherStep \/ UNCHANGED cappedVars
  <2>1. records' = records /\ seen' = seen
    BY <1>2 DEF OtherStep, cappedVars, vars, evidence, requestEvidence, accounting
  <2> QED
    BY <1>a, <2>1 DEF ChargedInv
<1> QED
  BY <1>1, <1>2 DEF CappedNext

\* In a capped run too, what the controller has seen is of its type.
LEMMA CappedSeen == CappedSpec => [](seen \in [Attempt -> Controller!Usage \cup {NotSeen}])
<1>a. NotSeen \notin ControllerProofs!Usage
  BY NotSeenAssumed DEF Controller!Usage, ControllerProofs!Usage
<1>1. ControllerProofs!Spec => []ControllerProofs!TypeOK
  BY <1>a, ControllerProofs!SpendTypeCorrect, PricesAssumed
<1>2. Controller!Usage = ControllerProofs!Usage
  BY DEF Controller!Usage, ControllerProofs!Usage
<1>3. ControllerProofs!TypeOK => seen \in [Attempt -> Controller!Usage \cup {NotSeen}]
  BY <1>2 DEF ControllerProofs!TypeOK
<1> QED
  BY <1>1, <1>3, CappedControls, SameController, PTL

\* budget.py:75-79: retries and failed attempts are charged like any other, and
\* an answer that could not be charged has failed its session.
THEOREM AllCharged == CappedSpec => []EveryAnswerCharged
<1>1. CappedInit => ChargedInv
  BY DEF CappedInit, Init, Controller!Init, ChargedInv
<1>2. /\ IndInv /\ TallyInv /\ ChargedInv /\ [CappedNext]_cappedVars
      /\ seen \in [Attempt -> Controller!Usage \cup {NotSeen}]
      => ChargedInv'
  BY ChargedStep
<1>3. ChargedInv => EveryAnswerCharged
  BY DEF ChargedInv, EveryAnswerCharged, Controller!Completed, FailureNoted, Failing
<1> QED
  BY <1>1, <1>2, <1>3, CappedSeen, CappedGenerates, Inductive, Tallies, PTL DEF CappedSpec
-----------------------------------------------------------------------------
(* The spend of a capped run passes its cap by less than one charge per    *)
(* user of the level.                                                      *)

\* No completion reports more tokens than some number.
TokensBounded == \E n \in Nat : \A t \in Tokens : t <= n

Less == {p \in Nat \X Nat : p[1] < p[2]}

LEMMA LessWellFounded == IsWellFoundedOn(Less, Nat)
BY Zenon, NatLessThanWellFounded DEF Less, OpToRel

\* A set of integers with a natural number among them and a bound above has a
\* greatest member.
LEMMA MaxOfBounded ==
  ASSUME NEW S, S \subseteq Int, NEW zero \in S, zero \in Nat,
         NEW bound \in Nat, \A y \in S : y <= bound
  PROVE  Max(S) \in S /\ \A y \in S : y <= Max(S)
<1> DEFINE Bounds == {m \in Nat : \A y \in S : y <= m}
<1>1. bound \in Bounds
  OBVIOUS
<1>2. PICK least \in Bounds : \A m \in Bounds : ~(<<m, least>> \in Less)
  BY <1>1, LessWellFounded, WFMin
<1>3. \A m \in Bounds : least <= m
  <2>1. Bounds \subseteq Nat
    OBVIOUS
  <2> HIDE DEF Bounds
  <2>2. \A m \in Bounds : ~(m < least)
    BY <1>2, <2>1 DEF Less
  <2> QED
    BY <2>1, <2>2
<1>4. PICK greatest \in S : \A y \in S : y <= greatest
  <2>1. CASE least \in S
    BY <2>1
  <2>2. CASE least \notin S
    <3>1. \A y \in S : y <= least - 1
      BY <2>2
    <3>2. least - 1 \in Nat
      BY <3>1
    <3>3. least - 1 \in Bounds
      BY <3>1, <3>2
    <3> QED
      BY <1>3, <3>3
  <2> QED
    BY <2>1, <2>2
<1>5. \A y \in S : greatest >= y
  BY <1>4
<1>6. \E x \in S : \A y \in S : x >= y
  BY <1>5
<1>7. Max(S) \in S /\ \A y \in S : Max(S) >= y
  BY <1>6 DEF Max
<1> QED
  BY <1>7

\* Bounded token counts have a bounded price, unknown ones none.
LEMMA PricedBounded ==
  ASSUME NEW n \in Nat, \A t \in Tokens : t <= n,
         NEW tokens \in Tokens \cup {Unknown}, NEW price \in Nat
  PROVE  Controller!Priced(tokens, price) \in Int /\ Controller!Priced(tokens, price) <= n * price
<1>1. n * price \in Nat
  OBVIOUS
<1>2. CASE tokens = Unknown
  BY <1>1, <1>2 DEF Controller!Priced
<1>3. CASE tokens # Unknown
  <2>1. tokens \in Int /\ tokens <= n
    BY <1>3, PricesAssumed
  <2>2. tokens * price \in Int /\ tokens * price <= n * price
    BY <2>1
  <2> QED
    BY <1>3, <2>2 DEF Controller!Priced
<1> QED
  BY <1>2, <1>3

\* MaxCharge bounds every charge, and is none of a negative amount.
LEMMA MaxChargeBounds ==
  ASSUME TokensBounded
  PROVE  /\ MaxCharge \in Nat
         /\ \A u \in Controller!Usage :
              Controller!ChargeOf(u) \in Int /\ Controller!ChargeOf(u) <= MaxCharge
<1> DEFINE Charges == {Controller!ChargeOf(u) : u \in Controller!Usage}
<1>1. PICK n \in Nat : \A t \in Tokens : t <= n
  BY DEF TokensBounded
<1>2. ASSUME NEW u \in Controller!Usage
      PROVE  /\ Controller!ChargeOf(u) \in Int
             /\ Controller!ChargeOf(u) <= n * InputPrice + n * OutputPrice
  <2>1. u.input \in Tokens \cup {Unknown} /\ u.output \in Tokens \cup {Unknown}
    BY DEF Controller!Usage
  <2>2. InputPrice \in Nat /\ OutputPrice \in Nat
    BY PricesAssumed
  <2> DEFINE i == Controller!Priced(u.input, InputPrice)
             o == Controller!Priced(u.output, OutputPrice)
  <2>3. i \in Int /\ i <= n * InputPrice /\ o \in Int /\ o <= n * OutputPrice
    BY <1>1, <2>1, <2>2, PricedBounded
  <2>4. n * InputPrice \in Nat /\ n * OutputPrice \in Nat
    BY <2>2
  <2>5. Controller!ChargeOf(u) = i + o
    BY DEF Controller!ChargeOf
  <2> HIDE DEF i, o
  <2> QED
    BY <2>3, <2>4, <2>5
<1>3. n * InputPrice + n * OutputPrice \in Nat
  BY PricesAssumed
<1>4. 0 \in Charges
  <2> DEFINE silent == [input |-> Unknown, output |-> Unknown]
  <2>1. silent \in Controller!Usage
    BY DEF Controller!Usage
  <2>2. Controller!ChargeOf(silent) = 0
    BY DEF Controller!ChargeOf, Controller!Priced
  <2> QED
    BY <2>1, <2>2
<1>5. Charges \subseteq Int /\ \A y \in Charges : y <= n * InputPrice + n * OutputPrice
  BY <1>2
<1>6. Max(Charges) \in Charges /\ \A y \in Charges : y <= Max(Charges)
  <2> HIDE DEF Charges
  <2> QED
    BY <1>3, <1>4, <1>5, MaxOfBounded
<1>7. MaxCharge = Max(Charges)
  BY DEF MaxCharge
<1>8. Max(Charges) \in Int /\ 0 <= Max(Charges)
  BY <1>4, <1>5, <1>6
<1> QED
  BY <1>2, <1>6, <1>7, <1>8

\* Products of natural numbers.
LEMMA Times ==
  ASSUME NEW a \in Nat, NEW b \in Nat, NEW c \in Nat
  PROVE  /\ a * c \in Nat
         /\ (a + 1) * c = a * c + c
         /\ b - a \in Nat => a * c <= b * c
OBVIOUS

\* The users of the level whose answer is still to come, and the spend the
\* others leave room for.
Requesting == {w \in Workers : pc[w] = "request"}
Room == level - Cardinality(Requesting)

\* The strengthening of OvershootBounded: the answers still to come are not
\* counted in the overshoot yet.
OvershootInv ==
  Capped => IF cap = 0 THEN dispatched = {} ELSE knownSpend < cap + Room * MaxCharge

RoomOK == /\ IsFiniteSet(Requesting) /\ Cardinality(Requesting) \in Nat
          /\ Room \in Nat /\ level \in Nat

\* A user has a task, so at most as many as the level has users are waiting.
LEMMA RoomIsLeft == IndInv /\ ServedInv => RoomOK
<1> SUFFICES ASSUME IndInv, ServedInv PROVE RoomOK
  OBVIOUS
<1>1. Requesting \subseteq Tasks /\ Tasks \subseteq Workers
  BY DEF Requesting, Tasks
<1>2. IsFiniteSet(Tasks) /\ IsFiniteSet(Requesting)
  BY <1>1, TaskAssumption, FS_Subset
<1>3. Cardinality(Requesting) <= Cardinality(Tasks)
  BY <1>1, <1>2, FS_Subset
<1>4. Cardinality(Requesting) \in Nat /\ Cardinality(Tasks) \in Nat
  BY <1>2, FS_CardinalityType
<1>5. level \in Nat
  BY LevelsAreNat DEF IndInv, TypeOK, MainTypes
<1> QED
  BY <1>2, <1>3, <1>4, <1>5 DEF Room, RoomOK, ServedInv

\* Without stop no worker comes to wait for an answer, and no level is entered.
LEMMA StoppedRequestsShrink ==
  ASSUME IndInv, stop, [Next]_vars
  PROVE  Requesting' \subseteq Requesting /\ level' = level
<1>1. ASSUME NEW w \in Workers, WorkerStep(w)
      PROVE  Requesting' \subseteq Requesting /\ level' = level
  <2>1. pc'[w] = "request" => pc[w] = "request"
    <3> USE DEF GoOn, Await, TaskRaises, IndInv, TypeOK, TaskTypes
    <3>1. CASE StopWorker(w) \/ StartSession(w) \/ FinishSession(w) \/ EndTurns(w)
               \/ StopBeforeTurn(w) \/ BeginTurn(w)
      BY <1>1, <3>1 DEF StopWorker, StartSession, FinishSession, EndTurns, StopBeforeTurn, BeginTurn
    <3>2. CASE StopBeforeAttempt(w) \/ BeginAttempt(w) \/ RequestAnswered(w)
      BY <1>1, <3>2 DEF StopBeforeAttempt, BeginAttempt, RequestAnswered
    <3>3. CASE BackoffEnds(w) \/ DropUnansweredTurn(w) \/ EndTurn(w) \/ ThinkEnds(w)
      BY <1>1, <3>3 DEF BackoffEnds, WaitEnds, DropUnansweredTurn, EndTurn, ThinkEnds
    <3>4. CASE CancelUnstarted(w) \/ CancelSession(w) \/ HandleException(w)
      BY <1>1, <3>4 DEF CancelUnstarted, CancelSession, HandleException, SessionStatus
    <3> QED
      BY <1>1, <3>1, <3>2, <3>3, <3>4 DEF WorkerStep
  <2>2. \A v \in Workers : v # w => pc'[v] = pc[v]
    BY <1>1, OtherWorkersStay DEF IndInv, TypeOK
  <2>3. level' = level
    BY <1>1, WorkerKeepsMain
  <2> QED
    BY <2>1, <2>2, <2>3 DEF Requesting
<1>2. CASE MainStep
  <2>1. ~StartLevel /\ ~ClientDoesNotOpen
    BY DEF StartLevel, ClientDoesNotOpen, EnterLevel
  <2> QED
    BY <1>2, <2>1, MainKeepsTasks DEF Requesting
<1>3. CASE SetStop \/ CancelRun \/ GatherIsTold \/ UNCHANGED vars
  BY <1>3 DEF SetStop, CancelRun, GatherIsTold, vars, mainVars, taskVars, Requesting
<1> QED
  BY <1>1, <1>2, <1>3 DEF Next, Terminated

\* So once stop is set, the room left does not shrink.
LEMMA StoppedRoomGrows ==
  ASSUME IndInv, RoomOK, stop, [Next]_vars
  PROVE  Room' - Room \in Nat
<1>1. Requesting' \subseteq Requesting /\ level' = level
  BY StoppedRequestsShrink
<1>2. IsFiniteSet(Requesting) /\ Cardinality(Requesting') <= Cardinality(Requesting)
  BY <1>1, FS_Subset DEF RoomOK
<1>3. Cardinality(Requesting') \in Nat
  BY <1>1, FS_Subset, FS_CardinalityType DEF RoomOK
<1> QED
  BY <1>1, <1>2, <1>3 DEF Room, RoomOK

\* An answer leaves its worker's place in Requesting and costs a charge at most.
LEMMA AnswerFreesRoom ==
  ASSUME IndInv, RoomOK, NEW w \in Workers, RequestAnswered(w)
  PROVE  Room' = Room + 1
<1>1. pc[w] = "request" /\ pc'[w] # "request" /\ level' = level
  BY DEF RequestAnswered, GoOn, Await, mainVars, IndInv, TypeOK, TaskTypes
<1>2. \A v \in Workers : v # w => pc'[v] = pc[v]
  BY OtherWorkersStay DEF WorkerStep, IndInv, TypeOK
<1>3. Requesting' = Requesting \ {w} /\ w \in Requesting
  BY <1>1, <1>2 DEF Requesting
<1>4. Cardinality(Requesting') = Cardinality(Requesting) - 1
  BY <1>3, FS_RemoveElement DEF RoomOK
<1> QED
  BY <1>1, <1>4 DEF Room, RoomOK

\* What the controller adds to the spend: at most MaxCharge, from a positive cap.
LEMMA AnswerCosts ==
  ASSUME TokensBounded, NEW w \in Workers, AnswerObserved(w), knownSpend \in Nat
  PROVE  knownSpend' \in Int => knownSpend' <= knownSpend + MaxCharge
<1>1. MaxCharge \in Nat /\ \A u \in Controller!Usage : Controller!ChargeOf(u) <= MaxCharge
  BY MaxChargeBounds
<1>2. CASE ReachesController(w)
  <2>1. PICK u \in Controller!Usage : Controller!Charge(CurrentAttempt(w), u)
    BY <1>2 DEF AnswerObserved
  <2>2. knownSpend' = knownSpend + Controller!ChargeOf(u)
    BY <2>1 DEF Controller!Charge
  <2>3. Controller!ChargeOf(u) <= MaxCharge
    BY <1>1, <2>1
  <2>4. Controller!ChargeOf(u) \in Int
    BY MaxChargeBounds
  <2> QED
    BY <1>1, <2>2, <2>3, <2>4
<1>3. CASE ~ReachesController(w)
  BY <1>1, <1>3 DEF AnswerObserved, accounting
<1> QED
  BY <1>2, <1>3

\* Every step of a capped run keeps OvershootInv.
LEMMA OvershootStep ==
  ASSUME TokensBounded, IndInv, RoomOK, RoomOK',
         cap \in Caps, knownSpend \in Nat, knownSpend' \in Nat,
         Controller!StopIsWarranted, OvershootInv, [CappedNext]_cappedVars
  PROVE  OvershootInv'
<1> SUFFICES ASSUME Capped'
             PROVE  IF cap' = 0 THEN dispatched' = {}
                                ELSE knownSpend' < cap' + Room' * MaxCharge'
  BY DEF OvershootInv
<1>a. cap' = cap
  BY CappedStepControls DEF Controller!vars
<1>b. Capped /\ cap \in Nat
  BY <1>a, PricesAssumed DEF Capped
<1>c. MaxCharge' = MaxCharge /\ MaxCharge \in Nat
  BY MaxChargeBounds DEF MaxCharge, Controller!ChargeOf, Controller!Priced, Controller!Usage
<1>d. ~stop => knownSpend < cap
  BY <1>b, UnstoppedIsWithin
<1>e. Room \in Nat /\ Room' \in Nat
  BY DEF RoomOK
<1>1. CASE cap = 0
  <2>1. stop /\ dispatched = {}
    BY <1>1, <1>b, <1>d DEF OvershootInv
  <2>2. UNCHANGED dispatched
    BY <2>1, CappedStepGenerates, StepAdmission
  <2> QED
    BY <1>1, <1>a, <2>1, <2>2
<1>2. ASSUME cap # 0, NEW w \in Workers, AnswerObserved(w)
      PROVE  knownSpend' < cap + Room' * MaxCharge
  <2>1. knownSpend < cap + Room * MaxCharge
    BY <1>2, <1>b DEF OvershootInv
  <2>2. Room' = Room + 1
    BY <1>2, AnswerFreesRoom DEF AnswerObserved
  <2>3. knownSpend' <= knownSpend + MaxCharge
    BY <1>2, AnswerCosts
  <2>4. Room' * MaxCharge = Room * MaxCharge + MaxCharge
    BY <1>c, <1>e, <2>2
  <2>5. Room * MaxCharge \in Nat
    BY <1>c, <1>e
  <2> QED
    BY <1>b, <1>c, <2>1, <2>3, <2>4, <2>5
<1>3. ASSUME cap # 0, OtherStep \/ UNCHANGED cappedVars
      PROVE  knownSpend' < cap + Room' * MaxCharge
  <2>1. knownSpend' = knownSpend
    BY <1>3 DEF OtherStep, cappedVars, accounting
  <2>2. Room' * MaxCharge \in Nat
    BY <1>c, <1>e, Times
  <2>3. CASE ~stop
    BY <1>b, <1>d, <2>1, <2>2, <2>3
  <2>4. CASE stop
    <3>1. knownSpend < cap + Room * MaxCharge
      BY <1>3, <1>b DEF OvershootInv
    <3>2. Room' - Room \in Nat
      BY <2>4, CappedStepGenerates, StoppedRoomGrows
    <3>3. Room * MaxCharge <= Room' * MaxCharge /\ Room * MaxCharge \in Nat
      BY <1>c, <1>e, <3>2, Times
    <3> QED
      BY <1>b, <2>1, <2>2, <3>1, <3>3
  <2> QED
    BY <2>3, <2>4
<1> QED
  BY <1>1, <1>2, <1>3, <1>a, <1>c DEF CappedNext

\* docs/book/cost.md (an observed threshold, not a billing cap): for any prices,
\* cap, ramp and number of users, as long as completions report bounded token
\* counts, what was in flight when the cap was reached makes the spend pass it
\* by less than one charge per user of the level; a zero cap sends nothing.
THEOREM Overshoot ==
  ASSUME TokensBounded
  PROVE  CappedSpec => []OvershootBounded
<1> DEFINE Known == cap \in Caps /\ knownSpend \in Nat /\ Controller!StopIsWarranted
<1>1. CappedInit => OvershootInv
  <2> SUFFICES ASSUME CappedInit, Capped, cap # 0 PROVE knownSpend < cap + Room * MaxCharge
    BY DEF CappedInit, Init, OvershootInv
  <2>1. Requesting = {} /\ level = 0 /\ knownSpend = 0 /\ cap \in Nat
    BY PricesAssumed DEF CappedInit, Init, Controller!Init, Requesting, Capped
  <2>2. Room * MaxCharge = 0
    BY <2>1, FS_EmptySet, MaxChargeBounds DEF Room
  <2> QED
    BY <2>1, <2>2
<1>2. /\ IndInv /\ RoomOK /\ Known /\ RoomOK' /\ Known'
      /\ OvershootInv /\ [CappedNext]_cappedVars
      => OvershootInv'
  BY OvershootStep
<1>3. RoomOK /\ Known /\ OvershootInv => OvershootBounded
  <2> SUFFICES ASSUME RoomOK, Known, OvershootInv, Capped, cap # 0
               PROVE  knownSpend < cap + level * MaxCharge
    BY DEF OvershootInv, OvershootBounded
  <2>1. knownSpend < cap + Room * MaxCharge
    BY DEF OvershootInv
  <2>2. /\ cap \in Nat /\ knownSpend \in Nat /\ MaxCharge \in Nat
        /\ Room \in Nat /\ level \in Nat /\ level - Room \in Nat
    BY PricesAssumed, MaxChargeBounds DEF Capped, Room, RoomOK
  <2>3. level * MaxCharge = Room * MaxCharge + (level - Room) * MaxCharge
    BY <2>2
  <2>4. (level - Room) * MaxCharge \in Nat /\ Room * MaxCharge \in Nat
    BY <2>2
  <2> QED
    BY <2>1, <2>2, <2>3, <2>4
<1>4. CappedSpec => []Known
  BY CappedWarranted, PTL
<1> HIDE DEF Known
<1> QED
  BY <1>1, <1>2, <1>3, <1>4, CappedGenerates, Inductive, ServedAlways, RoomIsLeft,
     PTL DEF CappedSpec
=============================================================================
