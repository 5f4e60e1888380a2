------------------------------ MODULE CappedRun ------------------------------
(***************************************************************************)
(* The load generation of `kneepoint run` (cli.py:502-561): run_ramp of    *)
(* LoadGenerator with the ObservedSpendController of SpendController on    *)
(* its completion hook.  The two share the stop event: the controller sets *)
(* it, the generator obeys it.                                             *)
(***************************************************************************)
EXTENDS LoadGenerator, FiniteSetsExt

CONSTANTS Tokens, Unknown, InputPrice, OutputPrice, Caps, NoCap, NotSeen

VARIABLES cap, seen, knownSpend, coverage, stopReason

\* PriceAssumption of SpendController.
ASSUME PricesAssumed ==
  /\ Tokens \subseteq Int
  /\ InputPrice \in Nat
  /\ OutputPrice \in Nat
  /\ Caps \subseteq Nat \cup {NoCap}
  /\ Unknown \notin Int
  /\ NoCap \notin Int

Controller == INSTANCE SpendController WITH Key <- Attempt

\* SeenAssumption of SpendController.
ASSUME NotSeenAssumed == NotSeen \notin Controller!Usage

accounting == <<cap, seen, knownSpend, coverage, stopReason>>
cappedVars == <<vars, accounting>>

\* cli.py hands the controller's own stop event to run_ramp.
CappedInit == Init /\ Controller!Init

\* Mutant: an answer that was not accepted is not charged.
AcceptedAnswersOnly(w) == pc'[w] # "raising" /\ records'[CurrentAttempt(w)] = "ok"

\* on_attempt_complete writes the record and then tells the controller; it
\* raises when the write fails or the controller refuses the record, and
\* nothing is charged then.
ReachesController(w) == pc'[w] # "raising"

AnswerObserved(w) ==
  /\ RequestAnswered(w)
  /\ IF ReachesController(w)
       THEN /\ \E usage \in Controller!Usage : Controller!Charge(CurrentAttempt(w), usage)
            /\ UNCHANGED cap
       ELSE stop' = stop /\ UNCHANGED accounting

\* Nothing else tells the controller anything or sets the event; there is no
\* on_attempt_start that could raise.
OtherStep ==
  /\ Next
  /\ stop' = stop /\ records' = records
  /\ UNCHANGED accounting
  /\ \A w \in Workers : pc[w] = "attempt" => pc'[w] # "raising"

CappedNext == OtherStep \/ \E w \in Workers : AnswerObserved(w)

CappedSpec == CappedInit /\ [][CappedNext]_cappedVars
------------------------------------------------------------------------------
(* Correctness.                                                            *)

Capped == cap # NoCap
MaxCharge == Max({Controller!ChargeOf(u) : u \in Controller!Usage})

\* docs/book/cost.md (an observed threshold, not a billing cap): attempts that
\* were in flight when the cap was reached still charge, so the spend passes
\* the cap, but by less than one charge per user of the running level; a zero
\* cap lets no request out at all.
OvershootBounded ==
  Capped => IF cap = 0 THEN dispatched = {} ELSE knownSpend < cap + level * MaxCharge

\* docs/book/cost.md: a capped run that reports itself completed stayed under
\* its cap and knows what every attempt cost; one the controller stopped never
\* reports completion.
CompletedWithinCap ==
  Capped /\ runStatus = "completed" /\ runPc \in Ended =>
    knownSpend < cap /\ Controller!TotalKnown /\ stopReason = "none"

\* budget.py:75-79: every recorded answer is charged once, retries and failed
\* attempts included, unless telling the controller failed, and then its
\* session failed with it.
EveryAnswerCharged ==
  /\ Controller!Completed \subseteq {a \in Attempt : records[a] # "none"}
  /\ \A a \in Attempt : records[a] # "none" /\ seen[a] = NotSeen =>
       \/ pc[a.worker] = "raising"
       \/ sessions[SessionOf(a)].status = "failed"

\* cost.md (further admission stops): no request is dispatched by a capped run
\* once its observed spend has reached the cap or cannot be known.
DispatchWithinCap ==
  [][dispatched' # dispatched /\ Capped => knownSpend < cap /\ Controller!TotalKnown]_cappedVars
==============================================================================
