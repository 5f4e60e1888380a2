-------------------------- MODULE SpendController --------------------------
(***************************************************************************)
(* kneepoint/analyze/budget.py: ObservedSpendController.  It is told of    *)
(* every completed generator attempt, adds up what the reported usage      *)
(* costs, and requests a cooperative stop once the observed spend reaches  *)
(* the cap or a capped run sees usage it cannot price.                     *)
(*                                                                         *)
(* Money is counted in integer units: the code uses Decimal so that the    *)
(* comparison with the cap is exact.                                       *)
(***************************************************************************)
EXTENDS Integers, FiniteSets, FiniteSetsExt

CONSTANTS
  Key,        \* identities of attempts
  Tokens,     \* the token counts a record can report
  Unknown,    \* a missing token count
  InputPrice, OutputPrice,
  Caps,       \* the values max_spend can have
  NoCap,      \* max_spend is None
  NotSeen     \* no completion with this identity so far

ASSUME PriceAssumption ==
  /\ Tokens \subseteq Int
  /\ InputPrice \in Nat
  /\ OutputPrice \in Nat
  /\ Caps \subseteq Nat \cup {NoCap}
  /\ Unknown \notin Int
  /\ NoCap \notin Int

\* What the controller reads of a RequestRecord.  Two records of one attempt
\* that differ anywhere conflict; here they differ in their usage.
Usage == [input : Tokens \cup {Unknown}, output : Tokens \cup {Unknown}]

ASSUME SeenAssumption == NotSeen \notin Usage

VARIABLES
  cap,         \* max_spend
  seen,        \* the usage charged for each identity
  knownSpend,
  coverage,    \* counts of completed attempts by how much usage they reported
  stopReason,
  stop         \* the asyncio.Event shared with the generator

accounting == <<seen, knownSpend, coverage, stopReason>>
vars == <<cap, accounting, stop>>

StopReasons == {"none", "cap_reached", "unknown_usage"}

TypeOK ==
  /\ cap \in Caps
  /\ seen \in [Key -> Usage \cup {NotSeen}]
  /\ knownSpend \in Nat
  /\ coverage \in [complete : Nat, partial : Nat, missing : Nat,
                   inputKnown : Nat, outputKnown : Nat]
  /\ stopReason \in StopReasons
  /\ stop \in BOOLEAN

\* A zero cap stops the run before its first request.
Init ==
  /\ cap \in Caps
  /\ seen = [k \in Key |-> NotSeen]
  /\ knownSpend = 0
  /\ coverage = [complete |-> 0, partial |-> 0, missing |-> 0,
                 inputKnown |-> 0, outputKnown |-> 0]
  /\ stopReason = IF cap = 0 THEN "cap_reached" ELSE "none"
  /\ stop = (cap = 0)
-----------------------------------------------------------------------------
(* on_attempt_complete.                                                    *)

Priced(tokens, price) == IF tokens = Unknown THEN 0 ELSE tokens * price
ChargeOf(usage) == Priced(usage.input, InputPrice) + Priced(usage.output, OutputPrice)

Known(tokens) == IF tokens = Unknown THEN 0 ELSE 1
KnownCounts(usage) == Known(usage.input) + Known(usage.output)

\* Mutants: the first reason is overwritten; a replay is charged again; equality
\* with the cap goes unnoticed; half-known usage is taken for complete;
\* negative counts are not refused.
ReasonAfterLatest(reason) == reason
IsNewAlways(key) == TRUE
OverCapOnly(spend) == spend > cap
PartialCountsAsKnown(usage) == KnownCounts(usage) >= 1

NegativeUnchecked(tokens) == FALSE

Negative(tokens) == tokens # Unknown /\ tokens < 0
ReasonAfter(reason) == IF stopReason = "none" THEN reason ELSE stopReason
IsNew(key) == seen[key] = NotSeen
ReachesCap(spend) == spend >= cap
FullyKnown(usage) == KnownCounts(usage) = 2

\* Mutant: the reason is kept, the event is not set.
RequestStopUnseen(reason) ==
  /\ stopReason' = ReasonAfter(reason)
  /\ stop' = stop

RequestStop(reason) ==
  /\ stopReason' = ReasonAfter(reason)
  /\ stop' = TRUE

\* The same completion again is ignored.
Replay(key, usage) ==
  /\ ~IsNew(key)
  /\ seen[key] = usage
  /\ UNCHANGED <<accounting, stop>>

\* Another payload for a known identity, or a negative count, raises ValueError
\* before anything is changed.
Reject(key, usage) ==
  /\ IF IsNew(key) THEN Negative(usage.input) \/ Negative(usage.output)
                   ELSE seen[key] # usage
  /\ UNCHANGED <<accounting, stop>>

Charge(key, usage) ==
  /\ IsNew(key)
  /\ ~Negative(usage.input) /\ ~Negative(usage.output)
  /\ seen' = [seen EXCEPT ![key] = usage]
  /\ knownSpend' = knownSpend + ChargeOf(usage)
  /\ coverage' =
       [complete    |-> coverage.complete + (IF KnownCounts(usage) = 2 THEN 1 ELSE 0),
        partial     |-> coverage.partial + (IF KnownCounts(usage) = 1 THEN 1 ELSE 0),
        missing     |-> coverage.missing + (IF KnownCounts(usage) = 0 THEN 1 ELSE 0),
        inputKnown  |-> coverage.inputKnown + Known(usage.input),
        outputKnown |-> coverage.outputKnown + Known(usage.output)]
  /\ \/ /\ cap # NoCap
        /\ ~FullyKnown(usage)
        /\ RequestStop("unknown_usage")
     \/ /\ cap # NoCap
        /\ FullyKnown(usage) /\ ReachesCap(knownSpend')
        /\ RequestStop("cap_reached")
     \/ /\ cap # NoCap
        /\ FullyKnown(usage) /\ ~ReachesCap(knownSpend')
        /\ stopReason' = stopReason /\ stop' = stop
     \/ /\ cap = NoCap
        /\ stopReason' = stopReason /\ stop' = stop

OnAttemptComplete ==
  /\ \E key \in Key, usage \in Usage :
       Replay(key, usage) \/ Reject(key, usage) \/ Charge(key, usage)
  /\ UNCHANGED cap

\* The event is public: the caller may set it for reasons of its own.
CallerStops ==
  /\ ~stop
  /\ stop' = TRUE
  /\ UNCHANGED <<cap, accounting>>

Next == OnAttemptComplete \/ CallerStops

Spec == Init /\ [][Next]_vars
-----------------------------------------------------------------------------
(* snapshot().                                                             *)

TotalKnown == coverage.partial = 0 /\ coverage.missing = 0
Completed == {k \in Key : seen[k] # NotSeen}

-----------------------------------------------------------------------------
(* Correctness.                                                            *)

\* budget.py:75-103: whatever was replayed or refused in between, the spend and
\* the coverage are those of the identities seen, each counted once.
SpendIsOfSeen ==
  /\ knownSpend = MapThenSumSet(LAMBDA k : ChargeOf(seen[k]), Completed)
  /\ coverage.complete + coverage.partial + coverage.missing = Cardinality(Completed)
  /\ coverage.inputKnown = Cardinality({k \in Completed : seen[k].input # Unknown})
  /\ coverage.outputKnown = Cardinality({k \in Completed : seen[k].output # Unknown})
  /\ TotalKnown <=> \A k \in Completed : FullyKnown(seen[k])

\* docs/book/cost.md: a capped run is asked to stop exactly when the observed
\* spend reached the cap or usage was missing, and the reason is one of those
\* that held; without a cap the controller never stops anything.
StopIsWarranted ==
  /\ stopReason # "none" => stop
  /\ cap = NoCap => stopReason = "none"
  /\ cap # NoCap => (stopReason # "none" <=> knownSpend >= cap \/ ~TotalKnown)
  /\ stopReason = "cap_reached" => knownSpend >= cap
  /\ stopReason = "unknown_usage" => ~TotalKnown

\* docs/book/cost.md (`stop_reason` preserves the first controller reason):
\* neither the reason nor stop is ever taken back or replaced, and the cap is
\* given as the reason only by a completion that left no usage unknown.
FirstReasonKept ==
  [][/\ stopReason # "none" => stopReason' = stopReason
     /\ stopReason' # stopReason /\ stopReason' = "cap_reached" => TotalKnown'
     /\ stop => stop'
     /\ knownSpend' >= knownSpend]_vars
=============================================================================
