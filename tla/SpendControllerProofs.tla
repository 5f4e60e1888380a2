----------------------- MODULE SpendControllerProofs -----------------------
(***************************************************************************)
(* What the spend controller promises, for every set of prices, caps and   *)
(* attempts: its type, when it asks for a stop and why, that it never      *)
(* takes the request or the reason back, and that the spend it reports is  *)
(* that of the attempts it has seen, each paid for once.                   *)
(***************************************************************************)
EXTENDS SpendController, FiniteSetTheorems, WellFoundedInduction, TLAPS

\* An accepted completion costs a natural number of units.
LEMMA ChargeType ==
  ASSUME NEW usage \in Usage, ~Negative(usage.input), ~Negative(usage.output)
  PROVE  ChargeOf(usage) \in Nat
<1>1. ASSUME NEW tokens \in Tokens \cup {Unknown}, ~Negative(tokens), NEW price \in Nat
      PROVE  Priced(tokens, price) \in Nat
  <2>1. CASE tokens = Unknown
    BY <2>1 DEF Priced
  <2>2. CASE tokens # Unknown
    <3>1. tokens \in Nat
      BY <1>1, <2>2, PriceAssumption DEF Negative
    <3>2. tokens * price \in Nat
      BY <3>1
    <3> QED BY <2>2, <3>2 DEF Priced
  <2> QED BY <2>1, <2>2
<1>2. usage.input \in Tokens \cup {Unknown} /\ usage.output \in Tokens \cup {Unknown}
  BY DEF Usage
<1>3. Priced(usage.input, InputPrice) \in Nat /\ Priced(usage.output, OutputPrice) \in Nat
  BY <1>1, <1>2, PriceAssumption
<1> QED
  BY <1>3 DEF ChargeOf

\* A record reports two, one or no token counts.
LEMMA KnownType ==
  ASSUME NEW usage
  PROVE  /\ KnownCounts(usage) \in 0..2
         /\ Known(usage.input) \in Nat /\ Known(usage.output) \in Nat
  BY DEF KnownCounts, Known

\* TypeOK is inductive.
LEMMA TypeStep == TypeOK /\ [Next]_vars => TypeOK'
<1> SUFFICES ASSUME TypeOK, [Next]_vars PROVE TypeOK'
  OBVIOUS
<1>1. ASSUME NEW key \in Key, NEW usage \in Usage, Charge(key, usage), cap' = cap
      PROVE  TypeOK'
  <2>1. seen' \in [Key -> Usage \cup {NotSeen}]
    BY <1>1 DEF Charge, TypeOK
  <2>2. knownSpend' \in Nat
    BY <1>1, ChargeType DEF Charge, TypeOK
  <2>3. coverage' \in [complete : Nat, partial : Nat, missing : Nat,
                       inputKnown : Nat, outputKnown : Nat]
    BY <1>1, KnownType DEF Charge, TypeOK
  <2>4. stopReason' \in StopReasons /\ stop' \in BOOLEAN
    BY <1>1 DEF Charge, TypeOK, RequestStop, ReasonAfter, StopReasons
  <2> QED
    BY <1>1, <2>1, <2>2, <2>3, <2>4 DEF TypeOK
<1>2. CASE UNCHANGED <<cap, accounting, stop>>
  BY <1>2 DEF TypeOK, accounting
<1>3. CASE CallerStops
  BY <1>3 DEF TypeOK, accounting, CallerStops
<1>4. CASE OnAttemptComplete
  <2> PICK key \in Key, usage \in Usage :
        Replay(key, usage) \/ Reject(key, usage) \/ Charge(key, usage)
    BY <1>4 DEF OnAttemptComplete
  <2>1. cap' = cap
    BY <1>4 DEF OnAttemptComplete
  <2> QED
    BY <1>1, <1>2, <2>1 DEF Replay, Reject
<1> QED
  BY <1>2, <1>3, <1>4 DEF Next, vars

\* Type correctness of the controller: in particular the known spend never
\* becomes negative (budget.py:89 refuses negative counts).
THEOREM SpendTypeCorrect == Spec => []TypeOK
<1>1. Init => TypeOK
  BY PriceAssumption DEF Init, TypeOK, StopReasons
<1> QED
  BY <1>1, TypeStep, PTL DEF Spec

\* A charge adds to the spend, and the total stays known only if it was known
\* and this completion reported both counts.
LEMMA ChargeEffect ==
  ASSUME TypeOK, NEW key \in Key, NEW usage \in Usage, Charge(key, usage)
  PROVE  /\ knownSpend \in Nat /\ knownSpend' \in Nat /\ knownSpend' >= knownSpend
         /\ TotalKnown' <=> TotalKnown /\ FullyKnown(usage)
<1>1. ChargeOf(usage) \in Nat
  BY ChargeType DEF Charge
<1>2. knownSpend \in Nat /\ knownSpend' = knownSpend + ChargeOf(usage)
  BY DEF Charge, TypeOK
<1>3. coverage.partial \in Nat /\ coverage.missing \in Nat
  BY DEF TypeOK
<1>4. /\ coverage'.partial = coverage.partial + (IF KnownCounts(usage) = 1 THEN 1 ELSE 0)
      /\ coverage'.missing = coverage.missing + (IF KnownCounts(usage) = 0 THEN 1 ELSE 0)
  BY DEF Charge
<1>5. TotalKnown' <=> TotalKnown /\ FullyKnown(usage)
  BY <1>3, <1>4, KnownType DEF TotalKnown, FullyKnown
<1> QED
  BY <1>1, <1>2, <1>5

\* StopIsWarranted is inductive: without a reason, the spend was below the cap
\* and nothing was unknown before the completion that gives one.
LEMMA WarrantedStep == TypeOK /\ StopIsWarranted /\ [Next]_vars => StopIsWarranted'
<1> SUFFICES ASSUME TypeOK, StopIsWarranted, [Next]_vars PROVE StopIsWarranted'
  OBVIOUS
<1> stopReason \in StopReasons /\ stop \in BOOLEAN /\ cap \in Caps
  BY DEF TypeOK
<1>1. ASSUME NEW key \in Key, NEW usage \in Usage, Charge(key, usage), cap' = cap
      PROVE  StopIsWarranted'
  <2>1. /\ knownSpend \in Nat /\ knownSpend' \in Nat /\ knownSpend' >= knownSpend
        /\ TotalKnown' <=> TotalKnown /\ FullyKnown(usage)
    BY <1>1, ChargeEffect
  <2>2. cap # NoCap => cap \in Nat
    BY PriceAssumption
  <2>3. CASE cap # NoCap /\ ~FullyKnown(usage) /\ RequestStop("unknown_usage")
    BY <1>1, <2>1, <2>2, <2>3
       DEF StopIsWarranted, RequestStop, ReasonAfter, StopReasons
  <2>4. CASE /\ cap # NoCap /\ FullyKnown(usage) /\ knownSpend' >= cap
             /\ RequestStop("cap_reached")
    BY <1>1, <2>1, <2>2, <2>4
       DEF StopIsWarranted, RequestStop, ReasonAfter, StopReasons
  <2>5. CASE /\ cap # NoCap /\ FullyKnown(usage) /\ ~(knownSpend' >= cap)
             /\ stopReason' = stopReason /\ stop' = stop
    BY <1>1, <2>1, <2>2, <2>5 DEF StopIsWarranted, StopReasons
  <2>6. CASE cap = NoCap /\ stopReason' = stopReason /\ stop' = stop
    BY <1>1, <2>6 DEF StopIsWarranted, StopReasons
  <2> QED
    BY <1>1, <2>3, <2>4, <2>5, <2>6 DEF Charge, ReachesCap
<1>2. CASE UNCHANGED <<cap, accounting, stop>>
  BY <1>2 DEF StopIsWarranted, TotalKnown, accounting
<1>3. CASE CallerStops
  BY <1>3 DEF StopIsWarranted, TotalKnown, accounting, CallerStops
<1>4. CASE OnAttemptComplete
  <2> PICK key \in Key, usage \in Usage :
        Replay(key, usage) \/ Reject(key, usage) \/ Charge(key, usage)
    BY <1>4 DEF OnAttemptComplete
  <2>1. cap' = cap
    BY <1>4 DEF OnAttemptComplete
  <2> QED
    BY <1>1, <1>2, <2>1 DEF Replay, Reject
<1> QED
  BY <1>2, <1>3, <1>4 DEF Next, vars

\* The controller asks for a stop exactly when a capped run's spend reached the
\* cap or became unknown, and the reason it gives is true (budget.py:105-111).
THEOREM StopWarranted == Spec => []StopIsWarranted
<1>1. Init => StopIsWarranted
  <2> SUFFICES ASSUME Init PROVE StopIsWarranted
    OBVIOUS
  <2>1. cap # NoCap => cap \in Nat
    BY PriceAssumption DEF Init
  <2>2. TotalKnown
    BY DEF Init, TotalKnown
  <2>3. 0 # NoCap
    BY PriceAssumption
  <2>4. knownSpend = 0 /\ (stop <=> cap = 0)
    BY DEF Init
  <2>5. CASE cap = 0
    <3>1. stopReason = "cap_reached"
      BY <2>5 DEF Init
    <3> QED
      BY <2>3, <2>4, <2>5, <3>1 DEF StopIsWarranted
  <2>6. CASE cap # 0
    <3>1. stopReason = "none"
      BY <2>6 DEF Init
    <3> QED
      BY <2>1, <2>2, <2>4, <2>6, <3>1 DEF StopIsWarranted
  <2> QED
    BY <2>5, <2>6
<1> QED
  BY <1>1, WarrantedStep, SpendTypeCorrect, PTL DEF Spec

\* No completion, replay or caller takes the stop or its reason back, and the
\* cap is the reason only when every usage so far was known (budget.py:70-73,
\* 106).
THEOREM ReasonFinal == Spec => FirstReasonKept
<1> DEFINE Kept == /\ stopReason # "none" => stopReason' = stopReason
                   /\ stopReason' # stopReason /\ stopReason' = "cap_reached" => TotalKnown'
                   /\ stop => stop'
                   /\ knownSpend' >= knownSpend
<1>1. ASSUME TypeOK, StopIsWarranted, [Next]_vars
      PROVE  [Kept]_vars
  <2>1. ASSUME NEW key \in Key, NEW usage \in Usage, Charge(key, usage), cap' = cap
        PROVE  Kept
    <3>1. /\ knownSpend' >= knownSpend
          /\ TotalKnown' <=> TotalKnown /\ FullyKnown(usage)
      BY <1>1, <2>1, ChargeEffect
    <3>2. cap # NoCap /\ stopReason = "none" => TotalKnown
      BY <1>1 DEF StopIsWarranted
    <3>3. stop => stop'
      BY <2>1 DEF Charge, RequestStop
    <3>4. stopReason # "none" => stopReason' = stopReason
      BY <2>1 DEF Charge, RequestStop, ReasonAfter
    <3>5. stopReason' # stopReason /\ stopReason' = "cap_reached" =>
            cap # NoCap /\ stopReason = "none" /\ FullyKnown(usage)
      BY <2>1 DEF Charge, RequestStop, ReasonAfter
    <3> QED
      BY <3>1, <3>2, <3>3, <3>4, <3>5
  <2>2. CASE UNCHANGED <<cap, accounting, stop>>
    BY <2>2 DEF vars
  <2>3. CASE CallerStops
    <3>1. knownSpend \in Nat /\ knownSpend' = knownSpend /\ stopReason' = stopReason /\ stop'
      BY <1>1, <2>3 DEF CallerStops, accounting, TypeOK
    <3> QED
      BY <3>1
  <2>4. CASE OnAttemptComplete
    <3> PICK key \in Key, usage \in Usage :
          Replay(key, usage) \/ Reject(key, usage) \/ Charge(key, usage)
      BY <2>4 DEF OnAttemptComplete
    <3>1. cap' = cap
      BY <2>4 DEF OnAttemptComplete
    <3> QED
      BY <2>1, <2>2, <3>1 DEF Replay, Reject
  <2> QED
    BY <1>1, <2>2, <2>3, <2>4 DEF Next, vars
<1>2. TypeOK /\ StopIsWarranted /\ [Next]_vars => [Kept]_vars
  BY <1>1
<1> QED
  BY <1>2, SpendTypeCorrect, StopWarranted, PTL DEF Spec, FirstReasonKept

-----------------------------------------------------------------------------
(* Sums over finite sets.  MapThenSumSet folds a set with a recursive       *)
(* function, whose equation has a solution because sets are finite; and the *)
(* sum is the same whichever element is taken first.                        *)

First(s) == CHOOSE x \in s : TRUE

IsSum(h, g, S) ==
  h = [s \in SUBSET S |-> IF s = {} THEN 0 ELSE ChargeOf(g[First(s)]) + h[s \ {First(s)}]]

Total(g, S) == (CHOOSE h : IsSum(h, g, S))[S]

LEMMA FirstIn ==
  ASSUME NEW s, s # {}
  PROVE  First(s) \in s
BY DEF First

\* A property of subsets that fails, fails at a least subset.
LEMMA Least ==
  ASSUME NEW S, IsFiniteSet(S), NEW B \in SUBSET SUBSET S, B # {}
  PROVE  \E T \in B : \A U \in SUBSET T : U # T => U \notin B
<1>1. FiniteSubsetsOf(S) = SUBSET S
  BY FS_FiniteSubsetsOfFinite
<1>2. IsWellFoundedOn(StrictSubsetOrdering(S), SUBSET S)
  BY <1>1, FS_StrictSubsetOrderingWellFounded
<1>3. PICK T \in B : \A U \in B : ~(<<U, T>> \in StrictSubsetOrdering(S))
  BY <1>2, WFMin
<1>4. ASSUME NEW U \in SUBSET T, U # T, U \in B PROVE FALSE
  <2>1. U \in SUBSET S /\ T \in SUBSET S
    OBVIOUS
  <2>2. <<U, T>> \in StrictSubsetOrdering(S)
    BY <1>4, <2>1 DEF StrictSubsetOrdering
  <2> QED
    BY <1>3, <1>4, <2>2
<1> QED
  BY <1>4

LEMMA SumIs ==
  ASSUME NEW h, NEW g, NEW S, IsSum(h, g, S), NEW s \in SUBSET S
  PROVE  /\ s = {} => h[s] = 0
         /\ s # {} => h[s] = ChargeOf(g[First(s)]) + h[s \ {First(s)}]
BY DEF IsSum

LEMMA SumUnique ==
  ASSUME NEW S, IsFiniteSet(S), NEW g, NEW h, NEW k, IsSum(h, g, S), IsSum(k, g, S)
  PROVE  h[S] = k[S]
<1> DEFINE B == {s \in SUBSET S : h[s] # k[s]}
<1>a. B \in SUBSET SUBSET S /\ \A s \in SUBSET S : s \in B <=> h[s] # k[s]
  OBVIOUS
<1> HIDE DEF B
<1>1. ASSUME B # {} PROVE FALSE
  <2>1. PICK T \in B : \A U \in SUBSET T : U # T => U \notin B
    BY <1>1, <1>a, Least
  <2>2. T \in SUBSET S /\ h[T] # k[T]
    BY <1>a
  <2>3. T # {}
    BY <2>2, SumIs
  <2> DEFINE U == T \ {First(T)}
  <2>4. U \in SUBSET T /\ U # T /\ U \in SUBSET S
    BY <2>2, <2>3, FirstIn
  <2>5. h[U] = k[U]
    BY <1>a, <2>1, <2>4
  <2>6. h[T] = ChargeOf(g[First(T)]) + h[U] /\ k[T] = ChargeOf(g[First(T)]) + k[U]
    BY <2>2, <2>3, SumIs
  <2> QED
    BY <2>2, <2>5, <2>6
<1> QED
  BY <1>a, <1>1

LEMMA SumRestricted ==
  ASSUME NEW S, NEW g, NEW h, IsSum(h, g, S), NEW T \in SUBSET S
  PROVE  IsSum([s \in SUBSET T |-> h[s]], g, T)
<1> DEFINE k == [s \in SUBSET T |-> h[s]]
<1>1. ASSUME NEW s \in SUBSET T
      PROVE  h[s] = IF s = {} THEN 0 ELSE ChargeOf(g[First(s)]) + k[s \ {First(s)}]
  <2>1. s \ {First(s)} \in SUBSET T /\ s \in SUBSET S
    OBVIOUS
  <2>2. k[s \ {First(s)}] = h[s \ {First(s)}]
    BY <2>1
  <2> HIDE DEF k
  <2> QED
    BY <2>1, <2>2, SumIs
<1>2. k = [s \in SUBSET T |-> IF s = {} THEN 0 ELSE ChargeOf(g[First(s)]) + k[s \ {First(s)}]]
  BY <1>1
<1> QED
  BY <1>2 DEF IsSum

LEMMA TotalOf ==
  ASSUME NEW S, IsFiniteSet(S), NEW g, NEW h, IsSum(h, g, S)
  PROVE  Total(g, S) = h[S]
<1>1. IsSum(CHOOSE k : IsSum(k, g, S), g, S)
  OBVIOUS
<1> QED
  BY <1>1, SumUnique DEF Total

LEMMA TotalOfPart ==
  ASSUME NEW S, IsFiniteSet(S), NEW g, NEW h, IsSum(h, g, S), NEW T \in SUBSET S
  PROVE  Total(g, T) = h[T]
<1> DEFINE k == [s \in SUBSET T |-> h[s]]
<1>1. IsSum(k, g, T)
  BY SumRestricted
<1>2. IsFiniteSet(T)
  BY FS_Subset
<1>3. k[T] = h[T]
  OBVIOUS
<1> HIDE DEF k
<1>4. Total(g, T) = k[T]
  BY <1>1, <1>2, TotalOf
<1> QED
  BY <1>3, <1>4

\* Of a least set without a sum every smaller one has its own; together they
\* are one for the set.
LEMMA SumExists ==
  ASSUME NEW S, IsFiniteSet(S), NEW g
  PROVE  \E h : IsSum(h, g, S)
<1> DEFINE B == {s \in SUBSET S : ~\E h : IsSum(h, g, s)}
<1>a. B \in SUBSET SUBSET S /\ \A s \in SUBSET S : s \in B <=> ~\E h : IsSum(h, g, s)
  OBVIOUS
<1> HIDE DEF B
<1>1. ASSUME B # {} PROVE FALSE
  <2>1. PICK T \in B : \A U \in SUBSET T : U # T => U \notin B
    BY <1>1, <1>a, Least
  <2>2. T \in SUBSET S /\ ~\E h : IsSum(h, g, T)
    BY <1>a
  <2> DEFINE h == [s \in SUBSET T |->
                     IF s = {} THEN 0 ELSE ChargeOf(g[First(s)]) + Total(g, s \ {First(s)})]
  <2>3. ASSUME NEW s \in SUBSET T, s # {} PROVE h[s \ {First(s)}] = Total(g, s \ {First(s)})
    <3> DEFINE U == s \ {First(s)}
    <3>1. U \in SUBSET T /\ U # T /\ U \in SUBSET S
      BY <2>2, <2>3, FirstIn
    <3>2. PICK k : IsSum(k, g, U)
      BY <1>a, <2>1, <3>1
    <3>3. IsFiniteSet(U)
      BY <3>1, FS_Subset
    <3>4. Total(g, U) = k[U]
      BY <3>2, <3>3, TotalOf
    <3>5. /\ U = {} => k[U] = 0
          /\ U # {} => k[U] = ChargeOf(g[First(U)]) + k[U \ {First(U)}]
      <4> HIDE DEF U
      <4>1. U \in SUBSET U
        OBVIOUS
      <4> QED
        BY <3>2, <4>1, SumIs
    <3>6. ASSUME U # {} PROVE Total(g, U \ {First(U)}) = k[U \ {First(U)}]
      <4> DEFINE V == U \ {First(U)}
      <4>1. V \in SUBSET U
        OBVIOUS
      <4> HIDE DEF U, V
      <4>2. Total(g, V) = k[V]
        BY <3>2, <3>3, <4>1, TotalOfPart
      <4> QED
        BY <4>2 DEF V
    <3>7. h[U] = IF U = {} THEN 0 ELSE ChargeOf(g[First(U)]) + Total(g, U \ {First(U)})
      BY <3>1
    <3> QED
      BY <3>4, <3>5, <3>6, <3>7
  <2>4. h = [s \in SUBSET T |-> IF s = {} THEN 0 ELSE ChargeOf(g[First(s)]) + h[s \ {First(s)}]]
    <3>1. ASSUME NEW s \in SUBSET T
          PROVE  h[s] = IF s = {} THEN 0 ELSE ChargeOf(g[First(s)]) + h[s \ {First(s)}]
      BY <2>3
    <3> QED
      BY <3>1
  <2>5. IsSum(h, g, T)
    BY <2>4 DEF IsSum
  <2> QED
    BY <2>2, <2>5
<1>2. S \notin B
  BY <1>1
<1> QED
  BY <1>a, <1>2

LEMMA TotalFirst ==
  ASSUME NEW S, IsFiniteSet(S), NEW g
  PROVE  /\ S = {} => Total(g, S) = 0
         /\ S # {} => Total(g, S) = ChargeOf(g[First(S)]) + Total(g, S \ {First(S)})
<1>1. PICK h : IsSum(h, g, S)
  BY SumExists
<1>2. Total(g, S) = h[S]
  BY <1>1, TotalOf
<1>3. /\ S = {} => h[S] = 0
      /\ S # {} => h[S] = ChargeOf(g[First(S)]) + h[S \ {First(S)}]
  BY <1>1, SumIs
<1> DEFINE V == S \ {First(S)}
<1>4. V \in SUBSET S
  OBVIOUS
<1> HIDE DEF V
<1>5. Total(g, V) = h[V]
  BY <1>1, <1>4, TotalOfPart
<1> QED
  BY <1>2, <1>3, <1>5 DEF V

\* The sum, taken apart at any of the elements.
LEMMA TotalWithout ==
  ASSUME NEW S, IsFiniteSet(S), NEW g, \A x \in S : ChargeOf(g[x]) \in Nat
  PROVE  /\ Total(g, S) \in Nat
         /\ \A x \in S : Total(g, S) = ChargeOf(g[x]) + Total(g, S \ {x})
<1> DEFINE OK(s) == Total(g, s) \in Nat /\ \A x \in s : Total(g, s) = ChargeOf(g[x]) + Total(g, s \ {x})
           B == {s \in SUBSET S : ~OK(s)}
<1>a. B \in SUBSET SUBSET S /\ \A s \in SUBSET S : s \in B <=> ~OK(s)
  OBVIOUS
<1> HIDE DEF B
<1>1. ASSUME B # {} PROVE FALSE
  <2>1. PICK T \in B : \A U \in SUBSET T : U # T => U \notin B
    BY <1>1, <1>a, Least
  <2>2. T \in SUBSET S /\ ~OK(T) /\ IsFiniteSet(T)
    BY <1>a, FS_Subset
  <2>3. \A U \in SUBSET T : U # T => OK(U)
    BY <1>a, <2>1, <2>2
  <2>4. CASE T = {}
    <3>1. Total(g, T) = 0
      BY <2>2, <2>4, TotalFirst
    <3> QED
      BY <2>2, <2>4, <3>1
  <2>5. CASE T # {}
    <3> DEFINE y == First(T)
               U == T \ {y}
    <3>1. y \in T /\ U \in SUBSET T /\ U # T /\ ChargeOf(g[y]) \in Nat
      BY <2>2, <2>5, FirstIn
    <3>2. OK(U)
      BY <2>3, <3>1
    <3>3. Total(g, T) = ChargeOf(g[y]) + Total(g, U)
      BY <2>2, <2>5, TotalFirst
    <3> HIDE DEF y
    <3>4. Total(g, T) \in Nat
      BY <3>1, <3>2, <3>3
    <3>5. ASSUME NEW x \in T, x # y PROVE Total(g, T) = ChargeOf(g[x]) + Total(g, T \ {x})
      <4> DEFINE V == T \ {x}
                 W == U \ {x}
      <4>1. V \in SUBSET T /\ V # T /\ x \in U /\ y \in V /\ V \ {y} = W
        BY <3>1, <3>5
      <4>2. Total(g, U) = ChargeOf(g[x]) + Total(g, W)
        BY <3>2, <4>1
      <4>3. OK(V)
        BY <2>3, <4>1
      <4>4. Total(g, V) = ChargeOf(g[y]) + Total(g, W)
        BY <4>1, <4>3
      <4>5. W \in SUBSET T /\ W # T
        BY <3>5, <4>1
      <4>6. OK(W)
        BY <2>3, <4>5
      <4>7. ChargeOf(g[x]) \in Nat /\ ChargeOf(g[y]) \in Nat /\ Total(g, W) \in Nat
        BY <2>2, <3>1, <4>6
      <4>8. V = T \ {x}
        OBVIOUS
      <4> HIDE DEF U, V, W
      <4> QED
        BY <3>3, <4>2, <4>4, <4>7, <4>8
    <3>6. \A x \in T : Total(g, T) = ChargeOf(g[x]) + Total(g, T \ {x})
      BY <3>3, <3>5
    <3> QED
      BY <2>2, <3>4, <3>6
  <2> QED
    BY <2>4, <2>5
<1>2. S \in SUBSET S
  OBVIOUS
<1>3. OK(S)
  BY <1>a, <1>1, <1>2
<1> QED
  BY <1>3

LEMMA TotalSame ==
  ASSUME NEW S, IsFiniteSet(S), NEW g, NEW k, \A x \in S : k[x] = g[x]
  PROVE  Total(g, S) = Total(k, S)
<1>1. PICK h : IsSum(h, g, S)
  BY SumExists
<1>2. ASSUME NEW s \in SUBSET S
      PROVE  h[s] = IF s = {} THEN 0 ELSE ChargeOf(k[First(s)]) + h[s \ {First(s)}]
  <2>1. s # {} => First(s) \in S
    BY FirstIn
  <2>2. s # {} => ChargeOf(g[First(s)]) = ChargeOf(k[First(s)])
    BY <2>1
  <2>3. /\ s = {} => h[s] = 0
        /\ s # {} => h[s] = ChargeOf(g[First(s)]) + h[s \ {First(s)}]
    BY <1>1, SumIs
  <2> QED
    BY <2>2, <2>3
<1>3. h = [s \in SUBSET S |-> h[s]]
  BY <1>1 DEF IsSum
<1>4. h = [s \in SUBSET S |-> IF s = {} THEN 0 ELSE ChargeOf(k[First(s)]) + h[s \ {First(s)}]]
  BY <1>2, <1>3
<1>5. IsSum(h, k, S)
  BY <1>4 DEF IsSum
<1> QED
  BY <1>1, <1>5, TotalOf

\* Total is what the property adds up.
LEMMA TotalIsSum ==
  ASSUME NEW S, NEW g
  PROVE  MapThenSumSet(LAMBDA k : ChargeOf(g[k]), S) = Total(g, S)
BY DEF MapThenSumSet, MapThenFoldSet, Total, IsSum, First

-----------------------------------------------------------------------------
\* The identities seen are finitely many, each with a usage that could be
\* priced; they are counted and paid for once each.
Usable(usage) == ~Negative(usage.input) /\ ~Negative(usage.output)

Counted ==
  /\ IsFiniteSet(Completed)
  /\ \A k \in Completed : Usable(seen[k])
  /\ knownSpend = Total(seen, Completed)
  /\ coverage.complete + coverage.partial + coverage.missing = Cardinality(Completed)
  /\ coverage.inputKnown = Cardinality({k \in Completed : seen[k].input # Unknown})
  /\ coverage.outputKnown = Cardinality({k \in Completed : seen[k].output # Unknown})
  /\ TotalKnown <=> \A k \in Completed : FullyKnown(seen[k])

\* What a charge does to the identities seen.
LEMMA ChargeSees ==
  ASSUME TypeOK, NEW key \in Key, NEW usage \in Usage, Charge(key, usage)
  PROVE  /\ key \notin Completed /\ Completed' = Completed \cup {key}
         /\ seen'[key] = usage /\ \A k \in Completed : seen'[k] = seen[k]
<1>1. /\ seen \in [Key -> Usage \cup {NotSeen}] /\ seen[key] = NotSeen
      /\ seen' = [seen EXCEPT ![key] = usage]
  BY DEF Charge, IsNew, TypeOK
<1>2. \A k \in Key : seen'[k] = IF k = key THEN usage ELSE seen[k]
  BY <1>1
<1>3. usage # NotSeen
  BY SeenAssumption
<1> QED
  BY <1>1, <1>2, <1>3 DEF Completed

\* How many of a finite set have a property, after one element is added.
LEMMA OneMore ==
  ASSUME NEW S, IsFiniteSet(S), NEW e, e \notin S, NEW A, NEW B,
         A \subseteq S, B = A \/ B = A \cup {e}
  PROVE  /\ Cardinality(A) \in Nat
         /\ Cardinality(B) = Cardinality(A) + IF B = A THEN 0 ELSE 1
<1>1. IsFiniteSet(A) /\ e \notin A
  BY FS_Subset
<1> QED
  BY <1>1, FS_AddElement, FS_CardinalityType

LEMMA CountedCharge ==
  ASSUME TypeOK, Counted, NEW key \in Key, NEW usage \in Usage, Charge(key, usage)
  PROVE  Counted'
<1>1. /\ key \notin Completed /\ Completed' = Completed \cup {key}
      /\ seen'[key] = usage /\ \A k \in Completed : seen'[k] = seen[k]
  BY ChargeSees
<1>2. IsFiniteSet(Completed) /\ IsFiniteSet(Completed')
  BY <1>1, FS_AddElement DEF Counted
<1>3. \A k \in Completed' : Usable(seen'[k])
  BY <1>1 DEF Counted, Charge, Usable
<1>4. seen' \in [Key -> Usage \cup {NotSeen}] /\ Completed' \subseteq Key
  <2>1. seen' \in [Key -> Usage \cup {NotSeen}]
    BY DEF Charge, TypeOK
  <2> QED
    BY <2>1 DEF Completed
<1>5. \A k \in Completed' : seen'[k] \in Usage /\ ChargeOf(seen'[k]) \in Nat
  <2> SUFFICES ASSUME NEW k \in Completed' PROVE seen'[k] \in Usage /\ ChargeOf(seen'[k]) \in Nat
    OBVIOUS
  <2>1. seen'[k] \in Usage
    BY <1>4 DEF Completed
  <2>2. ChargeOf(seen'[k]) \in Nat
    BY <1>3, <2>1, ChargeType DEF Usable
  <2> QED
    BY <2>1, <2>2
<1>6. knownSpend' = Total(seen', Completed')
  <2>1. Total(seen', Completed') = ChargeOf(seen'[key]) + Total(seen', Completed' \ {key})
    BY <1>1, <1>2, <1>5, TotalWithout
  <2>2. Completed' \ {key} = Completed
    BY <1>1
  <2>3. Total(seen', Completed) = Total(seen, Completed)
    BY <1>1, <1>2, TotalSame
  <2>4. knownSpend' = knownSpend + ChargeOf(usage) /\ knownSpend \in Nat /\ ChargeOf(usage) \in Nat
    BY ChargeType DEF Charge, TypeOK
  <2>5. knownSpend = Total(seen, Completed)
    BY DEF Counted
  <2>6. Total(seen', Completed') = ChargeOf(usage) + Total(seen', Completed)
    BY <1>1, <2>1, <2>2
  <2>7. Total(seen', Completed') = ChargeOf(usage) + knownSpend
    BY <2>3, <2>5, <2>6
  <2> QED
    BY <2>4, <2>7
<1>7. coverage \in [complete : Nat, partial : Nat, missing : Nat, inputKnown : Nat, outputKnown : Nat]
  BY DEF TypeOK
<1>8. /\ coverage'.complete = coverage.complete + (IF KnownCounts(usage) = 2 THEN 1 ELSE 0)
      /\ coverage'.partial = coverage.partial + (IF KnownCounts(usage) = 1 THEN 1 ELSE 0)
      /\ coverage'.missing = coverage.missing + (IF KnownCounts(usage) = 0 THEN 1 ELSE 0)
      /\ coverage'.inputKnown = coverage.inputKnown + Known(usage.input)
      /\ coverage'.outputKnown = coverage.outputKnown + Known(usage.output)
  BY DEF Charge
<1>9. coverage'.complete + coverage'.partial + coverage'.missing = Cardinality(Completed')
  <2>1. Cardinality(Completed') = Cardinality(Completed) + 1
    BY <1>1, <1>2, FS_AddElement
  <2>2. coverage'.complete + coverage'.partial + coverage'.missing
          = coverage.complete + coverage.partial + coverage.missing + 1
    BY <1>7, <1>8, KnownType
  <2>3. coverage.complete + coverage.partial + coverage.missing = Cardinality(Completed)
    BY DEF Counted
  <2> QED
    BY <2>1, <2>2, <2>3
<1>10. coverage'.inputKnown = Cardinality({k \in Completed' : seen'[k].input # Unknown})
  <2> DEFINE A == {k \in Completed : seen[k].input # Unknown}
             B == {k \in Completed' : seen'[k].input # Unknown}
  <2>1. A \subseteq Completed /\ B = IF usage.input = Unknown THEN A ELSE A \cup {key}
    BY <1>1
  <2>2. coverage.inputKnown = Cardinality(A) /\ key \notin A
    BY <1>1 DEF Counted
  <2> HIDE DEF A, B
  <2>3. /\ Cardinality(A) \in Nat
        /\ Cardinality(B) = Cardinality(A) + IF B = A THEN 0 ELSE 1
    BY <1>1, <1>2, <2>1, OneMore
  <2>4. Cardinality(B) = coverage'.inputKnown
    BY <1>8, <2>1, <2>2, <2>3 DEF Known
  <2> QED
    BY <2>4 DEF B
<1>11. coverage'.outputKnown = Cardinality({k \in Completed' : seen'[k].output # Unknown})
  <2> DEFINE A == {k \in Completed : seen[k].output # Unknown}
             B == {k \in Completed' : seen'[k].output # Unknown}
  <2>1. A \subseteq Completed /\ B = IF usage.output = Unknown THEN A ELSE A \cup {key}
    BY <1>1
  <2>2. coverage.outputKnown = Cardinality(A) /\ key \notin A
    BY <1>1 DEF Counted
  <2> HIDE DEF A, B
  <2>3. /\ Cardinality(A) \in Nat
        /\ Cardinality(B) = Cardinality(A) + IF B = A THEN 0 ELSE 1
    BY <1>1, <1>2, <2>1, OneMore
  <2>4. Cardinality(B) = coverage'.outputKnown
    BY <1>8, <2>1, <2>2, <2>3 DEF Known
  <2> QED
    BY <2>4 DEF B
<1>12. TotalKnown' <=> \A k \in Completed' : FullyKnown(seen'[k])
  <2>1. TotalKnown' <=> TotalKnown /\ FullyKnown(usage)
    BY ChargeEffect
  <2>2. TotalKnown <=> \A k \in Completed : FullyKnown(seen[k])
    BY DEF Counted
  <2> QED
    BY <1>1, <2>1, <2>2
<1> QED
  BY <1>2, <1>3, <1>6, <1>9, <1>10, <1>11, <1>12 DEF Counted

LEMMA CountedStep == TypeOK /\ Counted /\ [Next]_vars => Counted'
<1> SUFFICES ASSUME TypeOK, Counted, [Next]_vars PROVE Counted'
  OBVIOUS
<1>1. CASE UNCHANGED accounting
  BY <1>1 DEF Counted, Completed, TotalKnown, accounting
<1>2. CASE OnAttemptComplete
  <2> PICK key \in Key, usage \in Usage :
        Replay(key, usage) \/ Reject(key, usage) \/ Charge(key, usage)
    BY <1>2 DEF OnAttemptComplete
  <2> QED
    BY <1>1, CountedCharge DEF Replay, Reject
<1> QED
  BY <1>1, <1>2 DEF Next, vars, CallerStops

LEMMA CountedInit == Init => Counted
<1> SUFFICES ASSUME Init PROVE Counted
  OBVIOUS
<1>1. Completed = {}
  BY DEF Init, Completed
<1>2. IsFiniteSet({}) /\ Cardinality({}) = 0
  BY FS_EmptySet
<1>3. Total(seen, {}) = 0
  BY <1>2, TotalFirst
<1>4. /\ {k \in Completed : seen[k].input # Unknown} = {}
      /\ {k \in Completed : seen[k].output # Unknown} = {}
  BY <1>1
<1> QED
  BY <1>1, <1>2, <1>3, <1>4 DEF Init, Counted, TotalKnown

\* However attempts are repeated or refused, the spend and the coverage are
\* those of the identities seen, each counted once (budget.py:75-103).
THEOREM SpendCounted == Spec => []SpendIsOfSeen
<1>1. Counted => SpendIsOfSeen
  <2> SUFFICES ASSUME Counted PROVE SpendIsOfSeen
    OBVIOUS
  <2>1. knownSpend = MapThenSumSet(LAMBDA k : ChargeOf(seen[k]), Completed)
    BY TotalIsSum DEF Counted
  <2> QED
    BY <2>1 DEF Counted, SpendIsOfSeen
<1> QED
  BY <1>1, CountedInit, CountedStep, SpendTypeCorrect, PTL DEF Spec
====
