------------------------- MODULE LanternDeskProofs -------------------------
(***************************************************************************)
(* For any number of requests, slots, workers and any rate: no slot of the *)
(* agent's pools is lost, made or withheld, whatever is cancelled and when *)
(* (SlotsAccounted), the rate limiter neither lets two fetches go on too   *)
(* close to each other nor loses one of its slots on a call that was       *)
(* cancelled (FetchesKeepTheirRate), and the statistics agree with what    *)
(* each request was answered (StatsExplainAnswers).                        *)
(***************************************************************************)
EXTENDS LanternDesk, FiniteSetTheorems, TLAPS

TypeOK ==
  /\ req \in [Requests -> RequestType]
  /\ free \in [Pools -> Nat]
  /\ inFlight \in [Kinds -> Int]

\* A request that has not started is nowhere; only a fetch gets a document.
StagesOK == \A r \in Requests :
  /\ req[r].stage = "new" => req[r].at = "none"
  /\ req[r].at = "get" => req[r].stage = "fetch"

PoolOK(p) ==
  /\ free[p] + Cardinality(Holders(p)) = Capacity[p]
  /\ free[p] > 0 /\ Waiters(p) # {} => In(p, {"granted"}) # {}

GaugesOK ==
  /\ inFlight["model"] = Cardinality(In("model", {"serve"}))
  /\ inFlight["search"] = Cardinality(In("search", {"serve"}))
  /\ inFlight["fetch"] = Cardinality(In("limiter", {"get"}))

PoolsOK == \A p \in Pools : PoolOK(p)

LimiterOK == delay \in Nat /\ since \in Nat /\ since <= Interval /\ delay = Interval - since

SlotInv == TypeOK /\ StagesOK /\ PoolsOK /\ GaugesOK

-----------------------------------------------------------------------------
(* Sets of requests *)

LEMMA InFinite ==
  ASSUME NEW p, NEW ats
  PROVE  IsFiniteSet(In(p, ats)) /\ Cardinality(In(p, ats)) \in Nat
<1>1. In(p, ats) \in SUBSET Requests
  BY DEF In
<1> QED
  BY <1>1, RequestsAssumption, FS_Subset, FS_CardinalityType

LEMMA PoolsOfStages ==
  ASSUME NEW r \in Requests
  PROVE  PoolOf(req[r].stage) \in Pools /\ KindOf(req[r].stage) \in Kinds
BY DEF PoolOf, KindOf, Pools, Kinds

\* What becomes of the requests when one of them moves.
LEMMA OneMoves ==
  ASSUME TypeOK, NEW r \in Requests, NEW new, req' = [req EXCEPT ![r] = new]
  PROVE  \A s \in Requests : req'[s] = IF s = r THEN new ELSE req[s]
BY DEF TypeOK

LEMMA OneMovesType ==
  ASSUME TypeOK, NEW r \in Requests, NEW new \in RequestType,
         req' = [req EXCEPT ![r] = new]
  PROVE  /\ req' \in [Requests -> RequestType]
         /\ req'[r] = new /\ \A s \in Requests \ {r} : req'[s] = req[s]
BY DEF TypeOK

\* What a step that also wakes w does to each request.
WokenWith(r, new, w) ==
  \A s \in Requests :
    /\ req'[s].at = IF s = w THEN "granted" ELSE IF s = r THEN new.at ELSE req[s].at
    /\ req'[s].stage = IF s = r THEN new.stage ELSE req[s].stage

-----------------------------------------------------------------------------
(* Slots handed on *)

\* r goes on from where it holds a slot of p, having given it back or begun.
Moves(p, r, new, value) ==
  /\ PoolOf(req[r].stage) = p
  /\ \/ /\ req[r].at = "granted" /\ new.at = "serve" /\ PoolOf(new.stage) = p
        /\ value = free[p]
     \/ /\ req[r].at \in {"granted", "serve"} /\ new.at \in {"none", "enter", "get"}
        /\ value = free[p] + 1

\* Nobody is woken.
LEMMA WakesNobody ==
  ASSUME TypeOK, PoolsOK, NEW p \in Pools, NEW r \in Requests, NEW new \in RequestType,
         NEW value \in Nat, Moves(p, r, new, value),
         value = 0 \/ Waiters(p) = {},
         req' = [req EXCEPT ![r] = new], free' = [free EXCEPT ![p] = value]
  PROVE  PoolsOK'
<1> SUFFICES ASSUME NEW q \in Pools PROVE PoolOK(q)'
  BY DEF PoolsOK
<1>1. PoolOK(q)
  BY DEF PoolsOK
<1>2. free[p] \in Nat /\ free' \in [Pools -> Nat]
      /\ free'[q] = IF q = p THEN value ELSE free[q]
  BY DEF TypeOK
<1>0. \A s \in Requests : req'[s] = IF s = r THEN new ELSE req[s]
  BY OneMoves
<1>3. Holders(q)' = IF new.at = "serve" /\ PoolOf(new.stage) = q
                    THEN Holders(q) \cup {r} ELSE Holders(q) \ {r}
  BY <1>0 DEF Holders, In, Moves
<1>4. Waiters(q)' = Waiters(q) \ {r}
  BY <1>0 DEF Waiters, In, Moves
<1>5. In(q, {"granted"})' = In(q, {"granted"}) \ {r}
  BY <1>0 DEF In, Moves
<1>6. r \in Holders(q) <=> q = p
  BY DEF Moves, Holders, In
<1>7. r \notin Waiters(q) /\ (r \in In(q, {"granted"}) => q = p)
  BY DEF Moves, Waiters, In
<1>8. IsFiniteSet(Holders(q)) /\ Cardinality(Holders(q)) \in Nat
  BY InFinite DEF Holders
<1>9. CASE q # p
  <2>1. Holders(q)' = Holders(q)
    BY <1>3, <1>6, <1>9 DEF Moves
  <2> QED
    BY <1>1, <1>2, <1>4, <1>5, <1>7, <1>9, <2>1 DEF PoolOK, Capacity
<1>10. CASE q = p /\ new.at = "serve"
  <2>1. Holders(q)' = Holders(q)
    BY <1>3, <1>6, <1>10 DEF Moves
  <2>2. value = free[p]
    BY <1>10 DEF Moves
  <2>3. (free[q] + Cardinality(Holders(q)) = Capacity[q])'
    BY <1>1, <1>2, <1>10, <2>1, <2>2 DEF PoolOK, Capacity
  <2>4. free'[q] = 0 \/ Waiters(q)' = {}
    BY <1>2, <1>4, <1>10
  <2> QED
    BY <2>3, <2>4 DEF PoolOK
<1>11. CASE q = p /\ new.at # "serve"
  <2>1. Cardinality(Holders(q)') = Cardinality(Holders(q)) - 1
    BY <1>3, <1>6, <1>8, <1>11, FS_RemoveElement
  <2>2. value = free[p] + 1
    BY <1>11 DEF Moves
  <2>3. (free[q] + Cardinality(Holders(q)) = Capacity[q])'
    BY <1>1, <1>2, <1>8, <1>11, <2>1, <2>2 DEF PoolOK, Capacity
  <2>4. free'[q] = 0 \/ Waiters(q)' = {}
    BY <1>2, <1>4, <1>11
  <2> QED
    BY <2>3, <2>4 DEF PoolOK
<1> QED
  BY <1>9, <1>10, <1>11

\* The first in the deque is.
LEMMA WakesOne ==
  ASSUME TypeOK, PoolsOK, NEW p \in Pools, NEW r \in Requests, NEW new \in RequestType,
         NEW value \in Nat, Moves(p, r, new, value),
         value > 0, NEW w \in Waiters(p),
         WokenWith(r, new, w), free' = [free EXCEPT ![p] = value - 1]
  PROVE  PoolsOK'
<1> SUFFICES ASSUME NEW q \in Pools PROVE PoolOK(q)'
  BY DEF PoolsOK
<1>1. PoolOK(q)
  BY DEF PoolsOK
<1>2. free[p] \in Nat /\ free'[q] = IF q = p THEN value - 1 ELSE free[q]
  BY DEF TypeOK
<1>3. w \in Requests /\ req[w].at = "wait" /\ PoolOf(req[w].stage) = p /\ w # r
  BY DEF Waiters, In, Moves
<1>4. ASSUME p = q, new.at = "serve"
      PROVE  Holders(q)' = Holders(q) \cup {w}
  BY <1>3, <1>4 DEF WokenWith, Holders, In, Moves
<1>41. ASSUME p = q, new.at # "serve"
       PROVE  Holders(q)' = (Holders(q) \ {r}) \cup {w}
  BY <1>3, <1>41 DEF WokenWith, Holders, In, Moves
<1>5. ASSUME p # q
      PROVE  /\ Holders(q)' = Holders(q) /\ Waiters(q)' = Waiters(q)
             /\ In(q, {"granted"})' = In(q, {"granted"})
  <2>1. \A s \in Requests : PoolOf(req[s].stage) = q =>
          s # r /\ s # w /\ req'[s].at = req[s].at /\ req'[s].stage = req[s].stage
    BY <1>3, <1>5 DEF WokenWith, Moves
  <2>2. \A s \in Requests : PoolOf(req'[s].stage) = q /\ PoolOf(req[s].stage) # q =>
          s = r /\ req'[s].at \in {"none", "enter", "get"}
    BY <1>3, <1>5 DEF WokenWith, Moves
  <2> QED
    BY <2>1, <2>2 DEF Holders, Waiters, In
<1>6. p = q => w \in In(q, {"granted"})'
  BY <1>3 DEF WokenWith, In
<1>7. /\ r \in Holders(q) <=> q = p
      /\ w \notin Holders(q)
      /\ q # p => r \notin Waiters(q) /\ w \notin Waiters(q) /\ r \notin In(q, {"granted"})
                  /\ w \notin In(q, {"granted"})
  BY <1>3 DEF Moves, Holders, Waiters, In
<1>8. IsFiniteSet(Holders(q)) /\ Cardinality(Holders(q)) \in Nat
  BY InFinite DEF Holders
<1>9. CASE q # p
  BY <1>1, <1>2, <1>5, <1>9 DEF PoolOK, Capacity
<1>10. CASE q = p /\ new.at = "serve"
  <2>1. Holders(q)' = Holders(q) \cup {w}
    BY <1>4, <1>7, <1>10 DEF Moves
  <2>2. Cardinality(Holders(q)') = Cardinality(Holders(q)) + 1
    <3>1. Cardinality(Holders(q) \cup {w}) = Cardinality(Holders(q)) + 1
      BY <1>7, <1>8, FS_AddElement
    <3> QED
      BY <2>1, <3>1
  <2>3. value = free[p]
    BY <1>10 DEF Moves
  <2>4. (free[q] + Cardinality(Holders(q)) = Capacity[q])'
    BY <1>1, <1>2, <1>8, <1>10, <2>2, <2>3 DEF PoolOK, Capacity
  <2> QED
    BY <1>6, <1>10, <2>4 DEF PoolOK
<1>11. CASE q = p /\ new.at # "serve"
  <2>1. Holders(q)' = (Holders(q) \ {r}) \cup {w}
    BY <1>41, <1>11
  <2>2. /\ IsFiniteSet(Holders(q) \ {r})
        /\ Cardinality(Holders(q) \ {r}) = Cardinality(Holders(q)) - 1
    BY <1>7, <1>8, <1>11, FS_RemoveElement
  <2>3. Cardinality(Holders(q)') = Cardinality(Holders(q) \ {r}) + 1
    BY <1>7, <2>1, <2>2, FS_AddElement
  <2>4. value = free[p] + 1
    BY <1>11 DEF Moves
  <2>5. (free[q] + Cardinality(Holders(q)) = Capacity[q])'
    BY <1>1, <1>2, <1>8, <1>11, <2>2, <2>3, <2>4 DEF PoolOK, Capacity
  <2> QED
    BY <1>6, <1>11, <2>5 DEF PoolOK
<1> QED
  BY <1>9, <1>10, <1>11

-----------------------------------------------------------------------------
(* A step of one request, whoever it wakes *)

MovesTo(r, new) ==
  \A s \in Requests :
    IF s = r THEN req'[s].at = new.at /\ req'[s].stage = new.stage
    ELSE /\ req'[s].stage = req[s].stage
         /\ req'[s].at = req[s].at \/ (req[s].at = "wait" /\ req'[s].at = "granted")

LEMMA WakeKeeps ==
  ASSUME TypeOK, PoolsOK, NEW p \in Pools, NEW r \in Requests, NEW new \in RequestType,
         NEW value \in Nat, Moves(p, r, new, value), Wake(p, r, new, value)
  PROVE  /\ PoolsOK' /\ MovesTo(r, new)
         /\ req' \in [Requests -> RequestType] /\ free' \in [Pools -> Nat]
<1>1. CASE /\ value = 0 \/ Waiters(p) = {}
           /\ req' = [req EXCEPT ![r] = new]
           /\ free' = [free EXCEPT ![p] = value]
  <2>1. PoolsOK'
    BY <1>1, WakesNobody
  <2>2. \A s \in Requests : req'[s] = IF s = r THEN new ELSE req[s]
    BY <1>1 DEF TypeOK
  <2>3. MovesTo(r, new)
    BY <2>2 DEF MovesTo
  <2> QED
    BY <1>1, <2>1, <2>3 DEF TypeOK
<1>2. ASSUME NEW w \in Waiters(p), value > 0,
             req' = [req EXCEPT ![r] = new, ![w].at = "granted"],
             free' = [free EXCEPT ![p] = value - 1]
      PROVE  /\ PoolsOK' /\ MovesTo(r, new)
             /\ req' \in [Requests -> RequestType] /\ free' \in [Pools -> Nat]
  <2>1. w \in Requests /\ req[w].at = "wait" /\ w # r
    BY DEF Waiters, In, Moves
  <2>2. req[w] \in RequestType
    BY <2>1 DEF TypeOK
  <2>3. /\ [req[w] EXCEPT !.at = "granted"] \in RequestType
        /\ [req[w] EXCEPT !.at = "granted"].at = "granted"
        /\ [req[w] EXCEPT !.at = "granted"].stage = req[w].stage
    BY <2>2 DEF RequestType
  <2>4. req' = [s \in Requests |-> IF s = w THEN [req[w] EXCEPT !.at = "granted"]
                                   ELSE IF s = r THEN new ELSE req[s]]
    BY <1>2, <2>1 DEF TypeOK
  <2>5. /\ req'[w] = [req[w] EXCEPT !.at = "granted"] /\ req'[r] = new
        /\ \A s \in Requests \ {r, w} : req'[s] = req[s]
    BY <2>1, <2>4
  <2>6. WokenWith(r, new, w)
    BY <2>1, <2>3, <2>5 DEF WokenWith
  <2>7. PoolsOK'
    BY <1>2, <2>6, WakesOne
  <2>8. MovesTo(r, new)
    BY <2>1, <2>3, <2>5 DEF MovesTo
  <2>9. req' \in [Requests -> RequestType]
    BY <2>3, <2>4 DEF TypeOK
  <2>10. free' \in [Pools -> Nat]
    BY <1>2 DEF TypeOK
  <2> QED
    BY <2>7, <2>8, <2>9, <2>10
<1> QED
  BY <1>1, <1>2 DEF Wake

\* The gauge a request counts in, if any.
Gauge(at, stage) ==
  IF at = "get" THEN "fetch"
  ELSE IF at = "serve" /\ stage # "fetch" THEN KindOf(stage) ELSE "none"

ModelServing == In("model", {"serve"})
SearchServing == In("search", {"serve"})
Getting == In("limiter", {"get"})

LEMMA GaugeSets ==
  ASSUME NEW r \in Requests, NEW new, MovesTo(r, new), StagesOK,
         new.at = "get" => new.stage = "fetch"
  PROVE  /\ ModelServing' = IF Gauge(new.at, new.stage) = "model"
                            THEN ModelServing \cup {r} ELSE ModelServing \ {r}
         /\ SearchServing' = IF Gauge(new.at, new.stage) = "search"
                             THEN SearchServing \cup {r} ELSE SearchServing \ {r}
         /\ Getting' = IF Gauge(new.at, new.stage) = "fetch"
                       THEN Getting \cup {r} ELSE Getting \ {r}
         /\ r \in ModelServing <=> Gauge(req[r].at, req[r].stage) = "model"
         /\ r \in SearchServing <=> Gauge(req[r].at, req[r].stage) = "search"
         /\ r \in Getting <=> Gauge(req[r].at, req[r].stage) = "fetch"
<1>1. \A at, stage : (at = "get" => stage = "fetch") =>
        /\ Gauge(at, stage) = "model" <=> at = "serve" /\ PoolOf(stage) = "model"
        /\ Gauge(at, stage) = "search" <=> at = "serve" /\ PoolOf(stage) = "search"
        /\ Gauge(at, stage) = "fetch" <=> at = "get" /\ PoolOf(stage) = "limiter"
  BY DEF Gauge, KindOf, PoolOf
<1>2. req[r].at = "get" => req[r].stage = "fetch"
  BY DEF StagesOK
<1>3. ModelServing' = IF Gauge(new.at, new.stage) = "model"
                      THEN ModelServing \cup {r} ELSE ModelServing \ {r}
  BY <1>1 DEF ModelServing, In, MovesTo
<1>4. SearchServing' = IF Gauge(new.at, new.stage) = "search"
                       THEN SearchServing \cup {r} ELSE SearchServing \ {r}
  BY <1>1 DEF SearchServing, In, MovesTo
<1>5. Getting' = IF Gauge(new.at, new.stage) = "fetch"
                 THEN Getting \cup {r} ELSE Getting \ {r}
  BY <1>1 DEF Getting, In, MovesTo
<1> QED
  BY <1>1, <1>2, <1>3, <1>4, <1>5 DEF ModelServing, SearchServing, Getting, In

Adds(was, is) ==
  \/ was = is /\ UNCHANGED inFlight
  \/ was = "none" /\ is \in Kinds /\ inFlight' = [inFlight EXCEPT ![is] = @ + 1]
  \/ was \in Kinds /\ is = "none" /\ inFlight' = [inFlight EXCEPT ![was] = @ - 1]

\* The gauges follow a request that is counted in and out.
LEMMA GaugesFollow ==
  ASSUME TypeOK, StagesOK, GaugesOK, NEW r \in Requests, NEW new, MovesTo(r, new),
         new.at = "get" => new.stage = "fetch",
         Adds(Gauge(req[r].at, req[r].stage), Gauge(new.at, new.stage))
  PROVE  GaugesOK' /\ inFlight' \in [Kinds -> Int]
<1> DEFINE was == Gauge(req[r].at, req[r].stage)
           is == Gauge(new.at, new.stage)
<1>1. /\ IsFiniteSet(ModelServing) /\ IsFiniteSet(SearchServing) /\ IsFiniteSet(Getting)
      /\ Cardinality(ModelServing) \in Nat /\ Cardinality(SearchServing) \in Nat
      /\ Cardinality(Getting) \in Nat
  BY InFinite DEF ModelServing, SearchServing, Getting
<1>2. /\ Cardinality(ModelServing') = Cardinality(ModelServing)
           + (IF is = "model" THEN 1 ELSE 0) - (IF was = "model" THEN 1 ELSE 0)
      /\ Cardinality(SearchServing') = Cardinality(SearchServing)
           + (IF is = "search" THEN 1 ELSE 0) - (IF was = "search" THEN 1 ELSE 0)
      /\ Cardinality(Getting') = Cardinality(Getting)
           + (IF is = "fetch" THEN 1 ELSE 0) - (IF was = "fetch" THEN 1 ELSE 0)
  <2> HIDE DEF was, is
  <2>1. /\ ModelServing' = IF is = "model" THEN ModelServing \cup {r} ELSE ModelServing \ {r}
        /\ r \in ModelServing <=> was = "model"
        /\ SearchServing' = IF is = "search" THEN SearchServing \cup {r} ELSE SearchServing \ {r}
        /\ r \in SearchServing <=> was = "search"
        /\ Getting' = IF is = "fetch" THEN Getting \cup {r} ELSE Getting \ {r}
        /\ r \in Getting <=> was = "fetch"
    BY GaugeSets DEF was, is
  <2>3. Cardinality(ModelServing') = Cardinality(ModelServing)
           + (IF is = "model" THEN 1 ELSE 0) - (IF was = "model" THEN 1 ELSE 0)
    <3>1. /\ Cardinality(ModelServing \cup {r}) = IF r \in ModelServing THEN Cardinality(ModelServing)
                                          ELSE Cardinality(ModelServing) + 1
          /\ Cardinality(ModelServing \ {r}) = IF r \in ModelServing THEN Cardinality(ModelServing) - 1
                                       ELSE Cardinality(ModelServing)
      BY <1>1, FS_AddElement, FS_RemoveElement
    <3>2. CASE is = "model"
      <4>1. ModelServing' = ModelServing \cup {r}
        BY <2>1, <3>2
      <4> QED
        BY <1>1, <2>1, <3>1, <3>2, <4>1
    <3>3. CASE is # "model"
      <4>1. ModelServing' = ModelServing \ {r}
        BY <2>1, <3>3
      <4> QED
        BY <1>1, <2>1, <3>1, <3>3, <4>1
    <3> QED
      BY <3>2, <3>3
  <2>4. Cardinality(SearchServing') = Cardinality(SearchServing)
           + (IF is = "search" THEN 1 ELSE 0) - (IF was = "search" THEN 1 ELSE 0)
    <3>1. /\ Cardinality(SearchServing \cup {r}) = IF r \in SearchServing THEN Cardinality(SearchServing)
                                          ELSE Cardinality(SearchServing) + 1
          /\ Cardinality(SearchServing \ {r}) = IF r \in SearchServing THEN Cardinality(SearchServing) - 1
                                       ELSE Cardinality(SearchServing)
      BY <1>1, FS_AddElement, FS_RemoveElement
    <3>2. CASE is = "search"
      <4>1. SearchServing' = SearchServing \cup {r}
        BY <2>1, <3>2
      <4> QED
        BY <1>1, <2>1, <3>1, <3>2, <4>1
    <3>3. CASE is # "search"
      <4>1. SearchServing' = SearchServing \ {r}
        BY <2>1, <3>3
      <4> QED
        BY <1>1, <2>1, <3>1, <3>3, <4>1
    <3> QED
      BY <3>2, <3>3
  <2>5. Cardinality(Getting') = Cardinality(Getting)
           + (IF is = "fetch" THEN 1 ELSE 0) - (IF was = "fetch" THEN 1 ELSE 0)
    <3>1. /\ Cardinality(Getting \cup {r}) = IF r \in Getting THEN Cardinality(Getting)
                                          ELSE Cardinality(Getting) + 1
          /\ Cardinality(Getting \ {r}) = IF r \in Getting THEN Cardinality(Getting) - 1
                                       ELSE Cardinality(Getting)
      BY <1>1, FS_AddElement, FS_RemoveElement
    <3>2. CASE is = "fetch"
      <4>1. Getting' = Getting \cup {r}
        BY <2>1, <3>2
      <4> QED
        BY <1>1, <2>1, <3>1, <3>2, <4>1
    <3>3. CASE is # "fetch"
      <4>1. Getting' = Getting \ {r}
        BY <2>1, <3>3
      <4> QED
        BY <1>1, <2>1, <3>1, <3>3, <4>1
    <3> QED
      BY <3>2, <3>3
  <2> QED
    BY <2>3, <2>4, <2>5
<1>3. \A k \in Kinds : inFlight'[k] = inFlight[k] + (IF is = k THEN 1 ELSE 0)
                                                - (IF was = k THEN 1 ELSE 0)
  <2> HIDE DEF was, is
  <2>1. inFlight \in [Kinds -> Int]
    BY DEF TypeOK
  <2>2. "none" \notin Kinds
    BY DEF Kinds
  <2>3. Adds(was, is)
    BY DEF was, is
  <2> QED
    BY <2>1, <2>2, <2>3 DEF Adds
<1>4. inFlight' \in [Kinds -> Int]
  <2> HIDE DEF was, is
  <2>1. Adds(was, is)
    BY DEF was, is
  <2> QED
    BY <2>1 DEF Adds, TypeOK
<1>5. GaugesOK'
  <2> HIDE DEF was, is
  <2>1. /\ inFlight["model"] = Cardinality(ModelServing)
        /\ inFlight["search"] = Cardinality(SearchServing)
        /\ inFlight["fetch"] = Cardinality(Getting)
    BY DEF GaugesOK, ModelServing, SearchServing, Getting
  <2>2. {"model", "search", "fetch"} = Kinds
    BY DEF Kinds
  <2>3. /\ inFlight'["model"] = Cardinality(ModelServing')
        /\ inFlight'["search"] = Cardinality(SearchServing')
        /\ inFlight'["fetch"] = Cardinality(Getting')
    BY <1>2, <1>3, <2>1, <2>2
  <2> QED
    BY <2>3 DEF GaugesOK, ModelServing, SearchServing, Getting
<1> QED
  BY <1>4, <1>5

-----------------------------------------------------------------------------
(* Where a request goes on *)

\* Between two calls, or answered.
Rest == {x \in RequestType : x.at \in {"none", "enter"} /\ x.stage # "new"}

LEMMA ToRest ==
  ASSUME TypeOK, NEW r \in Requests,
         NEW stage \in ModelStages \cup {"search", "fetch"}
  PROVE  To(r, stage) \in Rest
<1>1. req[r] \in RequestType
  BY DEF TypeOK
<1> QED
  BY <1>1 DEF To, Rest, RequestType, ModelStages

LEMMA AnsweredRest ==
  ASSUME TypeOK, NEW r \in Requests, NEW answer \in Answers
  PROVE  Answered(r, answer) \in Rest
<1>1. req[r] \in RequestType
  BY DEF TypeOK
<1> QED
  BY <1>1 DEF Answered, Rest, RequestType, ModelStages

LEMMA CountedRest ==
  ASSUME NEW new \in Rest, NEW k \in Kinds
  PROVE  Counted(new, k) \in Rest
<1>1. new \in RequestType /\ new.at \in {"none", "enter"} /\ new.stage # "new"
  BY DEF Rest
<1>2. new.count \in [Kinds -> Nat]
  BY <1>1 DEF RequestType
<1>3. [new.count EXCEPT ![k] = @ + 1] \in [Kinds -> Nat]
  BY <1>2
<1> QED
  BY <1>1, <1>3 DEF Counted, Rest, RequestType

LEMMA ResearchedRest ==
  ASSUME TypeOK, NEW r \in Requests, NEW article \in BOOLEAN, NEW fetched \in BOOLEAN
  PROVE  Researched(r, article, fetched) \in Rest
<1>1. To(r, "writer") \in Rest
  BY ToRest DEF ModelStages
<1>2. [To(r, "writer") EXCEPT !.article = article] \in Rest
  BY <1>1 DEF Rest, RequestType
<1>3. {"model", "search", "fetch"} = Kinds
  BY DEF Kinds
<1> DEFINE new == Counted(Counted([To(r, "writer") EXCEPT !.article = article], "model"), "search")
<1>4. new \in Rest
  BY <1>2, <1>3, CountedRest
<1>5. Counted(new, "fetch") \in Rest
  BY <1>3, <1>4, CountedRest
<1> QED
  BY <1>4, <1>5 DEF Researched

LEMMA AfterErrorRest ==
  ASSUME TypeOK, NEW r \in Requests
  PROVE  AfterError(r) \in Rest
<1>1. /\ Researched(r, FALSE, FALSE) \in Rest /\ Researched(r, FALSE, TRUE) \in Rest
      /\ Answered(r, "503") \in Rest
  BY ResearchedRest, AnsweredRest DEF Answers
<1> QED
  BY <1>1 DEF AfterError

LEMMA BegunType ==
  ASSUME TypeOK, NEW r \in Requests, delay \in Nat
  PROVE  /\ Begun(r) \in RequestType
         /\ Begun(r).at = "serve" /\ Begun(r).stage = req[r].stage
<1>1. req[r] \in RequestType
  BY DEF TypeOK
<1> QED
  BY <1>1 DEF Begun, RequestType

-----------------------------------------------------------------------------
(* The invariant is kept *)

LEMMA StagesKept ==
  ASSUME StagesOK, NEW r \in Requests, NEW new, MovesTo(r, new),
         new.stage # "new", new.at = "get" => new.stage = "fetch"
  PROVE  StagesOK'
BY DEF StagesOK, MovesTo

\* A step that hands a slot on.
LEMMA HandedOn ==
  ASSUME SlotInv, NEW p \in Pools, NEW r \in Requests, NEW new \in RequestType,
         NEW value \in Nat, Moves(p, r, new, value), Wake(p, r, new, value),
         new.stage # "new", new.at = "get" => new.stage = "fetch",
         Adds(Gauge(req[r].at, req[r].stage), Gauge(new.at, new.stage))
  PROVE  SlotInv'
<1>1. TypeOK /\ StagesOK /\ PoolsOK /\ GaugesOK
  BY DEF SlotInv
<1>2. /\ PoolsOK' /\ MovesTo(r, new)
      /\ req' \in [Requests -> RequestType] /\ free' \in [Pools -> Nat]
  BY <1>1, WakeKeeps
<1>3. StagesOK'
  BY <1>1, <1>2, StagesKept
<1>4. GaugesOK' /\ inFlight' \in [Kinds -> Int]
  BY <1>1, <1>2, GaugesFollow
<1> QED
  BY <1>2, <1>3, <1>4 DEF SlotInv, TypeOK

\* A step of one request alone, given what it does to the pools.
LEMMA MovesAlone ==
  ASSUME SlotInv, NEW r \in Requests, NEW new \in RequestType,
         req' = [req EXCEPT ![r] = new], free' \in [Pools -> Nat], PoolsOK',
         new.stage # "new", new.at = "get" => new.stage = "fetch",
         Adds(Gauge(req[r].at, req[r].stage), Gauge(new.at, new.stage))
  PROVE  SlotInv'
<1>1. TypeOK /\ StagesOK /\ GaugesOK
  BY DEF SlotInv
<1>2. /\ req' \in [Requests -> RequestType]
      /\ req'[r] = new /\ \A s \in Requests \ {r} : req'[s] = req[s]
  BY <1>1, OneMovesType
<1>3. MovesTo(r, new)
  BY <1>2 DEF MovesTo
<1>4. StagesOK'
  BY <1>1, <1>3, StagesKept
<1>5. GaugesOK' /\ inFlight' \in [Kinds -> Int]
  BY <1>1, <1>3, GaugesFollow
<1> QED
  BY <1>2, <1>4, <1>5 DEF SlotInv, TypeOK

\* One that takes no slot and gives none back: it may have been queued.
LEMMA TakesNoSlot ==
  ASSUME SlotInv, NEW r \in Requests, NEW new \in Rest,
         req' = [req EXCEPT ![r] = new], UNCHANGED free,
         req[r].at \in {"none", "enter", "wait", "get"},
         Adds(Gauge(req[r].at, req[r].stage), "none")
  PROVE  SlotInv'
<1>1. TypeOK /\ PoolsOK
  BY DEF SlotInv
<1>2. /\ new \in RequestType /\ new.at \in {"none", "enter"} /\ new.stage # "new"
      /\ Gauge(new.at, new.stage) = "none"
  BY DEF Rest, Gauge
<1>3. \A s \in Requests : req'[s] = IF s = r THEN new ELSE req[s]
  BY <1>1, OneMoves
<1>4. PoolsOK'
  <2> SUFFICES ASSUME NEW q \in Pools PROVE PoolOK(q)'
    BY DEF PoolsOK
  <2>1. PoolOK(q)
    BY <1>1 DEF PoolsOK
  <2>2. Holders(q)' = Holders(q)
    BY <1>2, <1>3 DEF Holders, In
  <2>3. Waiters(q)' \subseteq Waiters(q)
    BY <1>2, <1>3 DEF Waiters, In
  <2>4. In(q, {"granted"})' = In(q, {"granted"})
    BY <1>2, <1>3 DEF In
  <2> QED
    BY <2>1, <2>2, <2>3, <2>4 DEF PoolOK, Capacity
<1>5. free' \in [Pools -> Nat]
  BY <1>1 DEF TypeOK
<1> QED
  BY <1>2, <1>4, <1>5, MovesAlone

-----------------------------------------------------------------------------
(* Action by action *)

LEMMA ArriveKeeps ==
  ASSUME SlotInv, NEW r \in Requests, Arrive(r)
  PROVE  SlotInv'
<1>1. TypeOK /\ req[r].stage = "new" /\ req[r].at = "none"
  BY DEF SlotInv, StagesOK, Arrive
<1>2. Adds(Gauge(req[r].at, req[r].stage), "none")
  BY <1>1 DEF Adds, Gauge, Arrive
<1>3. PICK new \in Rest : req' = [req EXCEPT ![r] = new]
  <2>1. Answered(r, "400") \in Rest /\ Answered(r, "500") \in Rest
    BY <1>1, AnsweredRest DEF Answers
  <2>2. To(r, "planner") \in Rest
    BY <1>1, ToRest DEF ModelStages
  <2> QED
    BY <2>1, <2>2 DEF Arrive
<1>4. UNCHANGED free
  BY DEF Arrive
<1> QED
  BY <1>1, <1>2, <1>3, <1>4, TakesNoSlot

\* The gauge of a request that gets its slot is counted at once, that of a
\* fetch when the limiter lets it go on.
LEMMA BegunCounts ==
  ASSUME TypeOK, delay \in Nat, NEW r \in Requests, req[r].at \in {"enter", "granted"}, CountIn(r)
  PROVE  Adds(Gauge(req[r].at, req[r].stage), Gauge(Begun(r).at, Begun(r).stage))
<1>1. Begun(r).at = "serve" /\ Begun(r).stage = req[r].stage
  BY BegunType
<1>2. KindOf(req[r].stage) \in Kinds
  BY PoolsOfStages
<1> QED
  BY <1>1, <1>2 DEF Adds, Gauge, CountIn

LEMMA ResumeKeeps ==
  ASSUME SlotInv, LimiterOK, NEW r \in Requests, Resume(r), req[r].stage # "new"
  PROVE  SlotInv'
<1> DEFINE p == PoolOf(req[r].stage)
<1>1. TypeOK /\ delay \in Nat
  BY DEF SlotInv, LimiterOK
<1>2. p \in Pools /\ free[p] \in Nat
  <2>1. p \in Pools
    BY PoolsOfStages
  <2> QED
    BY <1>1, <2>1 DEF TypeOK
<1>3. /\ Begun(r) \in RequestType
      /\ Begun(r).at = "serve" /\ Begun(r).stage = req[r].stage
  BY <1>1, BegunType
<1>4. req[r].at = "granted" /\ Wake(p, r, Begun(r), free[p]) /\ CountIn(r)
  BY DEF Resume
<1>5. Moves(p, r, Begun(r), free[p])
  BY <1>3, <1>4 DEF Moves
<1>6. Adds(Gauge(req[r].at, req[r].stage), Gauge(Begun(r).at, Begun(r).stage))
  BY <1>1, <1>4, BegunCounts
<1> HIDE DEF p
<1> QED
  BY <1>2, <1>3, <1>4, <1>5, <1>6, HandedOn

LEMMA CallKeeps ==
  ASSUME SlotInv, LimiterOK, NEW r \in Requests, Call(r), req[r].stage # "new"
  PROVE  SlotInv'
<1> DEFINE p == PoolOf(req[r].stage)
<1>1. TypeOK /\ delay \in Nat /\ PoolsOK /\ req[r] \in RequestType /\ req[r].at = "enter"
  BY DEF SlotInv, LimiterOK, TypeOK, Call
<1>2. p \in Pools /\ free[p] \in Nat
  <2>1. p \in Pools
    BY PoolsOfStages
  <2> QED
    BY <1>1, <2>1 DEF TypeOK
<1>3. CASE free[p] > 0 /\ In(p, {"wait", "granted"}) = {}
  <2>1. /\ free' = [free EXCEPT ![p] = @ - 1]
        /\ req' = [req EXCEPT ![r] = Begun(r)]
        /\ CountIn(r)
    BY <1>3 DEF Call
  <2>2. /\ Begun(r) \in RequestType
        /\ Begun(r).at = "serve" /\ Begun(r).stage = req[r].stage
    BY <1>1, BegunType
  <2>3. Adds(Gauge(req[r].at, req[r].stage), Gauge(Begun(r).at, Begun(r).stage))
    BY <1>1, <2>1, BegunCounts
  <2>4. free' \in [Pools -> Nat]
    BY <1>1, <1>2, <1>3, <2>1 DEF TypeOK
  <2>5. \A s \in Requests : req'[s] = IF s = r THEN Begun(r) ELSE req[s]
    BY <1>1, <2>1, OneMoves
  <2>6. ASSUME NEW q \in Pools PROVE PoolOK(q)'
    <3>1. PoolOK(q) /\ IsFiniteSet(Holders(q)) /\ Cardinality(Holders(q)) \in Nat
      BY <1>1, InFinite DEF PoolsOK, Holders
    <3>2. /\ Holders(q)' = IF q = p THEN Holders(q) \cup {r} ELSE Holders(q)
          /\ r \notin Holders(q)
      BY <1>1, <2>2, <2>5 DEF Holders, In
    <3>3. Waiters(q)' = Waiters(q) /\ In(q, {"granted"})' = In(q, {"granted"})
      BY <1>1, <2>2, <2>5 DEF Waiters, In
    <3>4. CASE q = p
      <4>1. Cardinality(Holders(q)') = Cardinality(Holders(q)) + 1
        BY <3>1, <3>2, <3>4, FS_AddElement
      <4>2. free'[q] = free[q] - 1 /\ free[q] \in Nat
        BY <1>1, <1>2, <2>1, <3>4 DEF TypeOK
      <4>3. Waiters(q)' = {}
        BY <1>3, <3>3, <3>4 DEF Waiters, In
      <4> QED
        BY <3>1, <4>1, <4>2, <4>3 DEF PoolOK, Capacity
    <3>5. CASE q # p
      <4>1. free'[q] = free[q]
        BY <1>1, <1>2, <2>1, <3>5 DEF TypeOK
      <4> QED
        BY <3>1, <3>2, <3>3, <3>5, <4>1 DEF PoolOK, Capacity
    <3> QED
      BY <3>4, <3>5
  <2>7. PoolsOK'
    BY <2>6 DEF PoolsOK
  <2> QED
    BY <2>1, <2>2, <2>3, <2>4, <2>7, MovesAlone
<1>4. CASE ~(free[p] > 0 /\ In(p, {"wait", "granted"}) = {})
  <2> DEFINE new == [req[r] EXCEPT !.at = "wait"]
  <2>1. req' = [req EXCEPT ![r] = new] /\ UNCHANGED <<free, inFlight>>
    BY <1>1, <1>4 DEF Call, TypeOK
  <2>2. new \in RequestType /\ new.at = "wait" /\ new.stage = req[r].stage
    BY <1>1 DEF RequestType
  <2>3. Adds(Gauge(req[r].at, req[r].stage), Gauge(new.at, new.stage))
    BY <1>1, <2>1, <2>2 DEF Adds, Gauge
  <2> HIDE DEF new
  <2>4. \A s \in Requests : req'[s] = IF s = r THEN new ELSE req[s]
    BY <1>1, <2>1, OneMoves
  <2>5. ASSUME NEW q \in Pools PROVE PoolOK(q)'
    <3>1. PoolOK(q)
      BY <1>1 DEF PoolsOK
    <3>2. Holders(q)' = Holders(q) /\ In(q, {"granted"})' = In(q, {"granted"})
      BY <1>1, <2>2, <2>4 DEF Holders, In
    <3>3. q # p => Waiters(q)' = Waiters(q)
      BY <1>1, <2>2, <2>4 DEF Waiters, In
    <3>4. q = p /\ free[p] > 0 => In(q, {"granted"}) # {}
      BY <1>4, <3>1 DEF PoolOK, Waiters, In
    <3> QED
      BY <2>1, <3>1, <3>2, <3>3, <3>4 DEF PoolOK, Capacity
  <2>6. PoolsOK'
    BY <2>5 DEF PoolsOK
  <2>7. free' \in [Pools -> Nat]
    BY <1>1, <2>1 DEF TypeOK
  <2> QED
    BY <2>1, <2>2, <2>3, <2>6, <2>7, MovesAlone
<1> QED
  BY <1>3, <1>4

\* A holder comes to rest, or a fetch goes on to its document.
LEMMA ReleasedKeeps ==
  ASSUME SlotInv, NEW r \in Requests, NEW new \in RequestType,
         req[r].at \in {"granted", "serve"}, new.at \in {"none", "enter", "get"},
         Released(PoolOf(req[r].stage), r, new),
         new.stage # "new", new.at = "get" => new.stage = "fetch",
         Adds(Gauge(req[r].at, req[r].stage), Gauge(new.at, new.stage))
  PROVE  SlotInv'
<1> DEFINE p == PoolOf(req[r].stage)
<1>1. p \in Pools /\ free[p] + 1 \in Nat
  <2>1. p \in Pools /\ free \in [Pools -> Nat]
    BY PoolsOfStages DEF SlotInv, TypeOK
  <2> QED
    BY <2>1
<1>2. Moves(p, r, new, free[p] + 1) /\ Wake(p, r, new, free[p] + 1)
  BY DEF Moves, Released
<1> HIDE DEF p
<1> QED
  BY <1>1, <1>2, HandedOn

LEMMA PassKeeps ==
  ASSUME SlotInv, NEW r \in Requests, Pass(r)
  PROVE  SlotInv'
<1> DEFINE new == [req[r] EXCEPT !.at = "get"]
<1>1. req[r] \in RequestType /\ req[r].stage = "fetch" /\ req[r].at = "serve"
  BY DEF SlotInv, TypeOK, Pass
<1>2. new \in RequestType /\ new.at = "get" /\ new.stage = "fetch"
  BY <1>1 DEF RequestType
<1>3. PoolOf(req[r].stage) = "limiter" /\ Released("limiter", r, new)
  BY <1>1 DEF PoolOf, Pass
<1>4. Adds(Gauge(req[r].at, req[r].stage), Gauge(new.at, new.stage))
  BY <1>1, <1>2 DEF Adds, Gauge, Kinds, Pass
<1> HIDE DEF new
<1> QED
  BY <1>1, <1>2, <1>3, <1>4, ReleasedKeeps

LEMMA ComesToRest ==
  ASSUME SlotInv, NEW r \in Requests, NEW new \in Rest,
         req[r].at \in {"granted", "serve"}, Released(PoolOf(req[r].stage), r, new),
         Adds(Gauge(req[r].at, req[r].stage), "none")
  PROVE  SlotInv'
<1>1. /\ new \in RequestType /\ new.at \in {"none", "enter"} /\ new.stage # "new"
      /\ Gauge(new.at, new.stage) = "none"
  BY DEF Rest, Gauge
<1> QED
  BY <1>1, ReleasedKeeps

CountsIn(r) ==
  \/ req[r].at = "serve" /\ req[r].stage # "fetch"
  \/ req[r].at = "get" /\ req[r].stage = "fetch"

LEMMA CountsOut ==
  ASSUME NEW r \in Requests, CountsIn(r), CountOut(r)
  PROVE  Adds(Gauge(req[r].at, req[r].stage), "none")
<1>1. KindOf(req[r].stage) \in Kinds
  BY PoolsOfStages
<1>2. Gauge(req[r].at, req[r].stage) = KindOf(req[r].stage)
  BY DEF Gauge, KindOf, CountsIn
<1> QED
  BY <1>1, <1>2 DEF Adds, CountOut

LEMMA ModelServedKeeps ==
  ASSUME SlotInv, NEW r \in Requests, ModelServed(r)
  PROVE  SlotInv'
<1>1. TypeOK /\ req[r].at = "serve" /\ req[r].stage \in ModelStages /\ CountOut(r)
  BY DEF SlotInv, ModelServed
<1>2. {"model", "search", "fetch"} = Kinds
  BY DEF Kinds
<1>3. \A answer \in Answers : Answered(r, answer) \in Rest /\ Counted(Answered(r, answer), "model") \in Rest
  BY <1>1, <1>2, AnsweredRest, CountedRest
<1>4. Counted(To(r, "researcher"), "model") \in Rest /\ To(r, "search") \in Rest
  BY <1>1, <1>2, ToRest, CountedRest DEF ModelStages
<1>5. {"500", "resolved", "unresolved"} \subseteq Answers
  BY DEF Answers
<1>6. PICK new \in Rest : Released("model", r, new)
  <2>1. CASE req[r].stage = "planner"
    BY <1>3, <1>4, <1>5, <2>1 DEF ModelServed
  <2>2. CASE req[r].stage = "researcher"
    BY <1>3, <1>4, <1>5, <2>2 DEF ModelServed
  <2>3. CASE req[r].stage = "writer"
    BY <1>3, <1>5, <2>3 DEF ModelServed, Written
  <2> QED
    BY <1>1, <2>1, <2>2, <2>3 DEF ModelStages
<1>7. PoolOf(req[r].stage) = "model" /\ req[r].stage # "fetch"
  BY <1>1 DEF ModelStages, PoolOf
<1>8. Adds(Gauge(req[r].at, req[r].stage), "none")
  <2>1. CountsIn(r)
    BY <1>1, <1>7 DEF CountsIn
  <2> QED
    BY <1>1, <2>1, CountsOut
<1> QED
  BY <1>1, <1>6, <1>7, <1>8, ComesToRest

LEMMA SearchServedKeeps ==
  ASSUME SlotInv, NEW r \in Requests, SearchServed(r)
  PROVE  SlotInv'
<1>1. TypeOK /\ req[r].at = "serve" /\ req[r].stage = "search" /\ CountOut(r)
  BY DEF SlotInv, SearchServed
<1>2. To(r, "fetch") \in Rest /\ Researched(r, FALSE, FALSE) \in Rest
  BY <1>1, ToRest, ResearchedRest
<1>3. PICK new \in Rest : Released("search", r, new)
  BY <1>2 DEF SearchServed
<1>4. PoolOf(req[r].stage) = "search"
  BY <1>1 DEF PoolOf
<1>5. Adds(Gauge(req[r].at, req[r].stage), "none")
  <2>1. CountsIn(r)
    BY <1>1 DEF CountsIn
  <2> QED
    BY <1>1, <2>1, CountsOut
<1> QED
  BY <1>1, <1>3, <1>4, <1>5, ComesToRest

LEMMA DocumentServedKeeps ==
  ASSUME SlotInv, NEW r \in Requests, DocumentServed(r)
  PROVE  SlotInv'
<1>1. /\ TypeOK /\ req[r].at = "get" /\ req[r].stage = "fetch" /\ CountOut(r)
      /\ req' = [req EXCEPT ![r] = Researched(r, TRUE, TRUE)] /\ UNCHANGED free
  BY DEF SlotInv, DocumentServed
<1>2. Researched(r, TRUE, TRUE) \in Rest
  BY <1>1, ResearchedRest
<1>3. Adds(Gauge(req[r].at, req[r].stage), "none")
  <2>1. CountsIn(r)
    BY <1>1 DEF CountsIn
  <2> QED
    BY <1>1, <2>1, CountsOut
<1> QED
  BY <1>1, <1>2, <1>3, TakesNoSlot

LEMMA FailKeeps ==
  ASSUME SlotInv, NEW r \in Requests, Fail(r)
  PROVE  SlotInv'
<1>1. TypeOK /\ StagesOK /\ AfterError(r) \in Rest
  BY AfterErrorRest DEF SlotInv
<1>2. CASE /\ req[r].at \in {"wait", "granted"}
           /\ Abandoned(PoolOf(req[r].stage), r, AfterError(r)) /\ UNCHANGED inFlight
  <2>1. Adds(Gauge(req[r].at, req[r].stage), "none")
    BY <1>2 DEF Adds, Gauge
  <2>2. CASE req[r].at = "granted"
    BY <1>1, <1>2, <2>1, <2>2, ComesToRest DEF Abandoned
  <2>3. CASE req[r].at = "wait"
    <3>1. req' = [req EXCEPT ![r] = AfterError(r)] /\ UNCHANGED free
      BY <1>2, <2>3 DEF Abandoned
    <3> QED
      BY <1>1, <2>1, <2>3, <3>1, TakesNoSlot
  <2> QED
    BY <1>2, <2>2, <2>3
<1>3. CASE /\ req[r].at = "serve" /\ SlotReleasedOnError(r)
           /\ IF req[r].stage = "fetch" THEN UNCHANGED inFlight ELSE CountOut(r)
  <2>1. Adds(Gauge(req[r].at, req[r].stage), "none")
    <3>1. CASE req[r].stage = "fetch"
      BY <1>3, <3>1 DEF Adds, Gauge
    <3>2. CASE req[r].stage # "fetch"
      <4>1. CountsIn(r)
        BY <1>3, <3>2 DEF CountsIn
      <4> QED
        BY <1>3, <3>2, <4>1, CountsOut
    <3> QED
      BY <3>1, <3>2
  <2>2. Released(PoolOf(req[r].stage), r, AfterError(r))
    BY <1>3 DEF SlotReleasedOnError
  <2> QED
    BY <1>1, <1>3, <2>1, <2>2, ComesToRest
<1>4. CASE /\ req[r].at = "get" /\ req' = [req EXCEPT ![r] = AfterError(r)]
           /\ CountOut(r) /\ UNCHANGED <<free, ahead>>
  <2>1. Adds(Gauge(req[r].at, req[r].stage), "none")
    <3>1. CountsIn(r)
      BY <1>1, <1>4 DEF StagesOK, CountsIn
    <3> QED
      BY <1>4, <3>1, CountsOut
  <2> QED
    BY <1>1, <1>4, <2>1, TakesNoSlot
<1> QED
  BY <1>2, <1>3, <1>4 DEF Fail

\* Nothing moves: time passes, or nothing happens.
LEMMA NobodyMoves ==
  ASSUME SlotInv, req' \in [Requests -> RequestType], UNCHANGED <<free, inFlight>>,
         \A s \in Requests : req'[s].at = req[s].at /\ req'[s].stage = req[s].stage
  PROVE  SlotInv'
<1>1. TypeOK /\ StagesOK /\ PoolsOK /\ GaugesOK
  BY DEF SlotInv
<1>2. StagesOK'
  BY <1>1 DEF StagesOK
<1>3. PoolsOK'
  <2> SUFFICES ASSUME NEW q \in Pools PROVE PoolOK(q)'
    BY DEF PoolsOK
  <2>1. PoolOK(q)
    BY <1>1 DEF PoolsOK
  <2>2. /\ Holders(q)' = Holders(q) /\ Waiters(q)' = Waiters(q)
        /\ In(q, {"granted"})' = In(q, {"granted"})
    BY DEF Holders, Waiters, In
  <2> QED
    BY <2>1, <2>2 DEF PoolOK, Capacity
<1>4. GaugesOK'
  <2>1. ModelServing' = ModelServing /\ SearchServing' = SearchServing /\ Getting' = Getting
    BY DEF ModelServing, SearchServing, Getting, In
  <2> QED
    BY <1>1, <2>1 DEF GaugesOK, ModelServing, SearchServing, Getting
<1> QED
  BY <1>1, <1>2, <1>3, <1>4 DEF SlotInv, TypeOK

-----------------------------------------------------------------------------
(* The rate limiter *)

\* Whoever holds the fetch lock sleeps until the next fetch is due.
SleepOK ==
  \A r \in Requests : req[r].at = "serve" /\ req[r].stage = "fetch" => req[r].sleep >= delay

\* A step of r, and perhaps of one it wakes.
OneStep(r) ==
  /\ \A s \in Requests \ {r} : req'[s] = req[s] \/ req'[s].at = "granted"
  /\ req'[r].at # "get"
  /\ req'[r].at = "serve" /\ req'[r].stage = "fetch" => req'[r].sleep >= delay
  /\ UNCHANGED <<delay, since>>

LEMMA WakeOthers ==
  ASSUME TypeOK, NEW p, NEW r \in Requests, NEW new, NEW value, Wake(p, r, new, value),
         req[r].at # "wait"
  PROVE  /\ \A s \in Requests \ {r} : req'[s] = req[s] \/ req'[s].at = "granted"
         /\ req'[r] = new
<1>1. CASE req' = [req EXCEPT ![r] = new]
  <2>1. \A s \in Requests : req'[s] = IF s = r THEN new ELSE req[s]
    BY <1>1, OneMoves
  <2> QED
    BY <2>1
<1>2. ASSUME NEW w \in Waiters(p), req' = [req EXCEPT ![r] = new, ![w].at = "granted"]
      PROVE  /\ \A s \in Requests \ {r} : req'[s] = req[s] \/ req'[s].at = "granted"
             /\ req'[r] = new
  <2>1. w \in Requests /\ req[w] \in RequestType /\ w # r
    BY DEF Waiters, In, TypeOK
  <2>2. req' = [s \in Requests |-> IF s = w THEN [req[w] EXCEPT !.at = "granted"]
                                   ELSE IF s = r THEN new ELSE req[s]]
    BY <1>2, <2>1 DEF TypeOK
  <2>3. [req[w] EXCEPT !.at = "granted"].at = "granted"
    BY <2>1 DEF RequestType
  <2> QED
    BY <2>1, <2>2, <2>3
<1> QED
  BY <1>1, <1>2 DEF Wake

\* It comes to rest, alone or with what it releases.
LEMMA RestAlone ==
  ASSUME TypeOK, NEW r \in Requests, NEW new \in Rest, req' = [req EXCEPT ![r] = new],
         UNCHANGED <<delay, since>>
  PROVE  OneStep(r)
<1>1. \A s \in Requests : req'[s] = IF s = r THEN new ELSE req[s]
  BY OneMoves
<1> QED
  BY <1>1 DEF OneStep, Rest

LEMMA RestReleases ==
  ASSUME TypeOK, NEW p, NEW r \in Requests, NEW new \in Rest, Released(p, r, new),
         req[r].at # "wait", UNCHANGED <<delay, since>>
  PROVE  OneStep(r)
<1>1. Wake(p, r, new, free[p] + 1)
  BY DEF Released
<1>2. /\ \A s \in Requests \ {r} : req'[s] = req[s] \/ req'[s].at = "granted"
      /\ req'[r] = new
  BY <1>1, WakeOthers
<1> QED
  BY <1>2 DEF OneStep, Rest

LEMMA ArriveSteps ==
  ASSUME TypeOK, NEW r \in Requests, Arrive(r)
  PROVE  OneStep(r)
<1>1. Answered(r, "400") \in Rest /\ Answered(r, "500") \in Rest
  BY AnsweredRest DEF Answers
<1>2. To(r, "planner") \in Rest
  BY ToRest DEF ModelStages
<1>3. PICK new \in Rest : req' = [req EXCEPT ![r] = new]
  BY <1>1, <1>2 DEF Arrive
<1>4. UNCHANGED <<delay, since>>
  BY DEF Arrive
<1> QED
  BY <1>3, <1>4, RestAlone

LEMMA BegunSleeps ==
  ASSUME TypeOK, NEW r \in Requests, delay \in Nat
  PROVE  /\ Begun(r).at = "serve"
         /\ Begun(r).stage = "fetch" => Begun(r).sleep >= delay
<1>1. req[r] \in RequestType
  BY DEF TypeOK
<1> QED
  BY <1>1 DEF Begun, RequestType

LEMMA ResumeSteps ==
  ASSUME TypeOK, delay \in Nat, NEW r \in Requests, Resume(r)
  PROVE  OneStep(r)
<1>1. /\ req[r].at = "granted" /\ Wake(PoolOf(req[r].stage), r, Begun(r), free[PoolOf(req[r].stage)])
      /\ UNCHANGED <<delay, since>>
  BY DEF Resume, DelayAtLock
<1>2. /\ \A s \in Requests \ {r} : req'[s] = req[s] \/ req'[s].at = "granted"
      /\ req'[r] = Begun(r)
  BY <1>1, WakeOthers
<1> QED
  BY <1>1, <1>2, BegunSleeps DEF OneStep

LEMMA CallSteps ==
  ASSUME TypeOK, delay \in Nat, NEW r \in Requests, Call(r)
  PROVE  OneStep(r)
<1>1. UNCHANGED <<delay, since>>
  BY DEF Call, DelayAtLock
<1>2. CASE req' = [req EXCEPT ![r] = Begun(r)]
  <2>1. \A s \in Requests : req'[s] = IF s = r THEN Begun(r) ELSE req[s]
    BY <1>2, OneMoves
  <2> QED
    BY <1>1, <2>1, BegunSleeps DEF OneStep
<1>3. CASE req' = [req EXCEPT ![r].at = "wait"]
  <2>1. req[r] \in RequestType /\ [req[r] EXCEPT !.at = "wait"].at = "wait"
    BY DEF TypeOK, RequestType
  <2>2. req' = [req EXCEPT ![r] = [req[r] EXCEPT !.at = "wait"]]
    BY <1>3 DEF TypeOK
  <2>3. \A s \in Requests : req'[s] = IF s = r THEN [req[r] EXCEPT !.at = "wait"] ELSE req[s]
    BY <2>2, OneMoves
  <2> QED
    BY <1>1, <2>1, <2>3 DEF OneStep
<1> QED
  BY <1>2, <1>3 DEF Call

LEMMA ServedSteps ==
  ASSUME TypeOK, NEW r \in Requests, Served(r)
  PROVE  OneStep(r)
<1>1. CASE ModelServed(r)
  <2>1. {"model", "search", "fetch"} = Kinds /\ {"500", "resolved", "unresolved"} \subseteq Answers
    BY DEF Kinds, Answers
  <2>2. \A answer \in Answers : /\ Answered(r, answer) \in Rest
                                /\ Counted(Answered(r, answer), "model") \in Rest
    BY <2>1, AnsweredRest, CountedRest
  <2>3. Counted(To(r, "researcher"), "model") \in Rest /\ To(r, "search") \in Rest
    BY <2>1, ToRest, CountedRest DEF ModelStages
  <2>4. PICK new \in Rest : Released("model", r, new)
    <3>1. CASE req[r].stage = "planner"
      BY <1>1, <2>1, <2>2, <2>3, <3>1 DEF ModelServed
    <3>2. CASE req[r].stage = "researcher"
      BY <1>1, <2>1, <2>2, <2>3, <3>2 DEF ModelServed
    <3>3. CASE req[r].stage = "writer"
      BY <1>1, <2>1, <2>2, <3>3 DEF ModelServed, Written
    <3> QED
      BY <1>1, <2>1, <2>2, <3>1, <3>2, <3>3 DEF ModelServed, ModelStages
  <2>5. req[r].at # "wait" /\ UNCHANGED <<delay, since>>
    BY <1>1 DEF ModelServed
  <2> QED
    BY <2>4, <2>5, RestReleases
<1>2. CASE SearchServed(r)
  <2>1. To(r, "fetch") \in Rest /\ Researched(r, FALSE, FALSE) \in Rest
    BY ToRest, ResearchedRest
  <2>2. PICK new \in Rest : Released("search", r, new)
    BY <1>2, <2>1 DEF SearchServed
  <2>3. req[r].at # "wait" /\ UNCHANGED <<delay, since>>
    BY <1>2 DEF SearchServed
  <2> QED
    BY <2>2, <2>3, RestReleases
<1>3. CASE DocumentServed(r)
  <2>1. Researched(r, TRUE, TRUE) \in Rest
    BY ResearchedRest
  <2>2. req' = [req EXCEPT ![r] = Researched(r, TRUE, TRUE)] /\ UNCHANGED <<delay, since>>
    BY <1>3 DEF DocumentServed
  <2> QED
    BY <2>1, <2>2, RestAlone
<1> QED
  BY <1>1, <1>2, <1>3 DEF Served

LEMMA FailSteps ==
  ASSUME TypeOK, NEW r \in Requests, Fail(r)
  PROVE  OneStep(r)
<1>1. AfterError(r) \in Rest /\ UNCHANGED <<delay, since>>
  BY AfterErrorRest DEF Fail
<1>2. \/ req' = [req EXCEPT ![r] = AfterError(r)]
      \/ req[r].at # "wait" /\ Released(PoolOf(req[r].stage), r, AfterError(r))
  BY DEF Fail, Abandoned, SlotReleasedOnError
<1> QED
  BY <1>1, <1>2, RestAlone, RestReleases

LEMMA LimiterKept ==
  ASSUME LimiterOK, SleepOK, NEW r \in Requests, OneStep(r)
  PROVE  LimiterOK' /\ SleepOK'
<1>1. LimiterOK' /\ UNCHANGED delay
  BY DEF LimiterOK, OneStep
<1>2. ASSUME NEW s \in Requests, req'[s].at = "serve", req'[s].stage = "fetch"
      PROVE  req'[s].sleep >= delay'
  <2>1. CASE s = r
    BY <1>1, <1>2, <2>1 DEF OneStep
  <2>2. CASE s # r
    <3>1. req'[s] = req[s]
      BY <1>2, <2>2 DEF OneStep
    <3> QED
      BY <1>1, <1>2, <3>1 DEF SleepOK
  <2> QED
    BY <2>1, <2>2
<1> QED
  BY <1>1, <1>2 DEF SleepOK

\* Nobody else holds the lock when a fetch goes on, and none is due before
\* an interval has passed.
LEMMA PassLimits ==
  ASSUME SlotInv, LimiterOK, SleepOK, NEW r \in Requests, Pass(r)
  PROVE  /\ LimiterOK' /\ SleepOK' /\ since = Interval
         /\ \A s \in Requests \ {r} : req'[s] = req[s] \/ req'[s].at = "granted"
<1>1. /\ req[r].stage = "fetch" /\ req[r].at = "serve" /\ req[r].sleep = 0
      /\ delay' = Interval /\ since' = 0
      /\ Wake("limiter", r, [req[r] EXCEPT !.at = "get"], free["limiter"] + 1)
  BY DEF Pass, Released
<1>2. since = Interval
  <2>1. 0 >= delay
    BY <1>1 DEF SleepOK
  <2> QED
    BY <2>1, ConfigAssumption DEF LimiterOK
<1>3. LimiterOK'
  BY <1>1, ConfigAssumption DEF LimiterOK
<1>4. /\ \A s \in Requests \ {r} : req'[s] = req[s] \/ req'[s].at = "granted"
      /\ req'[r] = [req[r] EXCEPT !.at = "get"]
  <2>1. TypeOK /\ req[r].at # "wait"
    BY <1>1 DEF SlotInv
  <2> QED
    BY <1>1, <2>1, WakeOthers
<1>5. req'[r].at = "get"
  <2>1. req[r] \in RequestType
    BY DEF SlotInv, TypeOK
  <2> QED
    BY <1>4, <2>1 DEF RequestType
<1>6. \A s \in Requests : s # r => ~(req[s].at = "serve" /\ req[s].stage = "fetch")
  <2> SUFFICES ASSUME NEW s \in Requests, s # r, req[s].at = "serve", req[s].stage = "fetch"
               PROVE  FALSE
    OBVIOUS
  <2>1. r \in Holders("limiter") /\ s \in Holders("limiter")
    BY <1>1 DEF Holders, In, PoolOf
  <2>2. Cardinality(Holders("limiter")) \in Nat /\ IsFiniteSet(Holders("limiter"))
    BY InFinite DEF Holders
  <2>3. Cardinality(Holders("limiter")) <= 1
    <3>1. free["limiter"] \in Nat
      BY DEF SlotInv, TypeOK, Pools
    <3>2. free["limiter"] + Cardinality(Holders("limiter")) = Capacity["limiter"]
      BY DEF SlotInv, PoolsOK, PoolOK, Pools
    <3>3. Capacity["limiter"] = 1
      BY DEF Capacity, Pools
    <3> QED
      BY <2>2, <3>1, <3>2, <3>3
  <2>4. /\ IsFiniteSet(Holders("limiter") \ {r})
        /\ Cardinality(Holders("limiter") \ {r}) = 0
    <3>1. /\ IsFiniteSet(Holders("limiter") \ {r})
          /\ Cardinality(Holders("limiter") \ {r}) = Cardinality(Holders("limiter")) - 1
      BY <2>1, <2>2, FS_RemoveElement
    <3>2. Cardinality(Holders("limiter") \ {r}) \in Nat
      BY <3>1, FS_CardinalityType
    <3> QED
      BY <2>2, <2>3, <3>1, <3>2
  <2>5. Holders("limiter") \ {r} = {}
    BY <2>4, FS_EmptySet
  <2> QED
    BY <2>1, <2>5
<1>7. SleepOK'
  BY <1>4, <1>5, <1>6 DEF SleepOK
<1> QED
  BY <1>2, <1>3, <1>4, <1>7

LEMMA TickKeeps ==
  ASSUME SlotInv, LimiterOK, SleepOK, Tick
  PROVE  /\ SlotInv' /\ LimiterOK' /\ SleepOK'
         /\ \A s \in Requests : req'[s].at = req[s].at
<1>1. \A s \in Requests : req[s] \in RequestType
  BY DEF SlotInv, TypeOK
<1>2. \A s \in Requests : /\ req'[s] \in RequestType
                          /\ req'[s].at = req[s].at /\ req'[s].stage = req[s].stage
                          /\ req'[s].sleep = Less(req[s].sleep)
  <2> SUFFICES ASSUME NEW s \in Requests
               PROVE  /\ req'[s] \in RequestType
                      /\ req'[s].at = req[s].at /\ req'[s].stage = req[s].stage
                      /\ req'[s].sleep = Less(req[s].sleep)
    OBVIOUS
  <2>1. req[s] \in RequestType /\ req[s].sleep \in Nat
    BY <1>1 DEF RequestType
  <2>2. Less(req[s].sleep) \in Nat
    BY <2>1 DEF Less
  <2>3. req'[s] = [req[s] EXCEPT !.sleep = Less(@)]
    BY DEF Tick
  <2> HIDE DEF Less
  <2> QED
    BY <2>1, <2>2, <2>3 DEF RequestType
<1>3. SlotInv'
  <2>1. UNCHANGED <<free, inFlight>>
    BY DEF Tick
  <2>2. req' \in [Requests -> RequestType]
    <3>1. req' = [s \in Requests |-> req'[s]]
      BY DEF Tick
    <3> QED
      BY <1>2, <3>1
  <2> QED
    BY <1>2, <2>1, <2>2, NobodyMoves
<1>4. LimiterOK'
  BY ConfigAssumption DEF LimiterOK, Tick, Less
<1>5. SleepOK'
  <2> SUFFICES ASSUME NEW s \in Requests, req'[s].at = "serve", req'[s].stage = "fetch"
               PROVE  req'[s].sleep >= delay'
    BY DEF SleepOK
  <2>1. req[s].sleep >= delay /\ req[s].sleep \in Nat /\ delay \in Nat
    BY <1>1, <1>2 DEF SleepOK, LimiterOK, RequestType
  <2>2. req'[s].sleep = Less(req[s].sleep) /\ delay' = Less(delay)
    BY <1>2 DEF Tick
  <2> QED
    BY <2>1, <2>2 DEF Less
<1> QED
  BY <1>2, <1>3, <1>4, <1>5
-----------------------------------------------------------------------------
(* Theorems *)

DeskInv == SlotInv /\ LimiterOK /\ SleepOK

\* What FetchesKeepTheirRate asks of a step.
RateKept ==
  /\ delay' = Interval - since'
  /\ \A r \in Requests :
       req[r].at = "serve" /\ req'[r].at = "get" => since = Interval

LEMMA InitDesk == Init => DeskInv
<1> SUFFICES ASSUME Init PROVE DeskInv
  OBVIOUS
<1>1. \A r \in Requests : req[r] \in RequestType /\ req[r].stage = "new" /\ req[r].at = "none"
  BY DEF Init, RequestType, Zero, Answers
<1>2. \A p \in Pools : Capacity[p] \in Nat
  BY ConfigAssumption DEF Capacity, Pools
<1>3. TypeOK
  <2>1. req \in [Requests -> RequestType]
    <3>1. req = [r \in Requests |-> req[r]]
      BY DEF Init
    <3> QED
      BY <1>1, <3>1
  <2>2. free \in [Pools -> Nat]
    BY <1>2 DEF Init, Capacity
  <2>3. inFlight \in [Kinds -> Int]
    BY DEF Init, Zero
  <2> QED
    BY <2>1, <2>2, <2>3 DEF TypeOK
<1>4. StagesOK
  BY <1>1 DEF StagesOK
<1>5. \A p \in Pools : Holders(p) = {} /\ Waiters(p) = {}
  BY <1>1 DEF Holders, Waiters, In
<1>6. PoolsOK
  <2>1. \A p \in Pools : free[p] = Capacity[p]
    BY DEF Init
  <2>2. \A p \in Pools : Cardinality(Holders(p)) = 0
    BY <1>5, FS_EmptySet
  <2> QED
    BY <1>2, <1>5, <2>1, <2>2 DEF PoolsOK, PoolOK
<1>7. GaugesOK
  <2>1. ModelServing = {} /\ SearchServing = {} /\ Getting = {}
    BY <1>1 DEF ModelServing, SearchServing, Getting, In
  <2>2. Cardinality({}) = 0
    BY FS_EmptySet
  <2> QED
    BY <2>1, <2>2 DEF GaugesOK, ModelServing, SearchServing, Getting, Init, Zero, Kinds
<1>8. LimiterOK /\ SleepOK
  BY <1>1, ConfigAssumption DEF LimiterOK, SleepOK, Init
<1> QED
  BY <1>3, <1>4, <1>6, <1>7, <1>8 DEF DeskInv, SlotInv

\* The invariant is kept by every step, and every step keeps the rate.
LEMMA NextDesk == DeskInv /\ [Next]_vars => DeskInv' /\ (RateKept \/ UNCHANGED vars)
<1> SUFFICES ASSUME DeskInv, [Next]_vars PROVE DeskInv' /\ (RateKept \/ UNCHANGED vars)
  OBVIOUS
<1>1. SlotInv /\ LimiterOK /\ SleepOK /\ TypeOK /\ delay \in Nat
  BY DEF DeskInv, SlotInv, LimiterOK
<1>2. ASSUME Tick PROVE DeskInv' /\ RateKept
  <2>1. SlotInv' /\ LimiterOK' /\ SleepOK' /\ \A s \in Requests : req'[s].at = req[s].at
    BY <1>1, <1>2, TickKeeps
  <2> QED
    BY <2>1 DEF DeskInv, RateKept, LimiterOK
<1>3. ASSUME NEW r \in Requests, Pass(r) PROVE DeskInv' /\ RateKept
  <2>1. SlotInv'
    BY <1>1, <1>3, PassKeeps
  <2>2. /\ LimiterOK' /\ SleepOK' /\ since = Interval
        /\ \A s \in Requests \ {r} : req'[s] = req[s] \/ req'[s].at = "granted"
    BY <1>1, <1>3, PassLimits
  <2> QED
    BY <2>1, <2>2 DEF DeskInv, RateKept, LimiterOK
<1>4. ASSUME NEW r \in Requests, SlotInv', OneStep(r) PROVE DeskInv' /\ RateKept
  <2>1. LimiterOK' /\ SleepOK'
    BY <1>1, <1>4, LimiterKept
  <2>2. \A s \in Requests : ~(req[s].at = "serve" /\ req'[s].at = "get")
    BY <1>4 DEF OneStep
  <2> QED
    BY <1>4, <2>1, <2>2 DEF DeskInv, RateKept, LimiterOK
<1>5. ASSUME NEW r \in Requests, Arrive(r) PROVE DeskInv' /\ RateKept
  <2>1. SlotInv'
    BY <1>1, <1>5, ArriveKeeps
  <2>2. OneStep(r)
    BY <1>1, <1>5, ArriveSteps
  <2> QED
    BY <1>4, <2>1, <2>2
<1>6. ASSUME NEW r \in Requests, Call(r) PROVE DeskInv' /\ RateKept
  <2>1. req[r].stage # "new"
    BY <1>1, <1>6 DEF SlotInv, StagesOK, Call
  <2>2. SlotInv'
    BY <1>1, <1>6, <2>1, CallKeeps
  <2>3. OneStep(r)
    BY <1>1, <1>6, CallSteps
  <2> QED
    BY <1>4, <2>2, <2>3
<1>7. ASSUME NEW r \in Requests, Resume(r) PROVE DeskInv' /\ RateKept
  <2>1. req[r].stage # "new"
    BY <1>1, <1>7 DEF SlotInv, StagesOK, Resume
  <2>2. SlotInv'
    BY <1>1, <1>7, <2>1, ResumeKeeps
  <2>3. OneStep(r)
    BY <1>1, <1>7, ResumeSteps
  <2> QED
    BY <1>4, <2>2, <2>3
<1>8. ASSUME NEW r \in Requests, Served(r) PROVE DeskInv' /\ RateKept
  <2>1. SlotInv'
    BY <1>1, <1>8, ModelServedKeeps, SearchServedKeeps, DocumentServedKeeps DEF Served
  <2>2. OneStep(r)
    BY <1>1, <1>8, ServedSteps
  <2> QED
    BY <1>4, <2>1, <2>2
<1>9. ASSUME NEW r \in Requests, Fail(r) PROVE DeskInv' /\ RateKept
  <2>1. SlotInv'
    BY <1>1, <1>9, FailKeeps
  <2>2. OneStep(r)
    BY <1>1, <1>9, FailSteps
  <2> QED
    BY <1>4, <2>1, <2>2
<1>10. ASSUME UNCHANGED vars PROVE DeskInv'
  <2>1. UNCHANGED <<req, free, inFlight, delay, since>>
    BY <1>10 DEF vars
  <2>2. SlotInv'
    BY <1>1, <2>1, NobodyMoves DEF TypeOK
  <2>3. LimiterOK' /\ SleepOK'
    BY <1>1, <2>1 DEF LimiterOK, SleepOK
  <2> QED
    BY <2>2, <2>3 DEF DeskInv
<1> QED
  BY <1>2, <1>3, <1>5, <1>6, <1>7, <1>8, <1>9, <1>10 DEF Next, Runs

\* The invariant holds of every run of the agent.
THEOREM DeskInvariant == Spec => []DeskInv
<1>1. Init => DeskInv
  BY InitDesk
<1>2. DeskInv /\ [Next]_vars => DeskInv'
  BY NextDesk
<1> QED
  BY <1>1, <1>2, PTL DEF Spec

\* No slot of model, search or fetch lock is lost, made or withheld from those
\* queued for it, however many requests there are and however they end.
THEOREM SlotsOfTheDesk == Spec => []SlotsAccounted
<1>1. DeskInv => SlotsAccounted
  BY DEF DeskInv, SlotInv, PoolsOK, PoolOK, GaugesOK, SlotsAccounted
<1> QED
  BY <1>1, DeskInvariant, PTL

\* The documents are fetched at the configured rate, and at no lower one for
\* the calls that were cancelled.
THEOREM RateOfTheDesk == Spec => FetchesKeepTheirRate
<1>1. DeskInv /\ [Next]_vars => [RateKept]_vars
  BY NextDesk
<1> QED
  BY <1>1, DeskInvariant, PTL DEF Spec, FetchesKeepTheirRate, RateKept

-----------------------------------------------------------------------------
(* Statistics and answers *)

StatsType ==
  stats \in [requests : Nat, calls : [Kinds -> Nat], errors : [Kinds -> Nat]]

\* What a request has been counted for, by the stage it has reached.
Story(x) ==
  /\ x.at = "none" <=> x.stage \in {"new", "over"}
  /\ \/ /\ x.stage \in {"new", "planner"} /\ x.answer = "none" /\ ~x.article
        /\ x.count["model"] = 0 /\ x.count["search"] = 0 /\ x.count["fetch"] = 0
     \/ /\ x.stage \in {"researcher", "search", "fetch"} /\ x.answer = "none" /\ ~x.article
        /\ x.count["model"] = 1 /\ x.count["search"] = 0 /\ x.count["fetch"] = 0
     \/ /\ x.stage = "writer" /\ x.answer = "none"
        /\ x.count["model"] = 2 /\ x.count["search"] = 1 /\ x.count["fetch"] <= 1
        /\ x.article => x.count["fetch"] = 1
     \/ /\ x.stage = "over" /\ x.answer # "none"
        /\ x.count["search"] <= 1 /\ x.count["fetch"] <= 1
        /\ x.answer \in {"resolved", "unresolved"} => x.count["model"] = 3 /\ x.count["search"] = 1
        /\ x.answer = "resolved" => x.count["fetch"] = 1 /\ x.article
        /\ x.answer \in {"400", "500", "503"} => x.count["model"] <= 2

Bit(b) == IF b THEN 1 ELSE 0

IsDead(x) == x.answer = "503"
IsVain(x) == x.count["search"] = 1 /\ ~x.article
IsSearched(x) == x.count["search"] = 1
IsSearching(x) == (x.stage \in {"search"} /\ x.at # "enter") \/ x.stage = "fetch"
IsFetched(x) == x.count["fetch"] = 1
IsFetching(x) == x.stage \in {"fetch"} /\ x.at # "enter"
IsStarted(x) == x.stage # "new" /\ x.answer # "400"
IsBroken(x) == x.answer = "500" /\ x.count["model"] = 0

\* The calls of the model it has made, the one that killed it included.
Calls(x) == x.count["model"] +
  Bit(\/ x.stage \in ModelStages /\ x.at # "enter"
      \/ x.stage \in {"search", "fetch"}
      \/ x.answer \in {"500", "503"})

Deads(q) == {r \in Requests : IsDead(q[r])}
Vains(q) == {r \in Requests : IsVain(q[r])}
Searches(q) == {r \in Requests : IsSearched(q[r])}
Searching(q) == {r \in Requests : IsSearching(q[r])}
Fetches(q) == {r \in Requests : IsFetched(q[r])}
Fetching(q) == {r \in Requests : IsFetching(q[r])}
Started(q) == {r \in Requests : IsStarted(q[r])}
Broken(q) == {r \in Requests : IsBroken(q[r])}
Calling(q, i) == {r \in Requests : Calls(q[r]) >= i}

ErrorsMatch ==
  /\ stats.errors["model"] = Cardinality(Deads(req))
  /\ stats.errors["search"] + stats.errors["fetch"] <= Cardinality(Vains(req))

CallsMatch ==
  /\ stats.calls["search"] = Cardinality(Searches(req)) + Cardinality(Searching(req))
  /\ stats.calls["fetch"] = Cardinality(Fetches(req)) + Cardinality(Fetching(req))

\* A 500 may be the end of a request that was never counted, or of a call.
ModelCallsMatch ==
  /\ stats.calls["model"] + (Cardinality(Started(req)) - stats.requests)
       = Cardinality(Calling(req, 1)) + Cardinality(Calling(req, 2))
                                     + Cardinality(Calling(req, 3))
  /\ stats.requests <= Cardinality(Started(req))
  /\ Cardinality(Started(req)) <= stats.requests + Cardinality(Broken(req))

Stories == \A r \in Requests : Story(req[r])

StatsInv == StatsType /\ Stories /\ ErrorsMatch /\ CallsMatch /\ ModelCallsMatch

-----------------------------------------------------------------------------
(* One request's step, in the counts *)

\* What being woken, served or asleep leaves alone.
Same(x, y) ==
  /\ y.stage = x.stage /\ y.answer = x.answer /\ y.article = x.article /\ y.count = x.count
  /\ y.at = "enter" <=> x.at = "enter"
  /\ y.at = "none" <=> x.at = "none"

\* The counts in stats move as the request does.
Explains(x, y) ==
  /\ stats'.errors["model"] = stats.errors["model"] + Bit(IsDead(y)) - Bit(IsDead(x))
  /\ stats'.errors["search"] + stats'.errors["fetch"]
       <= stats.errors["search"] + stats.errors["fetch"] + Bit(IsVain(y)) - Bit(IsVain(x))
  /\ stats'.calls["search"] = stats.calls["search"]
       + Bit(IsSearched(y)) - Bit(IsSearched(x)) + Bit(IsSearching(y)) - Bit(IsSearching(x))
  /\ stats'.calls["fetch"] = stats.calls["fetch"]
       + Bit(IsFetched(y)) - Bit(IsFetched(x)) + Bit(IsFetching(y)) - Bit(IsFetching(x))
  /\ stats'.calls["model"] + Bit(IsStarted(y)) - Bit(IsStarted(x)) + stats.requests
       = stats'.requests + stats.calls["model"] + Calls(y) - Calls(x)
  /\ stats'.requests <= stats.requests + Bit(IsStarted(y)) - Bit(IsStarted(x))
  /\ stats.requests + Bit(IsStarted(y)) - Bit(IsStarted(x))
       <= stats'.requests + Bit(IsBroken(y)) - Bit(IsBroken(x))

LEMMA Recount ==
  ASSUME NEW A \in SUBSET Requests, NEW B \in SUBSET Requests, NEW r \in Requests,
         \A s \in Requests \ {r} : s \in A <=> s \in B
  PROVE  /\ Cardinality(A) \in Nat /\ Cardinality(B) \in Nat
         /\ Cardinality(B) = Cardinality(A) + Bit(r \in B) - Bit(r \in A)
<1>1. IsFiniteSet(A) /\ IsFiniteSet(B)
  BY RequestsAssumption, FS_Subset
<1>2. Cardinality(A) \in Nat /\ Cardinality(B) \in Nat
  BY <1>1, FS_CardinalityType
<1>3. CASE r \in A /\ r \notin B
  <2>1. B = A \ {r}
    BY <1>3
  <2> QED
    BY <1>1, <1>2, <1>3, <2>1, FS_RemoveElement DEF Bit
<1>4. CASE r \notin A /\ r \in B
  <2>1. B = A \cup {r}
    BY <1>4
  <2> QED
    BY <1>1, <1>2, <1>4, <2>1, FS_AddElement DEF Bit
<1>5. CASE r \in A <=> r \in B
  <2>1. B = A
    BY <1>5
  <2> QED
    BY <1>2, <1>5, <2>1 DEF Bit
<1> QED
  BY <1>2, <1>3, <1>4, <1>5

\* A request that only waits or is woken counts as before.
LEMMA SameCounts ==
  ASSUME NEW x, NEW y, Same(x, y)
  PROVE  /\ IsDead(y) <=> IsDead(x)
         /\ IsVain(y) <=> IsVain(x)
         /\ IsSearched(y) <=> IsSearched(x)
         /\ IsSearching(y) <=> IsSearching(x)
         /\ IsFetched(y) <=> IsFetched(x)
         /\ IsFetching(y) <=> IsFetching(x)
         /\ IsStarted(y) <=> IsStarted(x)
         /\ IsBroken(y) <=> IsBroken(x)
         /\ Calls(y) = Calls(x)
         /\ Story(x) => Story(y)
<1>1. /\ IsDead(y) <=> IsDead(x)
      /\ IsVain(y) <=> IsVain(x)
      /\ IsSearched(y) <=> IsSearched(x)
      /\ IsSearching(y) <=> IsSearching(x)
      /\ IsFetched(y) <=> IsFetched(x)
      /\ IsFetching(y) <=> IsFetching(x)
      /\ IsStarted(y) <=> IsStarted(x)
      /\ IsBroken(y) <=> IsBroken(x)
  BY DEF Same, IsDead, IsVain, IsSearched, IsSearching, IsFetched, IsFetching, IsStarted, IsBroken
<1>2. Calls(y) = Calls(x)
  BY DEF Same, Calls, Bit
<1>3. Story(x) => Story(y)
  BY DEF Same, Story
<1> QED
  BY <1>1, <1>2, <1>3

LEMMA CallsType ==
  ASSUME NEW x \in RequestType, Story(x)
  PROVE  /\ Calls(x) \in 0..3
         /\ Calls(x) = Bit(Calls(x) >= 1) + Bit(Calls(x) >= 2) + Bit(Calls(x) >= 3)
<1>1. x.count["model"] \in Nat /\ x.answer \in Answers
  BY DEF RequestType, Kinds
<1>2. Calls(x) \in 0..3
  <2>1. CASE x.answer \in {"resolved", "unresolved"}
    <3>1. x.stage = "over" /\ x.count["model"] = 3
      BY <2>1 DEF Story
    <3> QED
      BY <2>1, <3>1 DEF Calls, Bit, ModelStages
  <2>2. CASE x.answer \notin {"resolved", "unresolved"}
    <3>1. x.count["model"] <= 2
      BY <1>1, <2>2 DEF Story, Answers
    <3> QED
      BY <1>1, <3>1 DEF Calls, Bit
  <2> QED
    BY <2>1, <2>2
<1> HIDE DEF Calls
<1> QED
  BY <1>2 DEF Bit

\* The counts follow a request whose step explains them.
LEMMA StatsFollow ==
  ASSUME TypeOK, req' \in [Requests -> RequestType], StatsInv, StatsType',
         NEW r \in Requests, \A s \in Requests \ {r} : Same(req[s], req'[s]),
         req[r].answer # "500", Story(req'[r]), Explains(req[r], req'[r])
  PROVE  StatsInv'
<1>1. \A s \in Requests \ {r} :
        /\ IsDead(req'[s]) <=> IsDead(req[s])
        /\ IsVain(req'[s]) <=> IsVain(req[s])
        /\ IsSearched(req'[s]) <=> IsSearched(req[s])
        /\ IsSearching(req'[s]) <=> IsSearching(req[s])
        /\ IsFetched(req'[s]) <=> IsFetched(req[s])
        /\ IsFetching(req'[s]) <=> IsFetching(req[s])
        /\ IsStarted(req'[s]) <=> IsStarted(req[s])
        /\ IsBroken(req'[s]) <=> IsBroken(req[s])
        /\ Calls(req'[s]) = Calls(req[s])
        /\ Story(req[s]) => Story(req'[s])
        /\ req'[s].answer = req[s].answer
  BY SameCounts DEF Same
<1>2. Stories'
  BY <1>1 DEF StatsInv, Stories
<1>3. /\ Cardinality(Deads(req)) \in Nat /\ Cardinality(Deads(req')) \in Nat
      /\ Cardinality(Deads(req')) = Cardinality(Deads(req))
           + Bit(IsDead(req'[r])) - Bit(IsDead(req[r]))
  <2> DEFINE A == Deads(req)  B == Deads(req')
  <2>1. /\ A \in SUBSET Requests /\ B \in SUBSET Requests
        /\ \A s \in Requests \ {r} : s \in A <=> s \in B
        /\ r \in A <=> IsDead(req[r])
        /\ r \in B <=> IsDead(req'[r])
    BY <1>1 DEF Deads
  <2> HIDE DEF A, B
  <2>2. /\ Cardinality(A) \in Nat /\ Cardinality(B) \in Nat
        /\ Cardinality(B) = Cardinality(A) + Bit(r \in B) - Bit(r \in A)
    BY <2>1, Recount
  <2> QED
    BY <2>1, <2>2 DEF A, B, Bit
<1>4. /\ Cardinality(Vains(req)) \in Nat /\ Cardinality(Vains(req')) \in Nat
      /\ Cardinality(Vains(req')) = Cardinality(Vains(req))
           + Bit(IsVain(req'[r])) - Bit(IsVain(req[r]))
  <2> DEFINE A == Vains(req)  B == Vains(req')
  <2>1. /\ A \in SUBSET Requests /\ B \in SUBSET Requests
        /\ \A s \in Requests \ {r} : s \in A <=> s \in B
        /\ r \in A <=> IsVain(req[r])
        /\ r \in B <=> IsVain(req'[r])
    BY <1>1 DEF Vains
  <2> HIDE DEF A, B
  <2>2. /\ Cardinality(A) \in Nat /\ Cardinality(B) \in Nat
        /\ Cardinality(B) = Cardinality(A) + Bit(r \in B) - Bit(r \in A)
    BY <2>1, Recount
  <2> QED
    BY <2>1, <2>2 DEF A, B, Bit
<1>5. /\ Cardinality(Searches(req)) \in Nat /\ Cardinality(Searches(req')) \in Nat
      /\ Cardinality(Searches(req')) = Cardinality(Searches(req))
           + Bit(IsSearched(req'[r])) - Bit(IsSearched(req[r]))
  <2> DEFINE A == Searches(req)  B == Searches(req')
  <2>1. /\ A \in SUBSET Requests /\ B \in SUBSET Requests
        /\ \A s \in Requests \ {r} : s \in A <=> s \in B
        /\ r \in A <=> IsSearched(req[r])
        /\ r \in B <=> IsSearched(req'[r])
    BY <1>1 DEF Searches
  <2> HIDE DEF A, B
  <2>2. /\ Cardinality(A) \in Nat /\ Cardinality(B) \in Nat
        /\ Cardinality(B) = Cardinality(A) + Bit(r \in B) - Bit(r \in A)
    BY <2>1, Recount
  <2> QED
    BY <2>1, <2>2 DEF A, B, Bit
<1>6. /\ Cardinality(Searching(req)) \in Nat /\ Cardinality(Searching(req')) \in Nat
      /\ Cardinality(Searching(req')) = Cardinality(Searching(req))
           + Bit(IsSearching(req'[r])) - Bit(IsSearching(req[r]))
  <2> DEFINE A == Searching(req)  B == Searching(req')
  <2>1. /\ A \in SUBSET Requests /\ B \in SUBSET Requests
        /\ \A s \in Requests \ {r} : s \in A <=> s \in B
        /\ r \in A <=> IsSearching(req[r])
        /\ r \in B <=> IsSearching(req'[r])
    BY <1>1 DEF Searching
  <2> HIDE DEF A, B
  <2>2. /\ Cardinality(A) \in Nat /\ Cardinality(B) \in Nat
        /\ Cardinality(B) = Cardinality(A) + Bit(r \in B) - Bit(r \in A)
    BY <2>1, Recount
  <2> QED
    BY <2>1, <2>2 DEF A, B, Bit
<1>7. /\ Cardinality(Fetches(req)) \in Nat /\ Cardinality(Fetches(req')) \in Nat
      /\ Cardinality(Fetches(req')) = Cardinality(Fetches(req))
           + Bit(IsFetched(req'[r])) - Bit(IsFetched(req[r]))
  <2> DEFINE A == Fetches(req)  B == Fetches(req')
  <2>1. /\ A \in SUBSET Requests /\ B \in SUBSET Requests
        /\ \A s \in Requests \ {r} : s \in A <=> s \in B
        /\ r \in A <=> IsFetched(req[r])
        /\ r \in B <=> IsFetched(req'[r])
    BY <1>1 DEF Fetches
  <2> HIDE DEF A, B
  <2>2. /\ Cardinality(A) \in Nat /\ Cardinality(B) \in Nat
        /\ Cardinality(B) = Cardinality(A) + Bit(r \in B) - Bit(r \in A)
    BY <2>1, Recount
  <2> QED
    BY <2>1, <2>2 DEF A, B, Bit
<1>8. /\ Cardinality(Fetching(req)) \in Nat /\ Cardinality(Fetching(req')) \in Nat
      /\ Cardinality(Fetching(req')) = Cardinality(Fetching(req))
           + Bit(IsFetching(req'[r])) - Bit(IsFetching(req[r]))
  <2> DEFINE A == Fetching(req)  B == Fetching(req')
  <2>1. /\ A \in SUBSET Requests /\ B \in SUBSET Requests
        /\ \A s \in Requests \ {r} : s \in A <=> s \in B
        /\ r \in A <=> IsFetching(req[r])
        /\ r \in B <=> IsFetching(req'[r])
    BY <1>1 DEF Fetching
  <2> HIDE DEF A, B
  <2>2. /\ Cardinality(A) \in Nat /\ Cardinality(B) \in Nat
        /\ Cardinality(B) = Cardinality(A) + Bit(r \in B) - Bit(r \in A)
    BY <2>1, Recount
  <2> QED
    BY <2>1, <2>2 DEF A, B, Bit
<1>9. /\ Cardinality(Started(req)) \in Nat /\ Cardinality(Started(req')) \in Nat
      /\ Cardinality(Started(req')) = Cardinality(Started(req))
           + Bit(IsStarted(req'[r])) - Bit(IsStarted(req[r]))
  <2> DEFINE A == Started(req)  B == Started(req')
  <2>1. /\ A \in SUBSET Requests /\ B \in SUBSET Requests
        /\ \A s \in Requests \ {r} : s \in A <=> s \in B
        /\ r \in A <=> IsStarted(req[r])
        /\ r \in B <=> IsStarted(req'[r])
    BY <1>1 DEF Started
  <2> HIDE DEF A, B
  <2>2. /\ Cardinality(A) \in Nat /\ Cardinality(B) \in Nat
        /\ Cardinality(B) = Cardinality(A) + Bit(r \in B) - Bit(r \in A)
    BY <2>1, Recount
  <2> QED
    BY <2>1, <2>2 DEF A, B, Bit
<1>9a. /\ Cardinality(Broken(req)) \in Nat /\ Cardinality(Broken(req')) \in Nat
       /\ Cardinality(Broken(req')) = Cardinality(Broken(req))
            + Bit(IsBroken(req'[r])) - Bit(IsBroken(req[r]))
  <2> DEFINE A == Broken(req)  B == Broken(req')
  <2>1. /\ A \in SUBSET Requests /\ B \in SUBSET Requests
        /\ \A s \in Requests \ {r} : s \in A <=> s \in B
        /\ r \in A <=> IsBroken(req[r])
        /\ r \in B <=> IsBroken(req'[r])
    BY <1>1 DEF Broken
  <2> HIDE DEF A, B
  <2>2. /\ Cardinality(A) \in Nat /\ Cardinality(B) \in Nat
        /\ Cardinality(B) = Cardinality(A) + Bit(r \in B) - Bit(r \in A)
    BY <2>1, Recount
  <2> QED
    BY <2>1, <2>2 DEF A, B, Bit
<1>10. ASSUME NEW i \in 1..3
      PROVE  /\ Cardinality(Calling(req, i)) \in Nat /\ Cardinality(Calling(req', i)) \in Nat
             /\ Cardinality(Calling(req', i)) = Cardinality(Calling(req, i))
                  + Bit(Calls(req'[r]) >= i) - Bit(Calls(req[r]) >= i)
  <2> DEFINE A == Calling(req, i)  B == Calling(req', i)
  <2>1. /\ A \in SUBSET Requests /\ B \in SUBSET Requests
        /\ \A s \in Requests \ {r} : s \in A <=> s \in B
        /\ r \in A <=> Calls(req[r]) >= i
        /\ r \in B <=> Calls(req'[r]) >= i
    BY <1>1 DEF Calling
  <2> HIDE DEF A, B
  <2>2. /\ Cardinality(A) \in Nat /\ Cardinality(B) \in Nat
        /\ Cardinality(B) = Cardinality(A) + Bit(r \in B) - Bit(r \in A)
    BY <2>1, Recount
  <2> QED
    BY <2>1, <2>2 DEF A, B, Bit
<1>11. /\ \A b : Bit(b) \in Nat
       /\ stats.errors["model"] \in Nat /\ stats.errors["search"] \in Nat
       /\ stats.errors["fetch"] \in Nat /\ stats.calls["model"] \in Nat
       /\ stats.calls["search"] \in Nat /\ stats.calls["fetch"] \in Nat
       /\ stats.requests \in Nat
       /\ stats'.errors["model"] \in Nat /\ stats'.errors["search"] \in Nat
       /\ stats'.errors["fetch"] \in Nat /\ stats'.calls["model"] \in Nat
       /\ stats'.calls["search"] \in Nat /\ stats'.calls["fetch"] \in Nat
       /\ stats'.requests \in Nat
  BY DEF StatsInv, StatsType, Kinds, Bit
<1>12. ErrorsMatch'
  <2>1. ErrorsMatch
    BY DEF StatsInv
  <2> QED
    BY <1>3, <1>4, <1>11, <2>1 DEF ErrorsMatch, Explains
<1>13. CallsMatch'
  <2>1. CallsMatch
    BY DEF StatsInv
  <2> QED
    BY <1>5, <1>6, <1>7, <1>8, <1>11, <2>1 DEF CallsMatch, Explains
<1>14. ModelCallsMatch'
  <2>2. ModelCallsMatch
    BY DEF StatsInv
  <2>3. /\ Calls(req[r]) \in 0..3
        /\ Calls(req[r]) = Bit(Calls(req[r]) >= 1) + Bit(Calls(req[r]) >= 2)
             + Bit(Calls(req[r]) >= 3)
    BY CallsType DEF TypeOK, StatsInv, Stories
  <2>4. /\ Calls(req'[r]) \in 0..3
        /\ Calls(req'[r]) = Bit(Calls(req'[r]) >= 1) + Bit(Calls(req'[r]) >= 2)
             + Bit(Calls(req'[r]) >= 3)
    BY CallsType
  <2>5. /\ stats'.calls["model"] + Bit(IsStarted(req'[r])) - Bit(IsStarted(req[r])) + stats.requests
             = stats'.requests + stats.calls["model"] + Calls(req'[r]) - Calls(req[r])
        /\ stats'.requests <= stats.requests + Bit(IsStarted(req'[r])) - Bit(IsStarted(req[r]))
        /\ stats.requests + Bit(IsStarted(req'[r])) - Bit(IsStarted(req[r]))
             <= stats'.requests + Bit(IsBroken(req'[r])) - Bit(IsBroken(req[r]))
    BY DEF Explains
  <2>6. /\ Cardinality(Calling(req', 1)) = Cardinality(Calling(req, 1))
             + Bit(Calls(req'[r]) >= 1) - Bit(Calls(req[r]) >= 1)
        /\ Cardinality(Calling(req', 2)) = Cardinality(Calling(req, 2))
             + Bit(Calls(req'[r]) >= 2) - Bit(Calls(req[r]) >= 2)
        /\ Cardinality(Calling(req', 3)) = Cardinality(Calling(req, 3))
             + Bit(Calls(req'[r]) >= 3) - Bit(Calls(req[r]) >= 3)
        /\ Cardinality(Calling(req, 1)) \in Nat /\ Cardinality(Calling(req, 2)) \in Nat
        /\ Cardinality(Calling(req, 3)) \in Nat
    BY <1>10
  <2>7. /\ stats'.requests <= Cardinality(Started(req'))
        /\ Cardinality(Started(req')) <= stats'.requests + Cardinality(Broken(req'))
    BY <1>9, <1>9a, <1>11, <2>2, <2>5 DEF ModelCallsMatch
  <2>8. stats'.calls["model"] + (Cardinality(Started(req')) - stats'.requests)
          = Cardinality(Calling(req', 1)) + Cardinality(Calling(req', 2))
              + Cardinality(Calling(req', 3))
    <3>1. stats'.calls["model"] + (Cardinality(Started(req')) - stats'.requests)
            = stats.calls["model"] + (Cardinality(Started(req)) - stats.requests)
                + Calls(req'[r]) - Calls(req[r])
      <4>1. PICK a \in {0, 1} : a = Bit(IsStarted(req[r]))
        BY DEF Bit
      <4>2. PICK b \in {0, 1} : b = Bit(IsStarted(req'[r]))
        BY DEF Bit
      <4>3. PICK c \in 0..3, d \in 0..3 : c = Calls(req[r]) /\ d = Calls(req'[r])
        BY <2>3, <2>4
      <4>4. /\ Cardinality(Started(req)) \in Nat /\ Cardinality(Started(req')) \in Nat
            /\ Cardinality(Started(req')) = Cardinality(Started(req)) + b - a
        BY <1>9, <4>1, <4>2
      <4>5. stats'.calls["model"] + b - a + stats.requests
              = stats'.requests + stats.calls["model"] + d - c
        BY <2>5, <4>1, <4>2, <4>3
      <4> QED
        <5>1. PICK n \in Nat, m \in Nat : n = stats.calls["model"] /\ m = stats'.calls["model"]
          BY <1>11
        <5>2. PICK i \in Nat, j \in Nat : i = stats.requests /\ j = stats'.requests
          BY <1>11
        <5>3. PICK s \in Nat, t \in Nat : s = Cardinality(Started(req)) /\ t = Cardinality(Started(req'))
          BY <4>4
        <5>4. t = s + b - a /\ m + b - a + i = j + n + d - c
          BY <4>4, <4>5, <5>1, <5>2, <5>3
        <5>5. m + (t - j) = n + (s - i) + d - c
          BY <4>1, <4>2, <4>3, <5>1, <5>2, <5>3, <5>4
        <5> QED
          BY <4>3, <5>1, <5>2, <5>3, <5>5
    <3>2. stats.calls["model"] + (Cardinality(Started(req)) - stats.requests)
            = Cardinality(Calling(req, 1)) + Cardinality(Calling(req, 2))
                + Cardinality(Calling(req, 3))
      BY <2>2 DEF ModelCallsMatch
    <3> QED
      BY <1>11, <2>3, <2>4, <2>6, <3>1, <3>2
  <2> QED
    BY <2>7, <2>8 DEF ModelCallsMatch
<1> QED
  BY <1>2, <1>12, <1>13, <1>14 DEF StatsInv

LEMMA StatsExplained == TypeOK /\ StatsInv => StatsExplainAnswers
<1> SUFFICES ASSUME TypeOK, StatsInv PROVE StatsExplainAnswers
  OBVIOUS
<1>1. stats.errors.model = Count(LAMBDA r : req[r].answer = "503")
  BY DEF StatsInv, ErrorsMatch, Count, Deads, IsDead
<1>2. stats.errors.search + stats.errors.fetch <=
        Count(LAMBDA r : req[r].count.search = 1 /\ ~req[r].article)
  BY DEF StatsInv, ErrorsMatch, Count, Vains, IsVain
<1>3. stats.calls.search = Count(LAMBDA r : req[r].count.search = 1)
        + Count(LAMBDA r : (req[r].stage \in {"search"} /\ req[r].at # "enter")
                             \/ req[r].stage = "fetch")
  BY DEF StatsInv, CallsMatch, Count, Searches, Searching, IsSearched, IsSearching
<1>4. stats.calls.fetch = Count(LAMBDA r : req[r].count.fetch = 1)
        + Count(LAMBDA r : req[r].stage \in {"fetch"} /\ req[r].at # "enter")
  BY DEF StatsInv, CallsMatch, Count, Fetches, Fetching, IsFetched, IsFetching
<1>5. ASSUME NEW r \in Requests
      PROVE  /\ req[r].count.search <= 1 /\ req[r].count.fetch <= 1
             /\ req[r].answer \in {"resolved", "unresolved"} =>
                  req[r].count.model = 3 /\ req[r].count.search = 1
             /\ req[r].answer = "resolved" => req[r].count.fetch = 1 /\ req[r].article
  BY DEF StatsInv, Stories, Story
<1> DEFINE Made(r) == req[r].count.model
      + IF \/ req[r].stage \in ModelStages /\ req[r].at # "enter"
           \/ req[r].stage \in {"search", "fetch"} \/ req[r].answer \in {"500", "503"}
        THEN 1 ELSE 0
           broken == Count(LAMBDA r : req[r].stage # "new" /\ req[r].answer # "400")
                       - stats.requests
<1>6. \A r \in Requests : Made(r) = Calls(req[r]) /\ Made(r) <= 3
  <2> SUFFICES ASSUME NEW r \in Requests PROVE Made(r) = Calls(req[r]) /\ Made(r) <= 3
    OBVIOUS
  <2>1. Made(r) = Calls(req[r])
    BY DEF Calls, Bit
  <2>2. Calls(req[r]) \in 0..3
    BY CallsType DEF TypeOK, StatsInv, Stories
  <2> QED
    BY <2>1, <2>2
<1>7. broken = Cardinality(Started(req)) - stats.requests
  BY DEF Count, Started, IsStarted
<1> HIDE DEF Made, broken
<1>8. /\ Count(LAMBDA r : Made(r) >= 1) = Cardinality(Calling(req, 1))
      /\ Count(LAMBDA r : Made(r) >= 2) = Cardinality(Calling(req, 2))
      /\ Count(LAMBDA r : Made(r) >= 3) = Cardinality(Calling(req, 3))
  <2>1. \A i : {r \in Requests : Made(r) >= i} = Calling(req, i)
    BY <1>6 DEF Calling
  <2> QED
    BY <2>1 DEF Count
<1>9. stats.calls.model + broken = Count(LAMBDA r : Made(r) >= 1)
        + Count(LAMBDA r : Made(r) >= 2) + Count(LAMBDA r : Made(r) >= 3)
  BY <1>7, <1>8 DEF StatsInv, ModelCallsMatch
<1>10. broken \in 0..Count(LAMBDA r : req[r].answer = "500" /\ req[r].count.model = 0)
  <2>1. Cardinality(Started(req)) \in Nat /\ Cardinality(Broken(req)) \in Nat
    BY RequestsAssumption, FS_Subset, FS_CardinalityType DEF Started, Broken
  <2>2. Count(LAMBDA r : req[r].answer = "500" /\ req[r].count.model = 0)
          = Cardinality(Broken(req))
    BY DEF Count, Broken, IsBroken
  <2>3. stats.requests \in Nat /\ stats.requests <= Cardinality(Started(req))
        /\ Cardinality(Started(req)) <= stats.requests + Cardinality(Broken(req))
    BY DEF StatsInv, StatsType, ModelCallsMatch
  <2> QED
    BY <1>7, <2>1, <2>2, <2>3
<1> QED
  BY <1>1, <1>2, <1>3, <1>4, <1>5, <1>6, <1>9, <1>10 DEF StatsExplainAnswers, Made, broken

-----------------------------------------------------------------------------
(* What each step tells *)

\* Everybody only waits, is woken or sleeps.
LEMMA StatsStill ==
  ASSUME StatsInv, UNCHANGED stats, \A s \in Requests : Same(req[s], req'[s])
  PROVE  StatsInv'
<1>1. \A s \in Requests :
        /\ IsDead(req'[s]) <=> IsDead(req[s])
        /\ IsVain(req'[s]) <=> IsVain(req[s])
        /\ IsSearched(req'[s]) <=> IsSearched(req[s])
        /\ IsSearching(req'[s]) <=> IsSearching(req[s])
        /\ IsFetched(req'[s]) <=> IsFetched(req[s])
        /\ IsFetching(req'[s]) <=> IsFetching(req[s])
        /\ IsStarted(req'[s]) <=> IsStarted(req[s])
        /\ IsBroken(req'[s]) <=> IsBroken(req[s])
        /\ Calls(req'[s]) = Calls(req[s])
        /\ Story(req[s]) => Story(req'[s])
        /\ req'[s].answer = req[s].answer
  BY SameCounts DEF Same
<1>2. /\ Deads(req') = Deads(req) /\ Vains(req') = Vains(req)
      /\ Searches(req') = Searches(req) /\ Searching(req') = Searching(req)
      /\ Fetches(req') = Fetches(req) /\ Fetching(req') = Fetching(req)
      /\ Started(req') = Started(req) /\ Broken(req') = Broken(req)
  BY <1>1 DEF Deads, Vains, Searches, Searching, Fetches, Fetching, Started, Broken
<1>3. \A i : Calling(req', i) = Calling(req, i)
  BY <1>1 DEF Calling
<1>4. Stories' /\ StatsType'
  BY <1>1 DEF StatsInv, Stories, StatsType
<1>5. ErrorsMatch' /\ CallsMatch'
  BY <1>2 DEF StatsInv, ErrorsMatch, CallsMatch
<1>6. ModelCallsMatch'
  BY <1>1, <1>2, <1>3 DEF StatsInv, ModelCallsMatch
<1> QED
  BY <1>4, <1>5, <1>6 DEF StatsInv

\* A step of r that stats explain.
Told(r) ==
  /\ req' \in [Requests -> RequestType]
  /\ \A s \in Requests \ {r} : Same(req[s], req'[s])
  /\ req[r].answer # "500" /\ Story(req'[r])
  /\ StatsType' /\ Explains(req[r], req'[r])

LEMMA WakeSame ==
  ASSUME TypeOK, NEW p, NEW r \in Requests, NEW new \in RequestType, NEW value,
         Wake(p, r, new, value), req[r].at # "wait"
  PROVE  /\ req' \in [Requests -> RequestType] /\ req'[r] = new
         /\ \A s \in Requests \ {r} : Same(req[s], req'[s])
<1>1. CASE req' = [req EXCEPT ![r] = new]
  <2>1. \A s \in Requests : req'[s] = IF s = r THEN new ELSE req[s]
    BY <1>1, OneMoves
  <2>2. req' \in [Requests -> RequestType]
    BY <1>1 DEF TypeOK
  <2> QED
    BY <2>1, <2>2 DEF Same
<1>2. ASSUME NEW w \in Waiters(p), req' = [req EXCEPT ![r] = new, ![w].at = "granted"]
      PROVE  /\ req' \in [Requests -> RequestType] /\ req'[r] = new
             /\ \A s \in Requests \ {r} : Same(req[s], req'[s])
  <2> DEFINE woken == [req[w] EXCEPT !.at = "granted"]
  <2>1. w \in Requests /\ req[w] \in RequestType /\ req[w].at = "wait" /\ w # r
    BY DEF Waiters, In, TypeOK
  <2>2. req' = [s \in Requests |-> IF s = w THEN woken ELSE IF s = r THEN new ELSE req[s]]
    BY <1>2, <2>1 DEF TypeOK
  <2>3. woken \in RequestType /\ Same(req[w], woken)
    BY <2>1 DEF RequestType, Same
  <2> HIDE DEF woken
  <2>4. req' \in [Requests -> RequestType]
    BY <2>2, <2>3 DEF TypeOK
  <2>5. \A s \in Requests \ {r} : Same(req[s], req'[s])
    <3> SUFFICES ASSUME NEW s \in Requests \ {r} PROVE Same(req[s], req'[s])
      OBVIOUS
    <3>1. CASE s = w
      BY <2>2, <2>3, <3>1
    <3>2. CASE s # w
      BY <2>2, <3>2 DEF Same
    <3> QED
      BY <3>1, <3>2
  <2> QED
    BY <2>1, <2>2, <2>4, <2>5
<1> QED
  BY <1>1, <1>2 DEF Wake

LEMMA AloneSame ==
  ASSUME TypeOK, NEW r \in Requests, NEW new \in RequestType, req' = [req EXCEPT ![r] = new]
  PROVE  /\ req' \in [Requests -> RequestType] /\ req'[r] = new
         /\ \A s \in Requests \ {r} : Same(req[s], req'[s])
<1>1. \A s \in Requests : req'[s] = IF s = r THEN new ELSE req[s]
  BY OneMoves
<1>2. req' \in [Requests -> RequestType]
  BY DEF TypeOK
<1> QED
  BY <1>1, <1>2 DEF Same

\* The fields a request goes on with.
Tells(y, x, stage, at, answer) ==
  /\ y.stage = stage /\ y.at = at /\ y.answer = answer
  /\ y.article = x.article /\ y.count = x.count

LEMMA ToTells ==
  ASSUME TypeOK, NEW r \in Requests, NEW stage
  PROVE  Tells(To(r, stage), req[r], stage, "enter", req[r].answer)
<1>1. req[r] \in RequestType
  BY DEF TypeOK
<1> QED
  BY <1>1 DEF To, Tells, RequestType

LEMMA AnsweredTells ==
  ASSUME TypeOK, NEW r \in Requests, NEW answer
  PROVE  Tells(Answered(r, answer), req[r], "over", "none", answer)
<1>1. req[r] \in RequestType
  BY DEF TypeOK
<1> QED
  BY <1>1 DEF Answered, Tells, RequestType

LEMMA BegunTells ==
  ASSUME TypeOK, NEW r \in Requests
  PROVE  Tells(Begun(r), req[r], req[r].stage, "serve", req[r].answer)
<1>1. req[r] \in RequestType
  BY DEF TypeOK
<1> QED
  BY <1>1 DEF Begun, Tells, RequestType

LEMMA CountedTells ==
  ASSUME NEW new \in RequestType, NEW k \in Kinds
  PROVE  LET y == Counted(new, k) IN
         /\ y.stage = new.stage /\ y.at = new.at /\ y.answer = new.answer
         /\ y.article = new.article
         /\ \A j \in Kinds : y.count[j] = new.count[j] + Bit(j = k)
<1>1. new.count \in [Kinds -> Nat]
  BY DEF RequestType
<1> DEFINE count == [new.count EXCEPT ![k] = @ + 1]
<1>2. \A j \in Kinds : count[j] = new.count[j] + Bit(j = k)
  BY <1>1 DEF Bit
<1>3. Counted(new, k) = [new EXCEPT !.count = count]
  BY DEF Counted
<1> HIDE DEF count
<1> QED
  BY <1>2, <1>3 DEF RequestType

LEMMA ResearchedTells ==
  ASSUME TypeOK, NEW r \in Requests, NEW article \in BOOLEAN, NEW fetched \in BOOLEAN
  PROVE  LET y == Researched(r, article, fetched) IN
         /\ y.stage = "writer" /\ y.at = "enter" /\ y.answer = req[r].answer
         /\ y.article = article
         /\ y.count["model"] = req[r].count["model"] + 1
         /\ y.count["search"] = req[r].count["search"] + 1
         /\ y.count["fetch"] = req[r].count["fetch"] + Bit(fetched)
<1> DEFINE a == To(r, "writer")
           b == [a EXCEPT !.article = article]
           c == Counted(b, "model")
           d == Counted(c, "search")
           e == Counted(d, "fetch")
<1>1. Tells(a, req[r], "writer", "enter", req[r].answer) /\ a \in Rest
  BY ToTells, ToRest DEF ModelStages
<1>2. Researched(r, article, fetched) = IF fetched THEN e ELSE d
  BY DEF Researched
<1>3. "model" \in Kinds /\ "search" \in Kinds /\ "fetch" \in Kinds
  BY DEF Kinds
<1>4. /\ b \in RequestType /\ b.stage = a.stage /\ b.at = a.at /\ b.answer = a.answer
      /\ b.article = article /\ b.count = a.count /\ b.stage # "new" /\ b \in Rest
  <2> HIDE DEF a
  <2> QED
    BY <1>1 DEF Rest, RequestType, Tells
<1> HIDE DEF a, b
<1>5. c \in Rest /\ d \in Rest /\ e \in Rest
  BY <1>3, <1>4, CountedRest
<1>6. /\ c.stage = b.stage /\ c.at = b.at /\ c.answer = b.answer /\ c.article = b.article
      /\ \A j \in Kinds : c.count[j] = b.count[j] + Bit(j = "model")
  BY <1>3, <1>4, CountedTells
<1> HIDE DEF c
<1>7. /\ d.stage = c.stage /\ d.at = c.at /\ d.answer = c.answer /\ d.article = c.article
      /\ \A j \in Kinds : d.count[j] = c.count[j] + Bit(j = "search")
  BY <1>3, <1>5, CountedTells DEF Rest
<1> HIDE DEF d
<1>8. /\ e.stage = d.stage /\ e.at = d.at /\ e.answer = d.answer /\ e.article = d.article
      /\ \A j \in Kinds : e.count[j] = d.count[j] + Bit(j = "fetch")
  BY <1>3, <1>5, CountedTells DEF Rest
<1> HIDE DEF e
<1>9. req[r].count \in [Kinds -> Nat] /\ a.count = req[r].count
  BY <1>1 DEF TypeOK, RequestType, Tells
<1> QED
  BY <1>1, <1>2, <1>3, <1>4, <1>6, <1>7, <1>8, <1>9 DEF Bit, Tells

\* One call or one error more.
LEMMA CallCounted ==
  ASSUME StatsType, NEW k \in Kinds, stats' = [stats EXCEPT !.calls[k] = @ + 1]
  PROVE  /\ StatsType' /\ stats'.requests = stats.requests /\ stats'.errors = stats.errors
         /\ \A j \in Kinds : stats'.calls[j] = stats.calls[j] + Bit(j = k)
<1> DEFINE calls == [stats.calls EXCEPT ![k] = @ + 1]
<1>1. stats.calls \in [Kinds -> Nat]
  BY DEF StatsType
<1>2. calls \in [Kinds -> Nat] /\ \A j \in Kinds : calls[j] = stats.calls[j] + Bit(j = k)
  BY <1>1 DEF Bit
<1>3. stats' = [stats EXCEPT !.calls = calls]
  OBVIOUS
<1> HIDE DEF calls
<1> QED
  BY <1>2, <1>3 DEF StatsType

LEMMA FailureCounted ==
  ASSUME StatsType, NEW k \in Kinds, stats' = [stats EXCEPT !.errors[k] = @ + 1]
  PROVE  /\ StatsType' /\ stats'.requests = stats.requests /\ stats'.calls = stats.calls
         /\ \A j \in Kinds : stats'.errors[j] = stats.errors[j] + Bit(j = k)
<1> DEFINE errors == [stats.errors EXCEPT ![k] = @ + 1]
<1>1. stats.errors \in [Kinds -> Nat]
  BY DEF StatsType
<1>2. errors \in [Kinds -> Nat] /\ \A j \in Kinds : errors[j] = stats.errors[j] + Bit(j = k)
  BY <1>1 DEF Bit
<1>3. stats' = [stats EXCEPT !.errors = errors]
  OBVIOUS
<1> HIDE DEF errors
<1> QED
  BY <1>2, <1>3 DEF StatsType

\* The numbers of stats and of a request, for arithmetic.
LEMMA StatsNumbers ==
  ASSUME StatsType
  PROVE  /\ stats.requests \in Nat
         /\ stats.calls["model"] \in Nat /\ stats.calls["search"] \in Nat
         /\ stats.calls["fetch"] \in Nat
         /\ stats.errors["model"] \in Nat /\ stats.errors["search"] \in Nat
         /\ stats.errors["fetch"] \in Nat
BY DEF StatsType, Kinds

LEMMA ArriveTold ==
  ASSUME TypeOK, StatsInv, NEW r \in Requests, Arrive(r)
  PROVE  Told(r)
<1>1. /\ req[r].stage = "new" /\ req[r].at = "none" /\ req[r].answer = "none"
      /\ ~req[r].article /\ req[r].count["model"] = 0
      /\ req[r].count["search"] = 0 /\ req[r].count["fetch"] = 0
  BY DEF Arrive, StatsInv, Stories, Story
<1>2. StatsType
  BY DEF StatsInv
<1>3. ASSUME NEW answer \in {"400", "500"}, req' = [req EXCEPT ![r] = Answered(r, answer)],
             UNCHANGED stats
      PROVE  Told(r)
  <2> DEFINE y == Answered(r, answer)
  <2>1. Tells(y, req[r], "over", "none", answer) /\ y \in RequestType
    BY <1>3, AnsweredTells, AnsweredRest DEF Answers, Rest
  <2>2. /\ req' \in [Requests -> RequestType] /\ req'[r] = y
        /\ \A s \in Requests \ {r} : Same(req[s], req'[s])
    BY <1>3, <2>1, AloneSame
  <2> HIDE DEF y
  <2>3. Story(y)
    BY <1>1, <1>3, <2>1 DEF Tells, Story
  <2>4. StatsType'
    BY <1>2, <1>3 DEF StatsType
  <2>5. Explains(req[r], y)
    BY <1>1, <1>2, <1>3, <2>1, StatsNumbers
       DEF Tells, Explains, IsDead, IsVain, IsSearched, IsSearching, IsFetched,
           IsFetching, IsStarted, IsBroken, Calls, Bit, ModelStages
  <2> QED
    BY <1>1, <2>2, <2>3, <2>4, <2>5 DEF Told
<1>4. CASE /\ req' = [req EXCEPT ![r] = To(r, "planner")]
           /\ stats' = [stats EXCEPT !.requests = @ + 1]
  <2> DEFINE y == To(r, "planner")
  <2>1. Tells(y, req[r], "planner", "enter", req[r].answer) /\ y \in RequestType
    BY ToTells, ToRest DEF Rest, ModelStages
  <2>2. /\ req' \in [Requests -> RequestType] /\ req'[r] = y
        /\ \A s \in Requests \ {r} : Same(req[s], req'[s])
    BY <1>4, <2>1, AloneSame
  <2> HIDE DEF y
  <2>3. Story(y)
    BY <1>1, <2>1 DEF Tells, Story
  <2>4. /\ StatsType' /\ stats'.requests = stats.requests + 1
        /\ stats'.calls = stats.calls /\ stats'.errors = stats.errors
    BY <1>2, <1>4 DEF StatsType
  <2>5. Explains(req[r], y)
    BY <1>1, <1>2, <2>1, <2>4, StatsNumbers
       DEF Tells, Explains, IsDead, IsVain, IsSearched, IsSearching, IsFetched,
           IsFetching, IsStarted, IsBroken, Calls, Bit, ModelStages
  <2> QED
    BY <1>1, <2>2, <2>3, <2>4, <2>5 DEF Told
<1> QED
  BY <1>3, <1>4 DEF Arrive

\* A call is counted as it is made, before it is served or queued.
LEMMA CallTold ==
  ASSUME TypeOK, StatsInv, delay \in Nat, NEW r \in Requests, Call(r)
  PROVE  Told(r)
<1> DEFINE k == KindOf(req[r].stage)
<1>1. req[r].at = "enter" /\ stats' = [stats EXCEPT !.calls[k] = @ + 1]
  BY DEF Call, CountedAtOnce
<1>2. Story(req[r]) /\ StatsType /\ req[r] \in RequestType
  BY DEF StatsInv, Stories, TypeOK
<1>3. req[r].stage \in ModelStages \cup {"search", "fetch"} /\ req[r].answer = "none"
  BY <1>1, <1>2 DEF Story, ModelStages
<1>4. k \in Kinds
  BY PoolsOfStages
<1>5. PICK y \in RequestType, at \in {"serve", "wait"} :
        /\ req' = [req EXCEPT ![r] = y]
        /\ Tells(y, req[r], req[r].stage, at, req[r].answer)
  <2>1. CASE req' = [req EXCEPT ![r] = Begun(r)]
    BY <2>1, BegunType, BegunTells
  <2>2. CASE req' = [req EXCEPT ![r].at = "wait"]
    <3> DEFINE w == [req[r] EXCEPT !.at = "wait"]
    <3>1. w \in RequestType /\ Tells(w, req[r], req[r].stage, "wait", req[r].answer)
      BY <1>2 DEF RequestType, Tells
    <3>2. req' = [req EXCEPT ![r] = w]
      BY <2>2 DEF TypeOK
    <3> QED
      BY <3>1, <3>2
  <2> QED
    BY <2>1, <2>2 DEF Call
<1>6. /\ req' \in [Requests -> RequestType] /\ req'[r] = y
      /\ \A s \in Requests \ {r} : Same(req[s], req'[s])
  BY <1>5, AloneSame
<1>7. Story(y)
  BY <1>2, <1>3, <1>5 DEF Tells, Story, ModelStages
<1> HIDE DEF k
<1>8. /\ StatsType' /\ stats'.requests = stats.requests /\ stats'.errors = stats.errors
      /\ \A j \in Kinds : stats'.calls[j] = stats.calls[j] + Bit(j = k)
  BY <1>1, <1>2, <1>4, CallCounted
<1>9. /\ stats'.calls["model"] = stats.calls["model"] + Bit(k = "model")
      /\ stats'.calls["search"] = stats.calls["search"] + Bit(k = "search")
      /\ stats'.calls["fetch"] = stats.calls["fetch"] + Bit(k = "fetch")
  BY <1>8 DEF Kinds
<1>10. Explains(req[r], y)
  <2>1. req[r].count["model"] \in Nat
    BY <1>2 DEF RequestType, Kinds
  <2>2. CASE req[r].stage \in ModelStages
    <3>1. k = "model"
      BY <2>2 DEF k, KindOf, ModelStages
    <3> QED
      BY <1>1, <1>2, <1>3, <1>5, <1>8, <1>9, <2>1, <2>2, <3>1, StatsNumbers
         DEF Tells, Explains, IsDead, IsVain, IsSearched, IsSearching, IsFetched,
             IsFetching, IsStarted, IsBroken, Calls, Bit, ModelStages
  <2>3. CASE req[r].stage \in {"search", "fetch"}
    <3>1. k = req[r].stage
      BY <2>3 DEF k, KindOf
    <3> QED
      BY <1>1, <1>2, <1>3, <1>5, <1>8, <1>9, <2>1, <2>3, <3>1, StatsNumbers
         DEF Tells, Explains, IsDead, IsVain, IsSearched, IsSearching, IsFetched,
             IsFetching, IsStarted, IsBroken, Calls, Bit, ModelStages
  <2> QED
    BY <1>3, <2>2, <2>3
<1> QED
  BY <1>3, <1>6, <1>7, <1>8, <1>10 DEF Told

\* A woken request and a fetch that is let go on change no count.
LEMMA GoesOnStill ==
  ASSUME TypeOK, StatsInv, delay \in Nat, NEW r \in Requests, Resume(r) \/ Pass(r)
  PROVE  StatsInv'
<1>1. CASE Resume(r)
  <2>1. req[r].at = "granted" /\ UNCHANGED stats
    BY <1>1 DEF Resume
  <2>2. Wake(PoolOf(req[r].stage), r, Begun(r), free[PoolOf(req[r].stage)])
    BY <1>1 DEF Resume
  <2>3. req'[r] = Begun(r) /\ \A s \in Requests \ {r} : Same(req[s], req'[s])
    BY <2>1, <2>2, WakeSame, BegunType
  <2>4. Same(req[r], req'[r])
    BY <2>1, <2>3, BegunTells DEF Same, Tells
  <2> QED
    BY <2>1, <2>3, <2>4, StatsStill
<1>2. CASE Pass(r)
  <2> DEFINE y == [req[r] EXCEPT !.at = "get"]
  <2>1. req[r].at = "serve" /\ UNCHANGED stats /\ Wake("limiter", r, y, free["limiter"] + 1)
    BY <1>2 DEF Pass, Released
  <2>2. y \in RequestType /\ Same(req[r], y)
    BY <2>1 DEF TypeOK, RequestType, Same
  <2> HIDE DEF y
  <2>3. req'[r] = y /\ \A s \in Requests \ {r} : Same(req[s], req'[s])
    BY <2>1, <2>2, WakeSame
  <2> QED
    BY <2>1, <2>2, <2>3, StatsStill
<1> QED
  BY <1>1, <1>2

\* The tool found something or nothing: what the researcher's return adds.
LEMMA ResearchedTold ==
  ASSUME TypeOK, StatsInv, NEW r \in Requests, req[r].stage \in {"search", "fetch"},
         req[r].at # "enter", NEW article \in BOOLEAN,
         NEW fetched \in BOOLEAN, fetched <=> req[r].stage = "fetch", article => fetched,
         LET y == Researched(r, article, fetched) IN
           /\ req' \in [Requests -> RequestType] /\ req'[r] = y
           /\ \A s \in Requests \ {r} : Same(req[s], req'[s]),
         StatsType', stats'.requests = stats.requests, stats'.calls = stats.calls,
         stats'.errors["model"] = stats.errors["model"],
         stats'.errors["search"] + stats'.errors["fetch"]
           <= stats.errors["search"] + stats.errors["fetch"] + Bit(~article)
  PROVE  Told(r)
<1> DEFINE y == Researched(r, article, fetched)
<1>1. /\ req[r].answer = "none" /\ ~req[r].article /\ req[r].count["model"] = 1
      /\ req[r].count["search"] = 0 /\ req[r].count["fetch"] = 0
  BY DEF StatsInv, Stories, Story
<1>2. StatsType
  BY DEF StatsInv
<1>3. /\ y.stage = "writer" /\ y.at = "enter" /\ y.answer = req[r].answer
      /\ y.article = article
      /\ y.count["model"] = req[r].count["model"] + 1
      /\ y.count["search"] = req[r].count["search"] + 1
      /\ y.count["fetch"] = req[r].count["fetch"] + Bit(fetched)
  BY ResearchedTells
<1> HIDE DEF y
<1>4. Story(y)
  BY <1>1, <1>3 DEF Story, Bit
<1>5. /\ stats'.errors["search"] \in Nat /\ stats'.errors["fetch"] \in Nat
  BY DEF StatsType, Kinds
<1>6. Explains(req[r], y)
  BY <1>1, <1>2, <1>3, <1>5, StatsNumbers
     DEF Explains, IsDead, IsVain, IsSearched, IsSearching, IsFetched,
         IsFetching, IsStarted, IsBroken, Calls, Bit, ModelStages
<1> QED
  BY <1>1, <1>4, <1>6 DEF Told, y

LEMMA ServedTold ==
  ASSUME TypeOK, StatsInv, NEW r \in Requests, Served(r)
  PROVE  Told(r)
<1>1. Story(req[r]) /\ StatsType /\ req[r] \in RequestType
  BY DEF StatsInv, Stories, TypeOK
<1>2. UNCHANGED stats
  BY DEF Served, ModelServed, SearchServed, DocumentServed
<1>3. StatsType'
  BY <1>1, <1>2 DEF StatsType
<1>4. \A b : Bit(b) \in {0, 1}
  BY DEF Bit
<1>5. CASE SearchServed(r) /\ Released("search", r, Researched(r, FALSE, FALSE))
  <2>1. req[r].stage = "search" /\ req[r].at = "serve"
    BY <1>5 DEF SearchServed
  <2>2. Researched(r, FALSE, FALSE) \in RequestType
    BY ResearchedRest DEF Rest
  <2>3. /\ req' \in [Requests -> RequestType] /\ req'[r] = Researched(r, FALSE, FALSE)
        /\ \A s \in Requests \ {r} : Same(req[s], req'[s])
    BY <1>5, <2>1, <2>2, WakeSame DEF Released
  <2>4. stats'.errors["search"] + stats'.errors["fetch"]
          <= stats.errors["search"] + stats.errors["fetch"] + Bit(~FALSE)
    BY <1>1, <1>2, StatsNumbers DEF Bit
  <2> QED
    BY <1>2, <1>3, <2>1, <2>3, <2>4, ResearchedTold
<1>6. CASE DocumentServed(r)
  <2>1. /\ req[r].stage = "fetch" /\ req[r].at = "get"
        /\ req' = [req EXCEPT ![r] = Researched(r, TRUE, TRUE)]
    BY <1>6 DEF DocumentServed
  <2>2. Researched(r, TRUE, TRUE) \in RequestType
    BY ResearchedRest DEF Rest
  <2>3. /\ req' \in [Requests -> RequestType] /\ req'[r] = Researched(r, TRUE, TRUE)
        /\ \A s \in Requests \ {r} : Same(req[s], req'[s])
    BY <2>1, <2>2, AloneSame
  <2>4. stats'.errors["search"] + stats'.errors["fetch"]
          <= stats.errors["search"] + stats.errors["fetch"] + Bit(~TRUE)
    BY <1>1, <1>2, StatsNumbers DEF Bit
  <2> QED
    BY <1>2, <1>3, <2>1, <2>3, <2>4, ResearchedTold
<1>7. CASE SearchServed(r) /\ Released("search", r, To(r, "fetch"))
  <2> DEFINE y == To(r, "fetch")
  <2>1. req[r].stage = "search" /\ req[r].at = "serve"
    BY <1>7 DEF SearchServed
  <2>2. y \in RequestType /\ Tells(y, req[r], "fetch", "enter", req[r].answer)
    BY ToRest, ToTells DEF Rest
  <2>3. /\ req' \in [Requests -> RequestType] /\ req'[r] = y
        /\ \A s \in Requests \ {r} : Same(req[s], req'[s])
    BY <1>7, <2>1, <2>2, WakeSame DEF Released
  <2> HIDE DEF y
  <2>4. Story(y) /\ req[r].answer = "none"
    BY <1>1, <2>1, <2>2 DEF Story, Tells
  <2>5. Explains(req[r], y)
    BY <1>1, <1>2, <2>1, <2>2, StatsNumbers
       DEF Tells, Explains, IsDead, IsVain, IsSearched, IsSearching, IsFetched,
           IsFetching, IsStarted, IsBroken, Calls, Bit, ModelStages, RequestType, Kinds
  <2> QED
    BY <1>3, <2>3, <2>4, <2>5 DEF Told
<1>8. CASE ModelServed(r)
  <2>1. /\ req[r].stage \in ModelStages /\ req[r].at = "serve" /\ req[r].answer = "none"
    BY <1>1, <1>8 DEF ModelServed, Story, ModelStages
  <2>2. ASSUME NEW y \in RequestType, Released("model", r, y), Story(y), Explains(req[r], y)
        PROVE  Told(r)
    BY <1>3, <2>1, <2>2, WakeSame DEF Told, Released
  <2>3. CASE Released("model", r, Answered(r, "500"))
    <3> DEFINE y == Answered(r, "500")
    <3>1. y \in RequestType /\ Tells(y, req[r], "over", "none", "500")
      BY AnsweredRest, AnsweredTells DEF Rest, Answers
    <3> HIDE DEF y
    <3>2. Story(y)
      BY <1>1, <2>1, <3>1 DEF Story, Tells, ModelStages
    <3>a. req[r].count["model"] \in Nat
      BY <1>1 DEF RequestType, Kinds
    <3>3. Explains(req[r], y)
      BY <1>1, <1>2, <2>1, <3>a, <3>1, StatsNumbers
         DEF Tells, Explains, IsDead, IsVain, IsSearched, IsSearching, IsFetched,
             IsFetching, IsStarted, IsBroken, Calls, Bit, ModelStages
    <3> QED
      BY <2>2, <2>3, <3>1, <3>2, <3>3 DEF y
  <2>4. CASE /\ req[r].stage = "planner"
             /\ Released("model", r, Counted(To(r, "researcher"), "model"))
    <3> DEFINE x == To(r, "researcher")
               y == Counted(x, "model")
    <3>1. x \in Rest /\ Tells(x, req[r], "researcher", "enter", req[r].answer)
      BY ToRest, ToTells DEF ModelStages
    <3>2. "model" \in Kinds /\ "search" \in Kinds /\ "fetch" \in Kinds
      BY DEF Kinds
    <3> HIDE DEF x
    <3>3. /\ y \in RequestType /\ y.stage = x.stage /\ y.at = x.at /\ y.answer = x.answer
          /\ y.article = x.article /\ \A j \in Kinds : y.count[j] = x.count[j] + Bit(j = "model")
      BY <3>1, <3>2, CountedTells, CountedRest DEF Rest
    <3> HIDE DEF y
    <3>4. Story(y)
      BY <1>1, <2>4, <3>1, <3>2, <3>3 DEF Story, Tells, Bit
    <3>5. Explains(req[r], y)
      BY <1>1, <1>2, <2>1, <2>4, <3>1, <3>2, <3>3, <3>4, StatsNumbers
         DEF Tells, Explains, IsDead, IsVain, IsSearched, IsSearching, IsFetched,
             IsFetching, IsStarted, IsBroken, Calls, Bit, ModelStages, Story
    <3> QED
      BY <2>2, <2>4, <3>3, <3>4, <3>5 DEF x, y
  <2>5. CASE req[r].stage = "researcher" /\ Released("model", r, To(r, "search"))
    <3> DEFINE y == To(r, "search")
    <3>1. y \in RequestType /\ Tells(y, req[r], "search", "enter", req[r].answer)
      BY ToRest, ToTells DEF Rest
    <3> HIDE DEF y
    <3>2. Story(y)
      BY <1>1, <2>5, <3>1 DEF Story, Tells
    <3>3. Explains(req[r], y)
      BY <1>1, <1>2, <2>1, <2>5, <3>1, <3>2, StatsNumbers
         DEF Tells, Explains, IsDead, IsVain, IsSearched, IsSearching, IsFetched,
             IsFetching, IsStarted, IsBroken, Calls, Bit, ModelStages, Story
    <3> QED
      BY <2>2, <2>5, <3>1, <3>2, <3>3 DEF y
  <2>6. ASSUME NEW answer \in {"resolved", "unresolved"}, req[r].stage = "writer",
               answer = "resolved" => req[r].article,
               Released("model", r, Counted(Answered(r, answer), "model"))
        PROVE  Told(r)
    <3> DEFINE x == Answered(r, answer)
               y == Counted(x, "model")
    <3>1. x \in Rest /\ Tells(x, req[r], "over", "none", answer)
      BY AnsweredRest, AnsweredTells DEF Answers
    <3>2. "model" \in Kinds /\ "search" \in Kinds /\ "fetch" \in Kinds
      BY DEF Kinds
    <3> HIDE DEF x
    <3>3. /\ y \in RequestType /\ y.stage = x.stage /\ y.at = x.at /\ y.answer = x.answer
          /\ y.article = x.article /\ \A j \in Kinds : y.count[j] = x.count[j] + Bit(j = "model")
      BY <3>1, <3>2, CountedTells, CountedRest DEF Rest
    <3>a. req[r].count["search"] \in Nat /\ req[r].count["fetch"] \in Nat
      BY <1>1, <3>2 DEF RequestType
    <3> HIDE DEF y
    <3>4. Story(y)
      BY <1>1, <2>6, <3>1, <3>2, <3>3, <3>a DEF Story, Tells, Bit
    <3>5. Explains(req[r], y)
      BY <1>1, <1>2, <2>1, <2>6, <3>1, <3>2, <3>3, <3>4, <3>a, StatsNumbers
         DEF Tells, Explains, IsDead, IsVain, IsSearched, IsSearching, IsFetched,
             IsFetching, IsStarted, IsBroken, Calls, Bit, ModelStages, Story
    <3> QED
      BY <2>2, <2>6, <3>3, <3>4, <3>5 DEF x, y
  <2>7. CASE req[r].stage = "planner"
    BY <1>8, <2>3, <2>4, <2>7 DEF ModelServed
  <2>8. CASE req[r].stage = "researcher"
    BY <1>8, <2>3, <2>5, <2>8 DEF ModelServed
  <2>9. CASE req[r].stage = "writer"
    <3>1. PICK y \in Written(r) : Released("model", r, y) \/ Released("model", r, Answered(r, "500"))
      BY <1>8, <2>9 DEF ModelServed
    <3>2. PICK answer \in {"unresolved"} \cup IF req[r].article THEN {"resolved"} ELSE {} :
            y = Counted(Answered(r, answer), "model")
      BY DEF Written
    <3>3. answer \in {"resolved", "unresolved"} /\ (answer = "resolved" => req[r].article)
      OBVIOUS
    <3> QED
      BY <2>3, <2>6, <2>9, <3>1, <3>2, <3>3
  <2> QED
    BY <2>1, <2>7, <2>8, <2>9 DEF ModelStages
<1>9. SearchServed(r) => \/ Released("search", r, Researched(r, FALSE, FALSE))
                         \/ Released("search", r, To(r, "fetch"))
  BY DEF SearchServed
<1> QED
  BY <1>5, <1>6, <1>7, <1>8, <1>9 DEF Served

\* Whenever a timeout or an error comes: an error of its kind is counted, a
\* tool's ends in an answer without an article, the model's in a 503.
LEMMA FailTold ==
  ASSUME TypeOK, StatsInv, StagesOK, NEW r \in Requests, Fail(r)
  PROVE  Told(r)
<1> DEFINE k == KindOf(req[r].stage)
<1>1. Story(req[r]) /\ StatsType /\ req[r] \in RequestType
  BY DEF StatsInv, Stories, TypeOK
<1>2. /\ req[r].at \in {"wait", "granted", "serve", "get"}
      /\ stats' = [stats EXCEPT !.errors[k] = @ + 1]
  BY DEF Fail
<1>3. req[r].stage \in ModelStages \cup {"search", "fetch"} /\ req[r].answer = "none"
  BY <1>1, <1>2 DEF Story, ModelStages
<1>4. k \in Kinds
  BY PoolsOfStages
<1>5. /\ req' \in [Requests -> RequestType] /\ req'[r] = AfterError(r)
      /\ \A s \in Requests \ {r} : Same(req[s], req'[s])
  <2>1. AfterError(r) \in RequestType
    BY AfterErrorRest DEF Rest
  <2>2. CASE req' = [req EXCEPT ![r] = AfterError(r)]
    BY <2>1, <2>2, AloneSame
  <2>3. CASE req[r].at # "wait" /\ Released(PoolOf(req[r].stage), r, AfterError(r))
    BY <2>1, <2>3, WakeSame DEF Released
  <2>4. \/ req' = [req EXCEPT ![r] = AfterError(r)]
        \/ req[r].at # "wait" /\ Released(PoolOf(req[r].stage), r, AfterError(r))
    BY DEF Fail, Abandoned, SlotReleasedOnError
  <2> QED
    BY <2>2, <2>3, <2>4
<1> HIDE DEF k
<1>6. /\ StatsType' /\ stats'.requests = stats.requests /\ stats'.calls = stats.calls
      /\ \A j \in Kinds : stats'.errors[j] = stats.errors[j] + Bit(j = k)
  BY <1>1, <1>2, <1>4, FailureCounted
<1>7. /\ stats'.errors["model"] = stats.errors["model"] + Bit(k = "model")
      /\ stats'.errors["search"] = stats.errors["search"] + Bit(k = "search")
      /\ stats'.errors["fetch"] = stats.errors["fetch"] + Bit(k = "fetch")
  BY <1>6 DEF Kinds
<1>8. CASE req[r].stage \in ModelStages
  <2> DEFINE y == Answered(r, "503")
  <2>1. AfterError(r) = y /\ k = "model"
    BY <1>8 DEF AfterError, k, KindOf, ModelStages
  <2>2. Tells(y, req[r], "over", "none", "503")
    BY AnsweredTells
  <2> HIDE DEF y
  <2>3. req[r].count["model"] \in Nat /\ req[r].count["search"] \in Nat /\ req[r].count["fetch"] \in Nat
    BY <1>1 DEF RequestType, Kinds
  <2>4. Story(y)
    BY <1>1, <1>8, <2>2, <2>3 DEF Story, Tells, ModelStages
  <2>5. Explains(req[r], y)
    BY <1>1, <1>2, <1>3, <1>6, <1>7, <1>8, <2>1, <2>2, <2>3, StatsNumbers
       DEF Tells, Explains, IsDead, IsVain, IsSearched, IsSearching, IsFetched,
           IsFetching, IsStarted, IsBroken, Calls, Bit, ModelStages
  <2> QED
    BY <1>3, <1>5, <1>6, <2>1, <2>4, <2>5 DEF Told
<1>9. CASE req[r].stage = "search"
  <2>1. AfterError(r) = Researched(r, FALSE, FALSE) /\ k = "search"
    BY <1>9 DEF AfterError, k, KindOf
  <2>2. /\ stats'.errors["model"] = stats.errors["model"]
        /\ stats'.errors["search"] + stats'.errors["fetch"]
             <= stats.errors["search"] + stats.errors["fetch"] + Bit(~FALSE)
    BY <1>1, <1>7, <2>1, StatsNumbers DEF Bit
  <2> QED
    BY <1>2, <1>5, <1>6, <1>9, <2>1, <2>2, ResearchedTold
<1>10. CASE req[r].stage = "fetch"
  <2>1. AfterError(r) = Researched(r, FALSE, TRUE) /\ k = "fetch"
    BY <1>10 DEF AfterError, k, KindOf
  <2>2. /\ stats'.errors["model"] = stats.errors["model"]
        /\ stats'.errors["search"] + stats'.errors["fetch"]
             <= stats.errors["search"] + stats.errors["fetch"] + Bit(~FALSE)
    BY <1>1, <1>7, <2>1, StatsNumbers DEF Bit
  <2> QED
    BY <1>2, <1>5, <1>6, <1>10, <2>1, <2>2, ResearchedTold
<1> QED
  BY <1>3, <1>8, <1>9, <1>10

LEMMA InitStats == Init => StatsInv
<1> SUFFICES ASSUME Init PROVE StatsInv
  OBVIOUS
<1>1. /\ stats.requests = 0 /\ \A k \in Kinds : stats.calls[k] = 0 /\ stats.errors[k] = 0
      /\ StatsType
  BY DEF Init, Zero, StatsType
<1>2. ASSUME NEW r \in Requests
      PROVE  /\ req[r].stage = "new" /\ req[r].at = "none" /\ req[r].answer = "none"
             /\ ~req[r].article /\ req[r].count["model"] = 0
             /\ req[r].count["search"] = 0 /\ req[r].count["fetch"] = 0
  BY DEF Init, Zero, Kinds
<1>3. Stories
  BY <1>2 DEF Stories, Story
<1>4. /\ Deads(req) = {} /\ Searches(req) = {} /\ Searching(req) = {} /\ Fetches(req) = {}
      /\ Fetching(req) = {} /\ Started(req) = {} /\ Vains(req) = {} /\ Broken(req) = {}
  BY <1>2 DEF Deads, Searches, Searching, Fetches, Fetching, Started, Vains, Broken, IsDead,
              IsSearched, IsSearching, IsFetched, IsFetching, IsStarted, IsVain, IsBroken
<1>5. Calling(req, 1) = {} /\ Calling(req, 2) = {} /\ Calling(req, 3) = {}
  BY <1>2 DEF Calling, Calls, Bit, ModelStages
<1>6. Cardinality({}) = 0 /\ Kinds = {"model", "search", "fetch"}
  BY FS_EmptySet DEF Kinds
<1>7. ErrorsMatch /\ CallsMatch /\ ModelCallsMatch
  BY <1>1, <1>4, <1>5, <1>6 DEF ErrorsMatch, CallsMatch, ModelCallsMatch
<1> QED
  BY <1>1, <1>3, <1>7 DEF StatsInv

LEMMA StatsStep == DeskInv /\ StatsInv /\ [Next]_vars => StatsInv'
<1> SUFFICES ASSUME DeskInv, StatsInv, [Next]_vars PROVE StatsInv'
  OBVIOUS
<1>1. TypeOK /\ StagesOK /\ delay \in Nat
  BY DEF DeskInv, SlotInv, LimiterOK
<1>2. ASSUME NEW r \in Requests, Told(r) PROVE StatsInv'
  BY <1>1, <1>2, StatsFollow DEF Told
<1>3. CASE Tick
  <2>1. \A s \in Requests : Same(req[s], req'[s])
    <3> SUFFICES ASSUME NEW s \in Requests PROVE Same(req[s], req'[s])
      OBVIOUS
    <3>1. req[s] \in RequestType
      BY <1>1 DEF TypeOK
    <3>2. req'[s] = [req[s] EXCEPT !.sleep = Less(@)]
      BY <1>3 DEF Tick
    <3> QED
      BY <3>1, <3>2 DEF RequestType, Same
  <2> QED
    BY <1>3, <2>1, StatsStill DEF Tick
<1>4. CASE UNCHANGED vars
  <2>1. UNCHANGED stats /\ \A s \in Requests : Same(req[s], req'[s])
    BY <1>4 DEF vars, Same
  <2> QED
    BY <2>1, StatsStill
<1>5. CASE \E r \in Requests : Arrive(r) \/ Runs(r) \/ Served(r) \/ Fail(r)
  <2> PICK r \in Requests : Arrive(r) \/ Runs(r) \/ Served(r) \/ Fail(r)
    BY <1>5
  <2> QED
    BY <1>1, <1>2, ArriveTold, CallTold, GoesOnStill, ServedTold, FailTold DEF Runs
<1> QED
  BY <1>3, <1>4, <1>5 DEF Next

\* /debug/stats, the answers and their headers agree, for any number of
\* requests and whatever times out or fails: no call is counted twice or
\* forgotten, every 503 is one model error, and an article resolved was searched
\* and fetched (app.py:162, 191-400, 483).
THEOREM StatsOfTheDesk == Spec => []StatsExplainAnswers
<1>1. DeskInv => TypeOK
  BY DEF DeskInv, SlotInv
<1> QED
  BY <1>1, InitStats, StatsStep, StatsExplained, DeskInvariant, PTL DEF Spec
=============================================================================
