---------------------------- MODULE LanternDesk ----------------------------
(***************************************************************************)
(* examples/multi-agent/app.py: the support agent load experiments run     *)
(* against.  Its requests are tasks of one event loop and share three      *)
(* asyncio primitives: the model slots, the search workers and the fetch   *)
(* lock, under which a fetch sleeps until the rate limiter lets it go.     *)
(* Every call is in a wait_for, so a request may be cancelled at any of    *)
(* its awaits: queued, just woken, served.                                 *)
(***************************************************************************)
EXTENDS Integers, FiniteSets

CONSTANTS
  Requests,       \* POST /v1/chat/completions
  ModelSlots,     \* config.model_slots
  SearchWorkers,  \* config.search_workers
  Interval        \* 1 / config.fetch_rate_per_s in ticks, 0 for no limit

\* Config.__post_init__
ASSUME ConfigAssumption ==
  /\ ModelSlots \in Nat \ {0} /\ SearchWorkers \in Nat \ {0} /\ Interval \in Nat

ASSUME RequestsAssumption == IsFiniteSet(Requests)

VARIABLES
  req,      \* [stage, at, sleep, article, count, answer] of each request
  free,     \* the value of each semaphore; 1 when the fetch lock is free
  ahead,    \* of a queued request, those queued before it in the same deque
  inFlight, \* model_in_flight, search_in_flight, fetch_in_flight
  delay,    \* next_fetch_at - now, no less than 0
  since,    \* ticks since a fetch last went on, counted up to Interval
  stats     \* Runtime.stats

vars == <<req, free, ahead, inFlight, delay, since, stats>>

ModelStages == {"planner", "researcher", "writer"}
Pools == {"model", "search", "limiter"}
Kinds == {"model", "search", "fetch"}
PoolOf(stage) == CASE stage = "search" -> "search" [] stage = "fetch" -> "limiter"
                   [] OTHER -> "model"
KindOf(stage) == CASE stage = "search" -> "search" [] stage = "fetch" -> "fetch"
                   [] OTHER -> "model"
Capacity == [p \in Pools |-> CASE p = "model" -> ModelSlots
                               [] p = "search" -> SearchWorkers [] OTHER -> 1]

In(p, ats) == {r \in Requests : req[r].at \in ats /\ PoolOf(req[r].stage) = p}
Waiters(p) == In(p, {"wait"})
Holders(p) == In(p, {"granted", "serve"})

Zero == [k \in Kinds |-> 0]

Init ==
  /\ req = [r \in Requests |-> [stage |-> "new", at |-> "none", sleep |-> 0,
                                article |-> FALSE, count |-> Zero, answer |-> "none"]]
  /\ free = Capacity
  /\ ahead = [r \in Requests |-> {}]
  /\ inFlight = Zero
  /\ delay = 0 /\ since = Interval
  /\ stats = [requests |-> 0, calls |-> Zero, errors |-> Zero]

-----------------------------------------------------------------------------
(* asyncio's Semaphore.  A woken task has its slot from then on, but is in  *)
(* the deque until it runs, and while it is, others queue although slots    *)
(* may be free; when it runs it wakes the next.  (The Lock behaves the same *)
(* with one slot.)                                                          *)

Forget(r) == ahead' = [s \in Requests |-> IF s = r THEN {} ELSE ahead[s] \ {r}]

\* Mutant: whoever has its slot leaves it at that.
WakeNobody(p, r, new, value) ==
  /\ req' = [req EXCEPT ![r] = new]
  /\ free' = [free EXCEPT ![p] = value] /\ UNCHANGED ahead
\* r goes on as new, and the first in the deque is woken if a slot is free.
Wake(p, r, new, value) ==
  \/ /\ value = 0 \/ Waiters(p) = {}
     /\ req' = [req EXCEPT ![r] = new]
     /\ free' = [free EXCEPT ![p] = value] /\ UNCHANGED ahead
  \/ \E w \in Waiters(p) :
       /\ value > 0 /\ ahead[w] = {}
       /\ req' = [req EXCEPT ![r] = new, ![w].at = "granted"]
       /\ free' = [free EXCEPT ![p] = value - 1] /\ Forget(w)

Released(p, r, new) == Wake(p, r, new, free[p] + 1)

\* Cancelled in acquire(): leave the deque, or give back what was granted.
Abandoned(p, r, new) ==
  \/ req[r].at = "granted" /\ Released(p, r, new)
  \/ req[r].at = "wait" /\ req' = [req EXCEPT ![r] = new] /\ Forget(r) /\ UNCHANGED free

-----------------------------------------------------------------------------
(* A request *)

To(r, stage) == [req[r] EXCEPT !.stage = stage, !.at = "enter"]
Answered(r, answer) == [req[r] EXCEPT !.stage = "over", !.at = "none", !.answer = answer]

\* chat_inner refuses it, or it breaks on its body (500); or the graph starts.
Arrive(r) ==
  /\ req[r].stage = "new"
  /\ \/ /\ \E answer \in {"400", "500"} : req' = [req EXCEPT ![r] = Answered(r, answer)]
        /\ UNCHANGED stats
     \/ /\ req' = [req EXCEPT ![r] = To(r, "planner")]
        /\ stats' = [stats EXCEPT !.requests = @ + 1]
  /\ UNCHANGED <<free, ahead, inFlight, delay, since>>

\* What follows acquire() with no await between: the in-flight count; or,
\* under the fetch lock, the wait that next_fetch_at asks for.
Begun(r) == [req[r] EXCEPT !.at = "serve",
                           !.sleep = IF req[r].stage = "fetch" THEN delay ELSE 0]
CountIn(r) ==
  inFlight' = IF req[r].stage = "fetch" THEN inFlight
              ELSE [inFlight EXCEPT ![KindOf(req[r].stage)] = @ + 1]

\* Mutant: a slot of the rate limiter is reserved before the wait for it.
ReservedAtLock(r) == IF req[r].stage = "fetch" THEN delay + Interval ELSE delay
DelayAtLock(r) == delay

\* Mutant: a model call is counted once it has its slot, one that queues never.
CountedIfFree(r) ==
  IF free["model"] > 0 \/ KindOf(req[r].stage) # "model"
  THEN [stats EXCEPT !.calls[KindOf(req[r].stage)] = @ + 1] ELSE stats
CountedAtOnce(r) == [stats EXCEPT !.calls[KindOf(req[r].stage)] = @ + 1]

\* Runtime.model, search or fetch is called: the slot is free and nobody is
\* before it, or it queues.
Call(r) ==
  LET p == PoolOf(req[r].stage) IN
  /\ req[r].at = "enter"
  /\ stats' = CountedAtOnce(r)
  /\ IF free[p] > 0 /\ In(p, {"wait", "granted"}) = {}
     THEN /\ free' = [free EXCEPT ![p] = @ - 1]
          /\ req' = [req EXCEPT ![r] = Begun(r)]
          /\ CountIn(r) /\ delay' = DelayAtLock(r) /\ UNCHANGED ahead
     ELSE /\ ahead' = [ahead EXCEPT ![r] = Waiters(p)]
          /\ req' = [req EXCEPT ![r].at = "wait"]
          /\ UNCHANGED <<free, inFlight, delay>>
  /\ UNCHANGED since

\* A woken task runs again.
Resume(r) ==
  /\ req[r].at = "granted"
  /\ LET p == PoolOf(req[r].stage) IN Wake(p, r, Begun(r), free[p])
  /\ CountIn(r) /\ delay' = DelayAtLock(r)
  /\ UNCHANGED <<since, stats>>

\* The limiter lets a fetch go on: it reserves the next slot and unlocks.
\* (With nothing to wait for the code goes on without an await; here that is
\* a step of its own, and a timeout in it one just before the lock was got.)
Pass(r) ==
  /\ req[r].stage = "fetch" /\ req[r].at = "serve" /\ req[r].sleep = 0
  /\ Released("limiter", r, [req[r] EXCEPT !.at = "get"])
  /\ inFlight' = [inFlight EXCEPT !.fetch = @ + 1]
  /\ delay' = Interval /\ since' = 0
  /\ UNCHANGED stats

CountOut(r) == inFlight' = [inFlight EXCEPT ![KindOf(req[r].stage)] = @ - 1]
Counted(new, k) == [new EXCEPT !.count[k] = @ + 1]

\* The researcher's return: its model and search calls, and whether it fetched.
Researched(r, article, fetched) ==
  LET new == Counted(Counted([To(r, "writer") EXCEPT !.article = article], "model"), "search")
  IN IF fetched THEN Counted(new, "fetch") ELSE new

\* The writer's return.  The simulated one resolves what it has an article for;
\* of a real one that is verified against the article.
Written(r) ==
  {Counted(Answered(r, answer), "model") : answer \in
     {"unresolved"} \cup IF req[r].article THEN {"resolved"} ELSE {}}

\* _model returns.  An answer of the backend with null counts is an exception
\* nobody handles.
ModelServed(r) ==
  /\ req[r].stage \in ModelStages /\ req[r].at = "serve"
  /\ \E new \in
       CASE req[r].stage = "planner" -> {Counted(To(r, "researcher"), "model")}
         [] req[r].stage = "researcher" -> {To(r, "search")}
         [] OTHER -> Written(r) :
       \E served \in {new, Answered(r, "500")} : Released("model", r, served)
  /\ CountOut(r) /\ UNCHANGED <<delay, since, stats>>

\* The index has an article for the query, or it has none.
SearchServed(r) ==
  /\ req[r].stage = "search" /\ req[r].at = "serve"
  /\ \E new \in {To(r, "fetch"), Researched(r, FALSE, FALSE)} : Released("search", r, new)
  /\ CountOut(r) /\ UNCHANGED <<delay, since, stats>>

\* GET /documents/{id}, answered by this same process.
DocumentServed(r) ==
  /\ req[r].stage = "fetch" /\ req[r].at = "get"
  /\ req' = [req EXCEPT ![r] = Researched(r, TRUE, TRUE)]
  /\ CountOut(r) /\ UNCHANGED <<free, ahead, delay, since, stats>>

\* A timeout at any await or an error in the service: a failed model call is
\* the request's 503; a failed tool call is a tool that found nothing.
AfterError(r) ==
  CASE req[r].stage = "search" -> Researched(r, FALSE, FALSE)
    [] req[r].stage = "fetch" -> Researched(r, FALSE, TRUE)
    [] OTHER -> Answered(r, "503")

\* Mutant: the slot is released on the way of a result only.
SlotKeptOnError(r) == req' = [req EXCEPT ![r] = AfterError(r)] /\ UNCHANGED <<free, ahead>>
SlotReleasedOnError(r) == Released(PoolOf(req[r].stage), r, AfterError(r))

Fail(r) ==
  /\ \/ /\ req[r].at \in {"wait", "granted"}
        /\ Abandoned(PoolOf(req[r].stage), r, AfterError(r)) /\ UNCHANGED inFlight
     \/ /\ req[r].at = "serve" /\ SlotReleasedOnError(r)
        /\ IF req[r].stage = "fetch" THEN UNCHANGED inFlight ELSE CountOut(r)
     \/ /\ req[r].at = "get" /\ req' = [req EXCEPT ![r] = AfterError(r)]
        /\ CountOut(r) /\ UNCHANGED <<free, ahead>>
  /\ stats' = [stats EXCEPT !.errors[KindOf(req[r].stage)] = @ + 1]
  /\ UNCHANGED <<delay, since>>

\* A sleep may take longer than was asked for, never less.
Less(n) == IF n > 0 THEN n - 1 ELSE 0
Tick ==
  /\ since < Interval \/ delay > 0
  /\ since' = IF since < Interval THEN since + 1 ELSE since
  /\ delay' = Less(delay)
  /\ req' = [r \in Requests |-> [req[r] EXCEPT !.sleep = Less(@)]]
  /\ UNCHANGED <<free, ahead, inFlight, stats>>

Runs(r) == Call(r) \/ Resume(r) \/ Pass(r)
Served(r) == ModelServed(r) \/ SearchServed(r) \/ DocumentServed(r)

Next == Tick \/ \E r \in Requests : Arrive(r) \/ Runs(r) \/ Served(r) \/ Fail(r)

Spec == Init /\ [][Next]_vars

\* The event loop runs what is ready, every service answers (the simulated
\* ones sleep, httpx has its timeouts) and time passes.  No timeout is needed.
FairSpec ==
  /\ Spec /\ WF_vars(Tick)
  /\ \A r \in Requests : WF_vars(Runs(r)) /\ WF_vars(Served(r))

-----------------------------------------------------------------------------
(* Properties *)

Answers == {"none", "400", "500", "503", "resolved", "unresolved"}
RequestType ==
  [stage : ModelStages \cup {"new", "search", "fetch", "over"},
   at : {"none", "enter", "wait", "granted", "serve", "get"},
   sleep : Nat, article : BOOLEAN, count : [Kinds -> Nat], answer : Answers]

\* No slot is lost or made, whatever is cancelled and when: those of a pool
\* are free or held by a request; the in-flight gauges are the requests being
\* served; and a request is queued while a slot is free only as long as a
\* woken one has yet to run, which will wake it (no lost wakeup).
SlotsAccounted ==
  /\ \A p \in Pools :
       /\ free[p] + Cardinality(Holders(p)) = Capacity[p]
       /\ free[p] > 0 /\ Waiters(p) # {} => In(p, {"granted"}) # {}
  /\ inFlight.model = Cardinality(In("model", {"serve"}))
  /\ inFlight.search = Cardinality(In("search", {"serve"}))
  /\ inFlight.fetch = Cardinality(In("limiter", {"get"}))

\* Two fetches never go on closer than the interval, and no slot of the rate
\* limiter is lost on a call that was cancelled: the next one is due an
\* interval after the last fetch that went on ("Keeping the wait under the
\* lock avoids reserving a slot for cancelled calls").
FetchesKeepTheirRate ==
  [][/\ delay' = Interval - since'
     /\ \A r \in Requests :
          req[r].at = "serve" /\ req'[r].at = "get" => since = Interval]_vars

Count(P(_)) == Cardinality({r \in Requests : P(r)})

\* /debug/stats, the answers and their x-demo-*-calls headers agree, whatever
\* queues, fails or times out: a 503 is a model error and the other way round;
\* every call counted in stats is in its request's count, is still going on
\* (the researcher's model call until it returns) or died with its request; an
\* article resolved was searched and fetched without an error.  What broke on
\* arrival, a 500 that is not in stats.requests, has made no call.
StatsExplainAnswers ==
  LET Busy(r, stages) == req[r].stage \in stages /\ req[r].at # "enter"
      Dead(r) == req[r].answer = "503"
      Made(r) == req[r].count.model
        + IF \/ Busy(r, ModelStages) \/ req[r].stage \in {"search", "fetch"}
             \/ req[r].answer \in {"500", "503"} THEN 1 ELSE 0
      broken == Count(LAMBDA r : req[r].stage # "new" /\ req[r].answer # "400")
                  - stats.requests IN
  /\ stats.errors.model = Count(Dead)
  /\ stats.errors.search + stats.errors.fetch <=
       Count(LAMBDA r : req[r].count.search = 1 /\ ~req[r].article)
  /\ stats.calls.model + broken = Count(LAMBDA r : Made(r) >= 1)
       + Count(LAMBDA r : Made(r) >= 2) + Count(LAMBDA r : Made(r) >= 3)
  /\ broken \in 0..Count(LAMBDA r : req[r].answer = "500" /\ req[r].count.model = 0)
  /\ stats.calls.search = Count(LAMBDA r : req[r].count.search = 1)
       + Count(LAMBDA r : Busy(r, {"search"}) \/ req[r].stage = "fetch")
  /\ stats.calls.fetch = Count(LAMBDA r : req[r].count.fetch = 1) + Count(LAMBDA r : Busy(r, {"fetch"}))
  /\ \A r \in Requests :
       /\ req[r].count.search <= 1 /\ req[r].count.fetch <= 1
       /\ Made(r) <= 3
       /\ req[r].answer \in {"resolved", "unresolved"} =>
            req[r].count.model = 3 /\ req[r].count.search = 1
       /\ req[r].answer = "resolved" => req[r].count.fetch = 1 /\ req[r].article

\* Every request is answered, even when the timeouts are too long to fire.
EveryRequestEnds == \A r \in Requests : req[r].stage = "planner" ~> req[r].stage = "over"
=============================================================================
