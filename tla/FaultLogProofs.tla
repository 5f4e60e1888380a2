--------------------------- MODULE FaultLogProofs ---------------------------
(***************************************************************************)
(* For any number of calls and sessions, and any log an earlier run left:  *)
(* what a proxy leaves behind when its owner is through with it            *)
(* (StopLeavesNothing), and that every fault it served reaches the session *)
(* it hit (ServedFaultsReachTheirSession).                                 *)
(***************************************************************************)
EXTENDS FaultLog, FiniteSetTheorems, SequenceTheorems, WellFoundedInduction, TLAPS

Owner == [mode : {"command", "demo"},
          phase : {"start", "failed", "serving", "stopping", "over"},
          env : {"own", "proxy"}, agent : {"up", "down", "elsewhere"}]
Call == [at : {"none", "asked", "forward", "held", "done"}, fault : TOOL_FAULTS \cup {"none"},
         answer : {"none", "garbage", "500", "504", "upstream"}, cancelled : BOOLEAN]

\* A handler has a fault only from the moment it was picked, holds a call only
\* for one, has no answer before it is done, and a held call is not cancelled.
HandlerInv ==
  \A c \in Calls :
    /\ call[c].at \in {"none", "asked", "forward"} => call[c].fault = "none"
    /\ call[c].cancelled => call[c].at = "done" /\ call[c].fault = "none"
    /\ call[c].at # "done" => call[c].answer = "none"

\* The proxy is where its owner put it.
ProxyIn(phase) ==
  CASE phase = "start"    -> {"new"}
    [] phase = "failed"   -> {"down"}
    [] phase = "serving"  -> {"up"}
    [] phase = "stopping" -> {"stopping"}
    [] phase = "over"     -> {"down", "killed"}

\* The holds are released before the server leaves; one that is down, or was
\* never up, has no call; the demo alone has an agent and changes the environment.
ProxyInv ==
  /\ proxy \in ProxyIn(owner.phase)
  /\ proxy = "stopping" => released
  /\ proxy \in {"new", "down"} => \A c \in Calls : call[c].at \in Handled
  /\ owner.env = "proxy" => owner.phase = "serving" /\ owner.mode = "demo"
  /\ owner.agent = "up" => owner.mode = "demo"
  /\ owner.phase = "over" /\ owner.agent = "up" => proxy = "killed"

StopInv ==
  /\ owner \in Owner
  /\ released \in BOOLEAN
  /\ call \in [Calls -> Call]
  /\ HandlerInv
  /\ ProxyInv

\* The phases, one by one.
LEMMA Phases ==
  /\ ProxyIn("start") = {"new"} /\ ProxyIn("failed") = {"down"}
  /\ ProxyIn("serving") = {"up"} /\ ProxyIn("stopping") = {"stopping"}
  /\ ProxyIn("over") = {"down", "killed"}
BY DEF ProxyIn

\* A call as its handler leaves it.
Held(r) == [r EXCEPT !.at = "held"]
Done(r, answer) == [r EXCEPT !.at = "done", !.answer = answer]

LEMMA CallHeld ==
  ASSUME NEW r \in Call
  PROVE  Held(r) \in
           [at : {"held"}, fault : {r.fault}, answer : {r.answer}, cancelled : {r.cancelled}]
BY DEF Call, Held

LEMMA CallAnswered ==
  ASSUME NEW r \in Call, NEW answer \in {"garbage", "500", "504", "upstream"}
  PROVE  Done(r, answer) \in
           [at : {"done"}, fault : {r.fault}, answer : {answer}, cancelled : {r.cancelled}]
BY DEF Call, Done

LEMMA CallCancelled ==
  ASSUME NEW r \in Call
  PROVE  [r EXCEPT !.at = "done", !.cancelled = TRUE] \in
           [at : {"done"}, fault : {r.fault}, answer : {r.answer}, cancelled : {TRUE}]
BY DEF Call

\* A handler's step keeps StopInv; it needs a proxy that is alive.
LEMMA HandlerKeeps ==
  ASSUME StopInv, NEW c \in Calls, Ask(c) \/ Handler(c)
  PROVE  StopInv'
<1>a. call[c] \in Call /\ owner \in Owner
  BY DEF StopInv
<1>b. /\ call[c].at \in {"none", "asked", "forward"} => call[c].fault = "none"
      /\ call[c].cancelled => call[c].at = "done" /\ call[c].fault = "none"
      /\ call[c].at # "done" => call[c].answer = "none"
  BY DEF StopInv, HandlerInv
<1>1. UNCHANGED <<owner, proxy, released>> /\ proxy \in Alive
  BY DEF Ask, Handler, Forward, PickFault, HoldEnds, UpstreamAnswers, Cancel, Alive
<1>2. PICK r \in Call : /\ Handle(c, r)
                        /\ r.at \in {"none", "asked", "forward"} => r.fault = "none"
                        /\ r.cancelled => r.at = "done" /\ r.fault = "none"
                        /\ r.at # "done" => r.answer = "none"
  <2>1. CASE Ask(c)
    BY <1>a, <1>b, <2>1 DEF Ask, Call
  <2>2. CASE Forward(c)
    BY <1>a, <1>b, <2>2 DEF Forward, Call
  <2>3. CASE PickFault(c)
    <3>0. PICK fault \in TOOL_FAULTS :
            LET r == [call[c] EXCEPT !.fault = fault] IN
            Handle(c, Held(r)) \/ \E answer \in {"garbage", "500"} : Handle(c, Done(r, answer))
      BY <2>3 DEF PickFault, Held, Done
    <3>1. PICK r :
            /\ r = [call[c] EXCEPT !.fault = fault]
            /\ Handle(c, Held(r)) \/ \E answer \in {"garbage", "500"} : Handle(c, Done(r, answer))
      BY <3>0
    <3>2. r \in Call /\ ~r.cancelled /\ r.answer = "none"
      BY <1>a, <1>b, <2>3, <3>1 DEF PickFault, Call
    <3>3. Held(r) \in Call /\ Held(r).at = "held" /\ ~Held(r).cancelled
            /\ Held(r).answer = "none"
      BY <3>2, CallHeld DEF Call
    <3>4. ASSUME NEW answer \in {"garbage", "500"}
          PROVE  /\ Done(r, answer) \in Call
                 /\ Done(r, answer).at = "done" /\ ~Done(r, answer).cancelled
      <4>1. Done(r, answer) \in [at : {"done"}, fault : {r.fault}, answer : {answer},
                                 cancelled : {r.cancelled}]
        BY <3>2, CallAnswered
      <4> QED
        BY <3>2, <4>1 DEF Call
    <3> QED
      BY <3>1, <3>3, <3>4
  <2>4. CASE HoldEnds(c) \/ UpstreamAnswers(c)
    <3>1. PICK answer \in {"504", "500", "upstream"} :
            Handle(c, Done(call[c], answer))
      BY <2>4 DEF HoldEnds, UpstreamAnswers, Answered, Done
    <3>2. PICK q : /\ Handle(c, q)
                   /\ q \in [at : {"done"}, fault : {call[c].fault}, answer : {answer},
                             cancelled : {call[c].cancelled}]
      BY <1>a, <3>1, CallAnswered
    <3>3. call[c].at # "done"
      BY <2>4 DEF HoldEnds, UpstreamAnswers
    <3> QED
      BY <1>a, <1>b, <3>2, <3>3 DEF Call
  <2>5. CASE Cancel(c)
    <3>1. call[c].at = "forward"
      BY <2>5 DEF Cancel, StopInv, ProxyInv
    <3>2. Handle(c, [call[c] EXCEPT !.at = "done", !.cancelled = TRUE])
      BY <2>5 DEF Cancel
    <3> QED
      BY <1>a, <1>b, <3>1, <3>2, CallCancelled DEF Call
  <2> QED
    BY <2>1, <2>2, <2>3, <2>4, <2>5 DEF Handler
<1>3. call' \in [Calls -> Call] /\ HandlerInv'
  BY <1>2 DEF StopInv, HandlerInv, Handle
<1>4. ProxyInv'
  BY <1>1 DEF StopInv, ProxyInv, Alive
<1> QED
  BY <1>1, <1>3, <1>4 DEF StopInv

\* The owner's steps keep StopInv, and so does what the run that merges does.
LEMMA OwnerKeeps ==
  ASSUME StopInv, StartProxy \/ Stop \/ Exit \/ Kill \/ LoadEnds \/ Merge \/ UNCHANGED vars
  PROVE  StopInv'
<1> USE DEF StopInv, HandlerInv, ProxyInv, Owner, Handled
<1>1. CASE StartProxy
  BY <1>1, Phases DEF StartProxy
<1>2. CASE Stop
  BY <1>2, Phases DEF Stop, HoldsReleased
<1>3. CASE Exit
  BY <1>3, Phases DEF Exit
<1>4. CASE Kill
  <2>1. /\ owner' \in Owner /\ owner'.phase = "over" /\ owner'.agent = owner.agent
        /\ owner'.env = owner.env /\ owner'.mode = owner.mode /\ proxy' = "killed"
        /\ UNCHANGED <<released, call>>
    BY <1>4 DEF Kill
  <2>2. proxy' \in ProxyIn(owner'.phase)
    BY <2>1, Phases
  <2>3. owner'.env = "own" /\ owner.agent # "up"
    BY <1>4, <2>1 DEF Kill
  <2> QED
    BY <2>1, <2>2, <2>3
<1>5. CASE LoadEnds \/ Merge \/ UNCHANGED vars
  BY <1>5 DEF LoadEnds, Merge, vars
<1> QED
  BY <1>1, <1>2, <1>3, <1>4, <1>5

\* StopInv holds throughout.
LEMMA AlwaysStopInv == Spec => []StopInv
<1>1. Init => StopInv
  <2> SUFFICES ASSUME Init PROVE StopInv
    OBVIOUS
  <2>1. PICK mode \in {"command", "demo"} :
          owner = [mode |-> mode, phase |-> "start", env |-> "own",
                   agent |-> IF mode = "demo" THEN "up" ELSE "elsewhere"]
    BY DEF Init
  <2>2. owner \in Owner /\ owner.phase = "start" /\ owner.env = "own"
        /\ (owner.agent = "up" => owner.mode = "demo")
    BY <2>1 DEF Owner
  <2>3. call \in [Calls -> Call] /\ \A c \in Calls : call[c] = Idle
    BY DEF Init, Call, Idle
  <2>4. Idle.at = "none" /\ Idle.fault = "none" /\ ~Idle.cancelled /\ Idle.answer = "none"
    BY DEF Idle
  <2>5. HandlerInv
    BY <2>3, <2>4 DEF HandlerInv
  <2>6. ProxyInv
    BY <2>2, <2>3, <2>4, Phases DEF ProxyInv, Init, Handled
  <2> QED
    BY <2>2, <2>3, <2>5, <2>6 DEF StopInv, Init
<1>2. StopInv /\ [Next]_vars => StopInv'
  BY HandlerKeeps, OwnerKeeps DEF Next
<1> QED
  BY <1>1, <1>2, PTL DEF Spec

\* proxy.py:312-328, demo/run.py:160-190: however the proxy stops, no hold of it
\* was cancelled, and when its owner is through, no handler and no agent is
\* left and the environment is the caller's.
THEOREM NothingLeftBehind == Spec => []StopLeavesNothing
<1>1. StopInv => StopLeavesNothing
  BY Phases DEF StopInv, HandlerInv, ProxyInv, StopLeavesNothing, Owner, Handled
<1> QED
  BY <1>1, AlwaysStopInv, PTL

-----------------------------------------------------------------------------
(* What Of selects.  The function it is read off is defined by recursion     *)
(* over the length; that there is one, and what it returns, follows because  *)
(* there is no first length at which it fails.                              *)

Lines == [fault : TOOL_FAULTS, session : Sessions \cup {OtherRun, NoHeader},
          call : Calls \cup {"none"}]

IsOf(of, log, ss, N) ==
  of = [n \in 0..N |->
          IF n = 0 THEN <<>>
          ELSE IF log[n].session \in ss THEN Append(of[n - 1], log[n]) ELSE of[n - 1]]

\* What holds of 0 and of the next number holds up to N.
LEMMA Upwards ==
  ASSUME NEW N \in Nat, NEW good, 0 \in good,
         \A n \in 1..N : n - 1 \in good => n \in good
  PROVE  0..N \subseteq good
<1> DEFINE bad == {n \in 0..N : n \notin good}
<1>1. bad \subseteq Nat /\ \A n \in 0..N : n \in bad <=> n \notin good
  OBVIOUS
<1> HIDE DEF bad
<1>2. ASSUME bad # {} PROVE FALSE
  <2>1. PICK n \in bad : \A m \in bad : ~(<<m, n>> \in OpToRel(<, Nat))
    BY <1>1, <1>2, NatLessThanWellFounded, WFMin
  <2>2. n \in 0..N /\ n \notin good
    BY <1>1 DEF bad
  <2>3. n \in 1..N /\ n - 1 \in 0..N
    BY <2>2
  <2>4. n - 1 \in bad
    BY <1>1, <2>2, <2>3
  <2>5. <<n - 1, n>> \in OpToRel(<, Nat)
    BY <2>3 DEF OpToRel
  <2> QED
    BY <2>1, <2>4, <2>5
<1> QED
  BY <1>1, <1>2

LEMMA OfExists ==
  ASSUME NEW log, Len(log) \in Nat, NEW ss
  PROVE  \E of : IsOf(of, log, ss, Len(log))
<1> DEFINE good == {N \in 0..Len(log) : \E of : IsOf(of, log, ss, N)}
<1>1. \A N \in 0..Len(log) : N \in good <=> \E of : IsOf(of, log, ss, N)
  OBVIOUS
<1> HIDE DEF good
<1>2. 0 \in good
  <2>1. IsOf([n \in 0..0 |-> <<>>], log, ss, 0)
    BY DEF IsOf
  <2> QED
    BY <1>1, <2>1
<1>3. ASSUME NEW N \in 1..Len(log), N - 1 \in good PROVE N \in good
  <2>1. PICK of : IsOf(of, log, ss, N - 1)
    BY <1>1, <1>3
  <2> DEFINE last == IF log[N].session \in ss THEN Append(of[N - 1], log[N]) ELSE of[N - 1]
             next == [n \in 0..N |-> IF n = N THEN last ELSE of[n]]
  <2>2. ASSUME NEW n \in 0..N
        PROVE  next[n] = IF n = 0 THEN <<>>
                         ELSE IF log[n].session \in ss THEN Append(next[n - 1], log[n])
                         ELSE next[n - 1]
    <3>1. CASE n = N
      <4>1. next[n] = last /\ next[n - 1] = of[N - 1]
        BY <3>1
      <4> HIDE DEF next
      <4> QED
        BY <3>1, <4>1
    <3>2. CASE n = 0
      <4>1. n # N /\ of[0] = <<>>
        BY <2>1, <3>2 DEF IsOf
      <4>2. next[n] = of[n]
        BY <4>1
      <4> HIDE DEF next
      <4> QED
        BY <3>2, <4>1, <4>2
    <3>3. CASE n \in 1..(N - 1)
      <4>1. n \in 0..(N - 1) /\ n # N /\ n # 0 /\ n - 1 \in 0..N /\ n - 1 # N
        BY <3>3
      <4>2. next[n] = of[n] /\ next[n - 1] = of[n - 1]
        BY <4>1
      <4>3. of[n] = IF log[n].session \in ss THEN Append(of[n - 1], log[n]) ELSE of[n - 1]
        BY <2>1, <4>1 DEF IsOf
      <4> HIDE DEF next
      <4> QED
        BY <4>1, <4>2, <4>3
    <3> QED
      BY <3>1, <3>2, <3>3
  <2>3. IsOf(next, log, ss, N)
    <3>1. next = [n \in 0..N |-> next[n]]
      OBVIOUS
    <3> HIDE DEF next
    <3> QED
      BY <2>2, <3>1 DEF IsOf
  <2> HIDE DEF next
  <2>4. \E h : IsOf(h, log, ss, N)
    BY <2>3
  <2> QED
    BY <1>1, <2>4
<1>4. \A N \in 1..Len(log) : N - 1 \in good => N \in good
  BY <1>3
<1>5. 0..Len(log) \subseteq good
  BY <1>2, <1>4, Upwards
<1> QED
  BY <1>1, <1>5

LEMMA OfIs ==
  ASSUME NEW log, Len(log) \in Nat, NEW ss
  PROVE  \E of : IsOf(of, log, ss, Len(log)) /\ Of(log, ss) = of[Len(log)]
<1>1. Of(log, ss) = (CHOOSE of : IsOf(of, log, ss, Len(log)))[Len(log)]
  BY DEF Of, IsOf
<1>2. IsOf(CHOOSE of : IsOf(of, log, ss, Len(log)), log, ss, Len(log))
  BY OfExists
<1> QED
  BY <1>1, <1>2

\* No line of the sessions asked for is in the log twice.
Once(log, ss) ==
  \A j, k \in DOMAIN log : log[j] = log[k] /\ log[j].session \in ss => j = k

\* Of keeps the lines of the sessions asked for, all of them and no others,
\* and repeats none that the log has once.
Selects(of, log, ss) ==
  /\ of \in Seq(Lines)
  /\ \A i \in DOMAIN of : \E k \in DOMAIN log : of[i] = log[k] /\ log[k].session \in ss
  /\ \A k \in DOMAIN log : log[k].session \in ss => \E i \in DOMAIN of : of[i] = log[k]
  /\ Once(log, ss) => \A i, j \in DOMAIN of : of[i] = of[j] => i = j

LEMMA OfSelects ==
  ASSUME NEW log \in Seq(Lines), NEW ss
  PROVE  Selects(Of(log, ss), log, ss)
<1> DEFINE N == Len(log)
<1>1. N \in Nat /\ DOMAIN log = 1..N /\ \A k \in 1..N : log[k] \in Lines
  BY LenProperties, ElementOfSeq
<1>2. PICK of : IsOf(of, log, ss, Len(log)) /\ Of(log, ss) = of[N]
  BY <1>1, OfIs
<1> DEFINE Good(n) ==
      /\ of[n] \in Seq(Lines)
      /\ \A i \in 1..Len(of[n]) : \E k \in 1..n : of[n][i] = log[k] /\ log[k].session \in ss
      /\ \A k \in 1..n : log[k].session \in ss => \E i \in 1..Len(of[n]) : of[n][i] = log[k]
      /\ Once(log, ss) => \A i, j \in 1..Len(of[n]) : of[n][i] = of[n][j] => i = j
    good == {n \in 0..N : Good(n)}
<1> HIDE DEF N
<1>3. of[0] = <<>> /\ \A n \in 1..N : of[n] = IF log[n].session \in ss
                                       THEN Append(of[n - 1], log[n]) ELSE of[n - 1]
  <2>1. \A n \in 0..N : of[n] = IF n = 0 THEN <<>>
          ELSE IF log[n].session \in ss THEN Append(of[n - 1], log[n]) ELSE of[n - 1]
    BY <1>2 DEF IsOf, N
  <2> QED
    BY <1>1, <2>1
<1>4. 0 \in good
  <2>1. Good(0)
    BY <1>3, EmptySeq
  <2> QED
    BY <1>1, <2>1
<1>5. ASSUME NEW n \in 1..N, n - 1 \in good PROVE n \in good
  <2> DEFINE was == of[n - 1]
             is == of[n]
  <2>1. /\ was \in Seq(Lines) /\ Len(was) \in Nat
        /\ \A i \in 1..Len(was) : \E k \in 1..(n - 1) : was[i] = log[k] /\ log[k].session \in ss
        /\ \A k \in 1..(n - 1) : log[k].session \in ss => \E i \in 1..Len(was) : was[i] = log[k]
        /\ Once(log, ss) => \A i, j \in 1..Len(was) : was[i] = was[j] => i = j
    BY <1>5, LenProperties
  <2>2. is = IF log[n].session \in ss THEN Append(was, log[n]) ELSE was
    BY <1>3
  <2>3. n \in Nat /\ n - 1 \in Nat /\ log[n] \in Lines
    BY <1>1
  <2>4. \A k \in 1..n : k \in 1..(n - 1) \/ k = n
    BY <2>3
  <2> HIDE DEF was, is
  <2>5. CASE log[n].session \notin ss
    <3>1. is = was
      BY <2>2, <2>5
    <3>2. \A k \in 1..(n - 1) : k \in 1..n
      BY <2>3
    <3>3. \A i \in 1..Len(was) : \E k \in 1..n : was[i] = log[k] /\ log[k].session \in ss
      BY <2>1, <3>2
    <3>4. \A k \in 1..n : log[k].session \in ss => \E i \in 1..Len(was) : was[i] = log[k]
      BY <2>1, <2>4, <2>5
    <3>5. /\ is \in Seq(Lines)
          /\ \A i \in 1..Len(is) : \E k \in 1..n : is[i] = log[k] /\ log[k].session \in ss
          /\ \A k \in 1..n : log[k].session \in ss => \E i \in 1..Len(is) : is[i] = log[k]
          /\ Once(log, ss) => \A i, j \in 1..Len(is) : is[i] = is[j] => i = j
      BY <2>1, <3>1, <3>3, <3>4
    <3>6. Good(n)
      BY <3>5 DEF is
    <3>7. n \in 0..N
      BY <1>1
    <3> HIDE DEF Good
    <3> QED
      BY <3>6, <3>7
  <2>6. CASE log[n].session \in ss
    <3>1. /\ is \in Seq(Lines) /\ Len(is) = Len(was) + 1
          /\ \A i \in 1..Len(was) : is[i] = was[i]
          /\ is[Len(was) + 1] = log[n]
      BY <2>1, <2>2, <2>3, <2>6, AppendProperties
    <3>2. \A i \in 1..Len(is) : i \in 1..Len(was) \/ i = Len(was) + 1
      BY <2>1, <3>1
    <3>3. \A i \in 1..Len(is) : \E k \in 1..n : is[i] = log[k] /\ log[k].session \in ss
      <4> SUFFICES ASSUME NEW i \in 1..Len(is)
                   PROVE  \E k \in 1..n : is[i] = log[k] /\ log[k].session \in ss
        OBVIOUS
      <4>1. CASE i \in 1..Len(was)
        <5>1. PICK k \in 1..(n - 1) : was[i] = log[k] /\ log[k].session \in ss
          BY <2>1, <4>1
        <5> QED
          BY <2>3, <3>1, <4>1, <5>1
      <4>2. CASE i = Len(was) + 1
        BY <2>3, <2>6, <3>1, <4>2
      <4> QED
        BY <3>2, <4>1, <4>2
    <3>4. ASSUME NEW k \in 1..n, log[k].session \in ss
          PROVE  \E i \in 1..Len(is) : is[i] = log[k]
      <4>1. CASE k \in 1..(n - 1)
        <5>1. PICK i \in 1..Len(was) : was[i] = log[k]
          BY <2>1, <3>4, <4>1
        <5> QED
          BY <2>1, <3>1, <5>1
      <4>2. CASE k = n
        BY <2>1, <3>1, <4>2
      <4> QED
        BY <2>4, <4>1, <4>2
    <3>5. ASSUME Once(log, ss), NEW i \in 1..Len(was) PROVE was[i] # log[n]
      <4>1. PICK k \in 1..(n - 1) : was[i] = log[k] /\ log[k].session \in ss
        BY <2>1
      <4>2. k \in DOMAIN log /\ n \in DOMAIN log /\ k # n
        BY <1>1, <2>3
      <4> QED
        BY <3>5, <4>1, <4>2 DEF Once
    <3>6. Once(log, ss) => \A i, j \in 1..Len(is) : is[i] = is[j] => i = j
      <4> SUFFICES ASSUME Once(log, ss), NEW i \in 1..Len(is), NEW j \in 1..Len(is),
                          is[i] = is[j]
                   PROVE  i = j
        OBVIOUS
      <4> QED
        BY <2>1, <3>1, <3>2, <3>5
    <3> QED
      BY <3>1, <3>3, <3>4, <3>6 DEF is
  <2> QED
    BY <2>5, <2>6
<1> HIDE DEF good
<1>a. \A n \in 1..N : n - 1 \in good => n \in good
  BY <1>5
<1>b. 0..N \subseteq good
  BY <1>1, <1>4, <1>a, Upwards
<1>6. N \in good
  BY <1>1, <1>b
<1>7. Good(N)
  BY <1>6 DEF good
<1>8. DOMAIN Of(log, ss) = 1..Len(Of(log, ss))
  BY <1>2, <1>7, LenProperties
<1> QED
  BY <1>1, <1>2, <1>7, <1>8 DEF Selects

\* A log of a run: what an earlier run left is of no session of this one, and
\* a call of this run is in it at most once, under its own header, and has
\* met a fault.
Sound(log, faulted) ==
  /\ \A k \in DOMAIN log :
       /\ log[k].call = "none" => log[k].session = OtherRun
       /\ log[k].call # "none" => /\ log[k].session = SessionOf[log[k].call]
                                  /\ log[k].call \in faulted
  /\ \A j, k \in DOMAIN log : log[j].call = log[k].call /\ log[j].call # "none" => j = k

LEMMA SoundOnce ==
  ASSUME NEW log, NEW faulted, Sound(log, faulted), NEW ss \in SUBSET Sessions
  PROVE  /\ Once(log, ss)
         /\ \A k \in DOMAIN log : log[k].session \in ss => log[k].call # "none"
<1>1. OtherRun \notin ss
  BY SessionAssumption
<1> QED
  BY <1>1 DEF Sound, Once

\* Extending a session's own faults by its part of the log.
Extends(all, part) ==
  /\ \A k \in DOMAIN all : all[k] = LLM \/ \E i \in DOMAIN part : all[k] = part[i]
  /\ \A i \in DOMAIN part : \E k \in DOMAIN all : all[k] = part[i]
  /\ \A j, k \in DOMAIN all : all[j] = all[k] => j = k

LEMMA Extended ==
  ASSUME NEW own \in {<<>>, <<LLM>>}, NEW part \in Seq(Lines), NEW all, all = own \o part,
         \A i, j \in DOMAIN part : part[i] = part[j] => i = j
  PROVE  Extends(all, part)
<1>1. /\ DOMAIN part = 1..Len(part) /\ Len(part) \in Nat
      /\ \A i \in DOMAIN part : part[i] \in Lines
  BY LenProperties, ElementOfSeq
<1>2. \A i \in DOMAIN part : part[i] # LLM
  <2>1. \A line \in Lines : line.fault # "llm_rate_limit"
    BY DEF Lines, TOOL_FAULTS
  <2>2. LLM.fault = "llm_rate_limit"
    BY DEF LLM
  <2> QED
    BY <1>1, <2>1, <2>2
<1> HIDE DEF LLM
<1>3. CASE own = <<>>
  <2>1. all = part
    BY <1>3
  <2> QED
    BY <1>1, <2>1 DEF Extends
<1>4. CASE own = <<LLM>>
  <2>1. /\ DOMAIN all = 1..(Len(part) + 1) /\ all[1] = LLM
        /\ \A k \in 2..(Len(part) + 1) : all[k] = part[k - 1]
    BY <1>1, <1>4
  <2>2. \A k \in DOMAIN all : k = 1 \/ (k \in 2..(Len(part) + 1) /\ k - 1 \in DOMAIN part)
    BY <1>1, <2>1
  <2>3. \A i \in DOMAIN part : i + 1 \in DOMAIN all /\ all[i + 1] = part[i]
    BY <1>1, <2>1
  <2>4. \A j, k \in DOMAIN all : all[j] = all[k] => j = k
    <3> SUFFICES ASSUME NEW j \in DOMAIN all, NEW k \in DOMAIN all, all[j] = all[k]
                 PROVE  j = k
      OBVIOUS
    <3>1. CASE j = 1 \/ k = 1
      BY <1>2, <2>1, <2>2, <3>1
    <3>2. CASE j # 1 /\ k # 1
      <4>1. /\ j - 1 \in DOMAIN part /\ k - 1 \in DOMAIN part
            /\ part[j - 1] = part[k - 1] /\ j \in Int /\ k \in Int
        BY <2>1, <2>2, <3>2
      <4>2. j - 1 = k - 1
        BY <4>1
      <4> QED
        BY <4>1, <4>2
    <3> QED
      BY <3>1, <3>2
  <2>5. \A k \in DOMAIN all : all[k] = LLM \/ \E i \in DOMAIN part : all[k] = part[i]
    BY <2>1, <2>2
  <2>6. \A i \in DOMAIN part : \E k \in DOMAIN all : all[k] = part[i]
    BY <2>3
  <2> QED
    BY <2>4, <2>5, <2>6 DEF Extends
<1> QED
  BY <1>3, <1>4

\* What the sessions of the run have after the merge.
HasItsLines(all, log, s) ==
  /\ \A k \in DOMAIN all :
       all[k] = LLM \/ \E n \in DOMAIN log : all[k] = log[n] /\ log[n].session = s
  /\ \A n \in DOMAIN log : log[n].session = s => \E k \in DOMAIN all : all[k] = log[n]
  /\ \A j, k \in DOMAIN all : all[j] = all[k] => j = k

LEMMA Merged ==
  ASSUME NEW log \in Seq(Lines), NEW faulted, Sound(log, faulted),
         NEW before \in [Sessions -> {<<>>, <<LLM>>}], NEW after,
         \A s \in Sessions : after[s] = before[s] \o Of(log, {s})
  PROVE  \A s \in Sessions : HasItsLines(after[s], log, s)
<1> SUFFICES ASSUME NEW s \in Sessions PROVE HasItsLines(after[s], log, s)
  OBVIOUS
<1> DEFINE part == Of(log, {s})
           own == before[s]
           all == after[s]
<1>1. Once(log, {s})
  BY SoundOnce
<1>1a. Selects(part, log, {s})
  BY OfSelects
<1>2. /\ part \in Seq(Lines)
      /\ \A i \in DOMAIN part : \E n \in DOMAIN log : part[i] = log[n] /\ log[n].session \in {s}
      /\ \A n \in DOMAIN log : log[n].session \in {s} => \E i \in DOMAIN part : part[i] = log[n]
      /\ \A i, j \in DOMAIN part : part[i] = part[j] => i = j
  BY <1>1, <1>1a DEF Selects
<1>3. all = own \o part /\ own \in {<<>>, <<LLM>>}
  OBVIOUS
<1> HIDE DEF part, own, all
<1>3a. Extends(all, part)
  <2>1. \A i, j \in DOMAIN part : part[i] = part[j] => i = j
    BY <1>2
  <2> QED
    BY <1>2, <1>3, <2>1, Extended
<1>4. /\ \A k \in DOMAIN all : all[k] = LLM \/ \E i \in DOMAIN part : all[k] = part[i]
      /\ \A i \in DOMAIN part : \E k \in DOMAIN all : all[k] = part[i]
      /\ \A j, k \in DOMAIN all : all[j] = all[k] => j = k
  BY <1>3a DEF Extends
<1>5. ASSUME NEW n \in DOMAIN log, log[n].session = s
      PROVE  \E k \in DOMAIN all : all[k] = log[n]
  <2>1. PICK i \in DOMAIN part : part[i] = log[n]
    BY <1>2, <1>5
  <2>2. PICK k \in DOMAIN all : all[k] = part[i]
    BY <1>4
  <2> QED
    BY <2>1, <2>2
<1>6. ASSUME NEW k \in DOMAIN all, all[k] # LLM
      PROVE  \E n \in DOMAIN log : all[k] = log[n] /\ log[n].session = s
  <2>1. PICK i \in DOMAIN part : all[k] = part[i]
    BY <1>4, <1>6
  <2>2. PICK n \in DOMAIN log : part[i] = log[n] /\ log[n].session \in {s}
    BY <1>2
  <2> QED
    BY <2>1, <2>2
<1> QED
  BY <1>4, <1>5, <1>6 DEF all, HasItsLines

\* A line of the log is not the load generator's own fault.
LEMMA LineNotLLM ==
  ASSUME NEW log \in Seq(Lines)
  PROVE  \A n \in DOMAIN log : log[n] # LLM /\ log[n] \in Lines
<1>1. \A n \in DOMAIN log : log[n] \in Lines
  BY LenProperties, ElementOfSeq
<1>2. \A line \in Lines : line.fault # "llm_rate_limit"
  BY DEF Lines, TOOL_FAULTS
<1>3. LLM.fault = "llm_rate_limit"
  BY DEF LLM
<1> QED
  BY <1>1, <1>2, <1>3

\* The faults on the sessions that the merge put there.
OnSessions(after) ==
  UNION {{s} \X {k \in DOMAIN after[s] : after[s][k] # LLM} : s \in Sessions}

ExtendedBy(after, before, log) ==
  \A s \in Sessions : after[s] = before[s] \o Of(log, {s})

\* The merge counts each line it puts on a session of the run, once.
LEMMA Attributed ==
  ASSUME NEW log \in Seq(Lines), NEW faulted, Sound(log, faulted),
         NEW before \in [Sessions -> {<<>>, <<LLM>>}], NEW after,
         ExtendedBy(after, before, log)
  PROVE  Len(Of(log, Sessions)) = Cardinality(OnSessions(after))
<1> DEFINE A == Of(log, Sessions)
           On(s) == {k \in DOMAIN after[s] : after[s][k] # LLM}
           P == UNION {{s} \X On(s) : s \in Sessions}
<1>1. Once(log, Sessions)
  BY SoundOnce
<1>1a. Selects(A, log, Sessions)
  BY OfSelects
<1>2. /\ A \in Seq(Lines)
      /\ \A i \in DOMAIN A : \E n \in DOMAIN log : A[i] = log[n] /\ log[n].session \in Sessions
      /\ \A n \in DOMAIN log : log[n].session \in Sessions => \E i \in DOMAIN A : A[i] = log[n]
      /\ \A i, j \in DOMAIN A : A[i] = A[j] => i = j
  BY <1>1, <1>1a DEF Selects
<1>3. \A s \in Sessions :
        /\ \A k \in DOMAIN after[s] : after[s][k] = LLM
             \/ \E n \in DOMAIN log : after[s][k] = log[n] /\ log[n].session = s
        /\ \A n \in DOMAIN log : log[n].session = s =>
             \E k \in DOMAIN after[s] : after[s][k] = log[n]
        /\ \A j, k \in DOMAIN after[s] : after[s][j] = after[s][k] => j = k
  <2>1. \A s \in Sessions : HasItsLines(after[s], log, s)
    BY Merged DEF ExtendedBy
  <2> QED
    BY <2>1 DEF HasItsLines
<1>4. \A n \in DOMAIN log : log[n] # LLM
  BY LineNotLLM
<1> HIDE DEF A, LLM
<1>5. \A p : p \in P <=> /\ p = <<p[1], p[2]>> /\ p[1] \in Sessions
                         /\ p[2] \in DOMAIN after[p[1]] /\ after[p[1]][p[2]] # LLM
  OBVIOUS
<1> HIDE DEF P
<1> DEFINE At(i) == CHOOSE k \in DOMAIN after[A[i].session] : after[A[i].session][k] = A[i]
           f == [i \in 1..Len(A) |-> <<A[i].session, At(i)>>]
<1>6. DOMAIN A = 1..Len(A) /\ Len(A) \in Nat
  BY <1>2, LenProperties
<1>7. ASSUME NEW i \in 1..Len(A)
      PROVE  /\ A[i].session \in Sessions /\ A[i] # LLM
             /\ At(i) \in DOMAIN after[A[i].session] /\ after[A[i].session][At(i)] = A[i]
  <2>1. PICK n \in DOMAIN log : A[i] = log[n] /\ log[n].session \in Sessions
    BY <1>2, <1>6
  <2>2. \E k \in DOMAIN after[A[i].session] : after[A[i].session][k] = A[i]
    <3>1. PICK k \in DOMAIN after[log[n].session] : after[log[n].session][k] = log[n]
      BY <1>3, <2>1
    <3> QED
      BY <2>1, <3>1
  <2> QED
    BY <1>4, <2>1, <2>2
<1>8. \A i \in 1..Len(A) : f[i] = <<A[i].session, At(i)>>
  OBVIOUS
<1>9. DOMAIN f = 1..Len(A) /\ f = [i \in 1..Len(A) |-> f[i]]
  OBVIOUS
<1> HIDE DEF At, f
<1>10. ASSUME NEW i \in 1..Len(A) PROVE f[i] \in P
  <2>1. f[i] = <<A[i].session, At(i)>>
    BY <1>8
  <2>2. f[i][1] = A[i].session /\ f[i][2] = At(i) /\ f[i] = <<f[i][1], f[i][2]>>
    BY <2>1
  <2>3. f[i][1] \in Sessions /\ f[i][2] \in DOMAIN after[f[i][1]] /\ after[f[i][1]][f[i][2]] # LLM
    BY <1>7, <2>2
  <2> QED
    BY <1>5, <2>2, <2>3
<1>11. ASSUME NEW i \in 1..Len(A), NEW j \in 1..Len(A), f[i] = f[j] PROVE i = j
  <2>1. A[i].session = A[j].session /\ At(i) = At(j)
    BY <1>8, <1>11
  <2>2. A[i] = A[j]
    BY <1>7, <2>1
  <2> QED
    BY <1>2, <1>6, <2>2
<1>12. ASSUME NEW p \in P PROVE \E i \in 1..Len(A) : f[i] = p
  <2>1. /\ p = <<p[1], p[2]>> /\ p[1] \in Sessions
        /\ p[2] \in DOMAIN after[p[1]] /\ after[p[1]][p[2]] # LLM
    BY <1>5
  <2>2. PICK n \in DOMAIN log : after[p[1]][p[2]] = log[n] /\ log[n].session = p[1]
    BY <1>3, <2>1
  <2>3. PICK i \in 1..Len(A) : A[i] = log[n]
    BY <1>2, <1>6, <2>1, <2>2
  <2>4. A[i].session = p[1]
    BY <2>2, <2>3
  <2>5. At(i) = p[2]
    BY <1>3, <1>7, <2>1, <2>2, <2>3, <2>4
  <2> QED
    BY <1>8, <2>1, <2>4, <2>5
<1>13. f \in Bijection(1..Len(A), P)
  <2>1. f \in [1..Len(A) -> P]
    BY <1>9, <1>10
  <2>2. f \in Injection(1..Len(A), P)
    BY <1>11, <2>1 DEF Injection, IsInjective
  <2>3. f \in Surjection(1..Len(A), P)
    BY <1>12, <2>1 DEF Surjection
  <2> QED
    BY <2>2, <2>3 DEF Bijection
<1>14. Cardinality(P) = Len(A)
  BY <1>6, <1>13, FS_CountingElements DEF ExistsBijection
<1> QED
  BY <1>14 DEF A, P, OnSessions

-----------------------------------------------------------------------------
(* What the run merges: the memory of its own proxy, or the file. *)

LogOfRun == IF owner.mode = "demo" THEN memory ELSE file
Met == {c \in Calls : call[c].fault # "none"}

\* The log is of calls that met a fault, each of them under its own header and
\* once, and every fault the agent was served is in it.
LogInv ==
  /\ LogOfRun \in Seq(Lines) /\ Sound(LogOfRun, Met)
  /\ \A c \in Served : \E k \in DOMAIN LogOfRun : LogOfRun[k].call = c

\* Until the merge the sessions have the load generator's own faults only, and
\* what it put there is of calls that met a fault.
MergeInv ==
  /\ merge.done => merge.due /\ \A s \in Sessions : CallsIn(session[s]) \subseteq Met
  /\ ~merge.done => /\ session \in [Sessions -> {<<>>, <<LLM>>}]
                    /\ merge \in {NotMerged, [NotMerged EXCEPT !.due = TRUE]}
  /\ ServedFaultsReachTheirSession

\* A log with the line of one more call.
OneMore(more, log, met, c) ==
  /\ more \in Seq(Lines) /\ Sound(more, met \cup {c})
  /\ \A k \in DOMAIN log : k \in DOMAIN more /\ more[k] = log[k]
  /\ \E k \in DOMAIN more : more[k].call = c

LEMMA LineAdded ==
  ASSUME NEW log \in Seq(Lines), NEW met, Sound(log, met),
         NEW c \in Calls, c \notin met, NEW fault \in TOOL_FAULTS,
         NEW more, more = Append(log, Entry(c, fault))
  PROVE  OneMore(more, log, met, c)
<1>1. Entry(c, fault) \in Lines
  BY SessionAssumption DEF Entry, Lines
<1>2. /\ Entry(c, fault).call = c /\ Entry(c, fault).session = SessionOf[c] /\ c # "none"
  BY SessionAssumption DEF Entry
<1>3. /\ DOMAIN log = 1..Len(log) /\ Len(log) \in Nat
      /\ more \in Seq(Lines) /\ Len(more) = Len(log) + 1 /\ DOMAIN more = 1..Len(more)
      /\ \A k \in 1..Len(log) : more[k] = log[k]
      /\ more[Len(log) + 1] = Entry(c, fault)
  BY <1>1, LenProperties, AppendProperties
<1>4. \A k \in DOMAIN more : k \in DOMAIN log \/ k = Len(log) + 1
  BY <1>3
<1>5. \A k \in DOMAIN log : k \in DOMAIN more /\ more[k] = log[k]
  BY <1>3
<1>6. Len(log) + 1 \in DOMAIN more /\ more[Len(log) + 1].call = c
      /\ more[Len(log) + 1].session = SessionOf[c]
  BY <1>2, <1>3
<1>7. \A k \in DOMAIN log : log[k].call # c
  BY <1>2 DEF Sound
<1>8. Sound(more, met \cup {c})
  <2>1. \A k \in DOMAIN more :
          /\ more[k].call = "none" => more[k].session = OtherRun
          /\ more[k].call # "none" => /\ more[k].session = SessionOf[more[k].call]
                                      /\ more[k].call \in met \cup {c}
    BY <1>2, <1>4, <1>5, <1>6 DEF Sound
  <2>2. \A j, k \in DOMAIN more : more[j].call = more[k].call /\ more[j].call # "none" => j = k
    BY <1>4, <1>5, <1>6, <1>7 DEF Sound
  <2> QED
    BY <2>1, <2>2 DEF Sound
<1> QED
  BY <1>3, <1>5, <1>6, <1>8 DEF OneMore

\* A handler's step logs the fault it picks, before the agent is served it, or
\* serves no fault that was not.
LEMMA HandlerLogs ==
  ASSUME StopInv, NEW c \in Calls, Ask(c) \/ Handler(c)
  PROVE  /\ UNCHANGED <<owner, session, merge>>
         /\ \/ Met' = Met /\ Served' \subseteq Served /\ UNCHANGED <<memory, file>>
            \/ /\ c \notin Met /\ Met' = Met \cup {c} /\ Served' \subseteq Served
               /\ owner.mode # "demo" /\ UNCHANGED file
            \/ /\ c \notin Met /\ Met' = Met \cup {c} /\ Served' \subseteq Served \cup {c}
               /\ \E fault \in TOOL_FAULTS : LogOfRun' = Append(LogOfRun, Entry(c, fault))
<1>a. call[c] \in Call /\ call \in [Calls -> Call] /\ owner \in Owner
  BY DEF StopInv
<1>b. call[c].at \in {"none", "asked", "forward"} => call[c].fault = "none"
  BY DEF StopInv, HandlerInv
<1>1. UNCHANGED <<owner, session, merge>>
  BY DEF Ask, Handler, Forward, PickFault, HoldEnds, UpstreamAnswers, Cancel
<1>2. ASSUME NEW r, Handle(c, r)
      PROVE  call' = [call EXCEPT ![c] = r] /\ call'[c] = r
             /\ \A d \in Calls : d # c => call'[d] = call[d]
  BY <1>a, <1>2 DEF Handle
<1>3. ASSUME NEW r, Handle(c, r), r.fault = call[c].fault,
             r.at \in {"held", "done"} /\ r.fault # "none" =>
               call[c].at \in {"held", "done"} /\ call[c].answer # "500"
      PROVE  Met' = Met /\ Served' \subseteq Served
  BY <1>2, <1>3 DEF Met, Served
<1>4. CASE Ask(c) \/ Forward(c) \/ Cancel(c)
  <2>1. PICK r : Handle(c, r) /\ r.fault = call[c].fault /\ r.fault = "none"
    <3>1. CASE Ask(c)
      BY <1>a, <1>b, <3>1 DEF Ask, Call
    <3>2. CASE Forward(c)
      BY <1>a, <1>b, <3>2 DEF Forward, Call
    <3>3. CASE Cancel(c)
      <4>1. call[c].at = "forward"
        BY <3>3 DEF Cancel, StopInv, ProxyInv
      <4>2. Handle(c, [call[c] EXCEPT !.at = "done", !.cancelled = TRUE])
        BY <3>3 DEF Cancel
      <4> QED
        BY <1>a, <1>b, <4>1, <4>2, CallCancelled
    <3> QED
      BY <1>4, <3>1, <3>2, <3>3
  <2>2. UNCHANGED <<memory, file>>
    BY <1>4 DEF Ask, Forward, Cancel
  <2> QED
    BY <1>1, <1>3, <2>1, <2>2
<1>5. CASE HoldEnds(c) \/ UpstreamAnswers(c)
  <2>1. PICK answer \in {"504", "500", "upstream"} : Handle(c, Done(call[c], answer))
    BY <1>5 DEF HoldEnds, UpstreamAnswers, Answered, Done
  <2>2. Done(call[c], answer).fault = call[c].fault
    BY <1>a DEF Done, Call
  <2>3. UNCHANGED <<memory, file>> /\ call[c].at \in {"held", "forward"}
    BY <1>5 DEF HoldEnds, UpstreamAnswers
  <2>4. call[c].at = "held" => call[c].answer # "500"
    BY DEF StopInv, HandlerInv
  <2> QED
    BY <1>1, <1>3, <1>b, <2>1, <2>2, <2>3, <2>4
<1>6. CASE PickFault(c)
  <2>0. call[c].at = "asked" /\ c \notin Met /\ c \notin Served
    BY <1>b, <1>6 DEF PickFault, Met, Served
  <2>1. PICK fault \in TOOL_FAULTS :
          LET r == [call[c] EXCEPT !.fault = fault] IN
          \/ /\ memory' = Recorded(c, fault, memory)
             /\ file' = IF owner.mode = "demo" THEN file ELSE Recorded(c, fault, file)
             /\ Handle(c, Held(r)) \/ Handle(c, Done(r, "garbage"))
          \/ owner.mode = "command" /\ UNCHANGED file /\ Handle(c, Done(r, "500"))
    BY <1>6 DEF PickFault, Held, Done
  <2>2. PICK r : r = [call[c] EXCEPT !.fault = fault]
    OBVIOUS
  <2>3. r \in Call /\ r.fault = fault /\ fault # "none"
    BY <1>a, <2>2 DEF Call, TOOL_FAULTS
  <2>4. Held(r).fault = fault
    BY <2>3, CallHeld
  <2>5. \A answer \in {"garbage", "500"} :
          Done(r, answer).fault = fault /\ Done(r, answer).answer = answer
    BY <2>3, CallAnswered
  <2>6. ASSUME NEW q, Handle(c, q), q.fault = fault
        PROVE  /\ Met' = Met \cup {c} /\ Served' \subseteq Served \cup {c}
               /\ q.answer = "500" => Served' \subseteq Served
    <3>1. call'[c] = q /\ \A d \in Calls : d # c => call'[d] = call[d]
      BY <1>2, <2>6
    <3>2. Met' = Met \cup {c}
      BY <2>3, <2>6, <3>1 DEF Met
    <3>3. Served' \subseteq Served \cup {c}
      BY <3>1 DEF Served
    <3>4. q.answer = "500" => c \notin Served'
      BY <3>1 DEF Served
    <3> QED
      BY <3>2, <3>3, <3>4
  <2>7. CASE /\ memory' = Recorded(c, fault, memory)
             /\ file' = IF owner.mode = "demo" THEN file ELSE Recorded(c, fault, file)
             /\ Handle(c, Held(r)) \/ Handle(c, Done(r, "garbage"))
    <3>1. LogOfRun' = Append(LogOfRun, Entry(c, fault))
      BY <1>1, <2>7 DEF LogOfRun, Recorded
    <3>2. Met' = Met \cup {c} /\ Served' \subseteq Served \cup {c}
      BY <2>4, <2>5, <2>6, <2>7
    <3> QED
      BY <1>1, <2>0, <3>1, <3>2
  <2>8. CASE owner.mode = "command" /\ UNCHANGED file /\ Handle(c, Done(r, "500"))
    <3>1. Met' = Met \cup {c} /\ Served' \subseteq Served
      BY <2>5, <2>6, <2>8
    <3> QED
      BY <1>1, <2>0, <2>8, <3>1
  <2> QED
    BY <2>1, <2>2, <2>7, <2>8
<1> QED
  BY <1>4, <1>5, <1>6 DEF Handler

\* Sound says less of more faults.
LEMMA SoundMore ==
  ASSUME NEW log, NEW met, NEW more, Sound(log, met), met \subseteq more
  PROVE  Sound(log, more)
BY DEF Sound

LEMMA LogGrows ==
  ASSUME StopInv, LogInv, NEW c \in Calls, Ask(c) \/ Handler(c)
  PROVE  LogInv'
<1>1. /\ UNCHANGED <<owner, session, merge>>
      /\ \/ Met' = Met /\ Served' \subseteq Served /\ UNCHANGED <<memory, file>>
         \/ /\ c \notin Met /\ Met' = Met \cup {c} /\ Served' \subseteq Served
            /\ owner.mode # "demo" /\ UNCHANGED file
         \/ /\ c \notin Met /\ Met' = Met \cup {c} /\ Served' \subseteq Served \cup {c}
            /\ \E fault \in TOOL_FAULTS : LogOfRun' = Append(LogOfRun, Entry(c, fault))
  BY HandlerLogs
<1>2. CASE LogOfRun' = LogOfRun /\ Met \subseteq Met' /\ Served' \subseteq Served
  <2>1. Sound(LogOfRun, Met')
    BY <1>2, SoundMore DEF LogInv
  <2> QED
    BY <1>2, <2>1 DEF LogInv
<1>3. CASE /\ c \notin Met /\ Met' = Met \cup {c} /\ Served' \subseteq Served \cup {c}
           /\ \E fault \in TOOL_FAULTS : LogOfRun' = Append(LogOfRun, Entry(c, fault))
  <2>1. PICK fault \in TOOL_FAULTS : LogOfRun' = Append(LogOfRun, Entry(c, fault))
    BY <1>3
  <2>2. PICK log : log = LogOfRun
    OBVIOUS
  <2>3. PICK more : more = LogOfRun'
    OBVIOUS
  <2>4. PICK met : met = Met
    OBVIOUS
  <2>5. log \in Seq(Lines) /\ Sound(log, met) /\ c \notin met /\ more = Append(log, Entry(c, fault))
    BY <1>3, <2>1, <2>2, <2>3, <2>4 DEF LogInv
  <2>5a. OneMore(more, log, met, c)
    BY <2>1, <2>5, LineAdded
  <2>6. /\ more \in Seq(Lines) /\ Sound(more, met \cup {c})
        /\ \A k \in DOMAIN log : k \in DOMAIN more /\ more[k] = log[k]
        /\ \E k \in DOMAIN more : more[k].call = c
    BY <2>5a DEF OneMore
  <2>7. ASSUME NEW d \in Served' PROVE \E k \in DOMAIN more : more[k].call = d
    <3>1. CASE d = c
      BY <2>6, <3>1
    <3>2. CASE d \in Served
      <4>1. PICK k \in DOMAIN log : log[k].call = d
        BY <2>2, <3>2 DEF LogInv
      <4> QED
        BY <2>6, <4>1
    <3> QED
      BY <1>3, <3>1, <3>2
  <2>8. Sound(more, Met')
    BY <1>3, <2>4, <2>6
  <2> QED
    BY <2>3, <2>6, <2>7, <2>8 DEF LogInv
<1> QED
  BY <1>1, <1>2, <1>3 DEF LogOfRun

\* Whatever leaves the handlers, the log and the mode alone keeps LogInv.
LEMMA LogStays ==
  ASSUME LogInv, UNCHANGED <<call, memory, file>>, owner'.mode = owner.mode
  PROVE  LogInv'
<1>1. UNCHANGED <<Met, Served, LogOfRun>>
  BY DEF Met, Served, LogOfRun
<1> QED
  BY <1>1 DEF LogInv

LEMMA OwnerLogs ==
  ASSUME StopInv, LogInv,
         StartProxy \/ Stop \/ Exit \/ Kill \/ LoadEnds \/ Merge \/ UNCHANGED vars
  PROVE  LogInv' /\ UNCHANGED call
<1>1. owner \in Owner
  BY DEF StopInv
<1>2. UNCHANGED <<call, memory, file>> /\ owner'.mode = owner.mode
  BY <1>1 DEF StartProxy, Stop, Exit, Kill, LoadEnds, Merge, vars, Owner
<1> QED
  BY <1>2, LogStays

\* What was merged stays.
LEMMA MergeStays ==
  ASSUME MergeInv, UNCHANGED <<session, merge>>, owner'.mode = owner.mode, Met \subseteq Met'
  PROVE  MergeInv'
<1>1. ASSUME merge.done PROVE ServedFaultsReachTheirSession'
  <2>1. \A s \in Sessions : CallsIn(session[s]) \subseteq Met'
    BY <1>1 DEF MergeInv
  <2>2. \A s \in Sessions : \A c \in CallsIn(session[s]) : call'[c].fault # "none"
    BY <2>1 DEF Met
  <2>3. ServedFaultsReachTheirSession
    BY DEF MergeInv
  <2> QED
    BY <1>1, <2>2, <2>3 DEF ServedFaultsReachTheirSession, CallsIn, Faulted, Clean
<1>2. ~merge.done => ServedFaultsReachTheirSession'
  BY DEF ServedFaultsReachTheirSession
<1>3. \A s \in Sessions : CallsIn(session'[s]) = CallsIn(session[s])
  OBVIOUS
<1> QED
  BY <1>1, <1>2, <1>3 DEF MergeInv

\* What the faults served have come to when a log is merged.
Reached(served, log, met, after) ==
  /\ \A s \in Sessions :
       /\ \A c \in served : SessionOf[c] = s => c \in CallsIn(after[s]) /\ after[s] # <<>>
       /\ \A c \in CallsIn(after[s]) : SessionOf[c] = s /\ c \in met
       /\ \A j, k \in DOMAIN after[s] : after[s][j] = after[s][k] => j = k
  /\ \A c \in served : \A w \in {NoHeader, OtherRun} : SessionOf[c] = w => Of(log, {w}) # <<>>

LEMMA ServedReached ==
  ASSUME NEW log \in Seq(Lines), NEW met, Sound(log, met),
         NEW before \in [Sessions -> {<<>>, <<LLM>>}], NEW after,
         \A s \in Sessions : after[s] = before[s] \o Of(log, {s}),
         NEW served \in SUBSET Calls,
         \A c \in served : \E k \in DOMAIN log : log[k].call = c
  PROVE  Reached(served, log, met, after)
<1>1. ASSUME NEW c \in served
      PROVE  \E n \in DOMAIN log : log[n].call = c /\ log[n].session = SessionOf[c]
  <2>1. PICK n \in DOMAIN log : log[n].call = c
    BY <1>1
  <2>2. c # "none"
    BY SessionAssumption
  <2> QED
    BY <2>1, <2>2 DEF Sound
<1>2. \A s \in Sessions : HasItsLines(after[s], log, s)
  BY Merged
<1>3. ASSUME NEW s \in Sessions, NEW c \in served, SessionOf[c] = s
      PROVE  c \in CallsIn(after[s]) /\ after[s] # <<>>
  <2>1. PICK n \in DOMAIN log : log[n].call = c /\ log[n].session = s
    BY <1>1, <1>3
  <2>2. PICK k \in DOMAIN after[s] : after[s][k] = log[n]
    BY <1>2, <2>1 DEF HasItsLines
  <2>3. c # "none" /\ after[s][k].call = c
    BY <2>1, <2>2, SessionAssumption
  <2>4. after[s] # <<>>
    BY <2>2
  <2> QED
    BY <2>3, <2>4 DEF CallsIn
<1>4. ASSUME NEW s \in Sessions, NEW c \in CallsIn(after[s])
      PROVE  SessionOf[c] = s /\ c \in met
  <2>1. PICK k \in DOMAIN after[s] : after[s][k].call = c /\ c # "none"
    BY <1>4 DEF CallsIn
  <2>2. after[s][k] # LLM
    BY <2>1 DEF LLM
  <2>3. PICK n \in DOMAIN log : after[s][k] = log[n] /\ log[n].session = s
    BY <1>2, <2>2 DEF HasItsLines
  <2>4. log[n].call = c
    BY <2>1, <2>3
  <2> QED
    BY <2>1, <2>3, <2>4 DEF Sound
<1>5. ASSUME NEW c \in served, NEW w \in {NoHeader, OtherRun}, SessionOf[c] = w
      PROVE  Of(log, {w}) # <<>>
  <2>1. PICK n \in DOMAIN log : log[n].session \in {w}
    BY <1>1, <1>5
  <2>2. Selects(Of(log, {w}), log, {w})
    BY OfSelects
  <2>3. PICK i \in DOMAIN Of(log, {w}) : Of(log, {w})[i] = log[n]
    BY <2>1, <2>2 DEF Selects
  <2> QED
    BY <2>3
<1>6. \A s \in Sessions : \A j, k \in DOMAIN after[s] : after[s][j] = after[s][k] => j = k
  BY <1>2 DEF HasItsLines
<1> QED
  BY <1>3, <1>4, <1>5, <1>6 DEF Reached

\* The log is merged into the sessions ...
LEMMA MergedInto ==
  ASSUME LogInv, MergeInv, ~merge.done, UNCHANGED <<owner, call>>, MergeInto(LogOfRun)
  PROVE  MergeInv'
<1>1. PICK log : log = LogOfRun
  OBVIOUS
<1>2. PICK met : met = Met
  OBVIOUS
<1>3. PICK before : before = session
  OBVIOUS
<1>4. PICK after : after = session'
  OBVIOUS
<1>5. PICK served : served = Served
  OBVIOUS
<1>6. /\ log \in Seq(Lines) /\ Sound(log, met)
      /\ before \in [Sessions -> {<<>>, <<LLM>>}]
      /\ \A c \in served : \E k \in DOMAIN log : log[k].call = c
  BY <1>1, <1>2, <1>3, <1>5 DEF LogInv, MergeInv
<1>7. served \in SUBSET Calls
  BY <1>5 DEF Served
<1>8. \A s \in Sessions : after[s] = before[s] \o Of(log, {s})
  BY <1>1, <1>3, <1>4 DEF MergeInto, FaultsWith
<1>9. Reached(served, log, met, after)
  BY <1>6, <1>7, <1>8, ServedReached
<1>10. Len(Of(log, Sessions)) = Cardinality(OnSessions(after))
  <2>1. ExtendedBy(after, before, log)
    BY <1>8 DEF ExtendedBy
  <2>2. log \in Seq(Lines) /\ Sound(log, met) /\ before \in [Sessions -> {<<>>, <<LLM>>}]
    BY <1>6
  <2> QED
    BY <2>1, <2>2, Attributed
<1>11. /\ merge'.due /\ merge'.done /\ merge'.served = served
       /\ merge'.said = {w \in Told : Of(log, {w}) # <<>>}
       /\ merge'.attributed = Len(Of(log, Sessions))
  BY <1>1, <1>5 DEF MergeInto
<1>12. \A c \in met : call'[c].fault # "none"
  BY <1>2 DEF Met
<1>13. Met' = met
  BY <1>2 DEF Met
<1>14. \A s \in Sessions : s \in Faulted' <=> after[s] # <<>>
  BY <1>4 DEF Faulted, Clean
<1>15. ServedFaultsReachTheirSession'
  <2>1. ASSUME NEW s \in Sessions
        PROVE  /\ {c \in merge'.served : SessionOf[c] = s} \subseteq CallsIn(session'[s])
               /\ \A c \in CallsIn(session'[s]) : SessionOf[c] = s /\ call'[c].fault # "none"
               /\ \A j, k \in DOMAIN session'[s] : session'[s][j] = session'[s][k] => j = k
               /\ {c \in merge'.served : SessionOf[c] = s} # {} => s \in Faulted'
    BY <1>4, <1>9, <1>11, <1>12, <1>14 DEF Reached
  <2>2. /\ Told \subseteq {NoHeader, OtherRun} /\ NoHeader \in Told
        /\ owner.mode = "command" => OtherRun \in Told
    BY DEF Told
  <2>2a. \A w \in Told :
          {c \in merge'.served : SessionOf[c] = w} # {} => w \in merge'.said
    BY <1>9, <1>11, <2>2 DEF Reached
  <2>3. merge'.attributed = Cardinality(OnSessions(session'))
    BY <1>4, <1>10, <1>11
  <2> QED
    BY <2>1, <2>2, <2>2a, <2>3 DEF ServedFaultsReachTheirSession, OnSessions
<1>16. \A s \in Sessions : CallsIn(session'[s]) \subseteq Met'
  BY <1>4, <1>9, <1>13 DEF Reached
<1> QED
  BY <1>11, <1>15, <1>16 DEF MergeInv

\* ... or there is none, and nothing was served.
LEMMA MergedNone ==
  ASSUME LogInv, MergeInv, ~merge.done, merge.due, UNCHANGED <<call, session>>, LogOfRun = <<>>,
         merge' = [merge EXCEPT !.done = TRUE, !.said = {"missing"}, !.served = Served]
  PROVE  MergeInv'
<1>1. session \in [Sessions -> {<<>>, <<LLM>>}]
  BY DEF MergeInv
<1>2. merge'.done /\ merge'.due /\ merge'.served = Served /\ merge'.attributed = 0
  BY DEF MergeInv, NotMerged
<1>3. Served = {}
  BY DEF LogInv
<1>4. ASSUME NEW s \in Sessions
      PROVE  /\ CallsIn(session[s]) = {} /\ {k \in DOMAIN session[s] : session[s][k] # LLM} = {}
             /\ \A j, k \in DOMAIN session[s] : j = k
  <2>1. session[s] = <<>> \/ session[s] = <<LLM>>
    BY <1>1
  <2>2. LLM.call = "none"
    BY DEF LLM
  <2> QED
    BY <2>1, <2>2 DEF CallsIn
<1>5. OnSessions(session') = {}
  BY <1>4 DEF OnSessions
<1>6. ServedFaultsReachTheirSession'
  <2>1. merge'.attributed = Cardinality(OnSessions(session'))
    BY <1>2, <1>5, FS_EmptySet
  <2>2. \A s \in Sessions : CallsIn(session'[s]) = {} /\ \A j, k \in DOMAIN session'[s] : j = k
    BY <1>4
  <2>3. merge'.served = {}
    BY <1>2, <1>3
  <2> QED
    BY <2>1, <2>2, <2>3 DEF ServedFaultsReachTheirSession, OnSessions
<1>7. \A s \in Sessions : CallsIn(session'[s]) \subseteq Met'
  BY <1>4
<1> QED
  BY <1>2, <1>6, <1>7 DEF MergeInv

LEMMA MergeKeeps ==
  ASSUME StopInv, LogInv, MergeInv, Merge
  PROVE  MergeInv'
<1>1. ~merge.done /\ merge.due /\ UNCHANGED <<owner, call>>
  BY DEF Merge
<1>2. CASE owner.mode = "demo"
  BY <1>1, <1>2, MergedInto DEF Merge, LogOfRun
<1>3. CASE owner.mode # "demo" /\ file # <<>>
  BY <1>1, <1>3, MergedInto DEF Merge, LogOfRun
<1>4. CASE owner.mode # "demo" /\ file = <<>>
  BY <1>1, <1>4, MergedNone DEF Merge, LogOfRun
<1> QED
  BY <1>2, <1>3, <1>4

\* The sessions end; nothing is merged yet.
LEMMA LoadEndsKeeps ==
  ASSUME MergeInv, LoadEnds
  PROVE  MergeInv'
<1>1. ~merge.due /\ ~merge.done /\ UNCHANGED session
  BY DEF LoadEnds, MergeInv
<1>2. merge' = [NotMerged EXCEPT !.due = TRUE]
  BY <1>1 DEF LoadEnds, MergeInv, NotMerged
<1>3. ~merge'.done
  BY <1>2 DEF NotMerged
<1> QED
  BY <1>1, <1>2, <1>3 DEF MergeInv, ServedFaultsReachTheirSession

\* chaos/proxy.py:67-114, cli.py:309-325: every fault the agent was
\* served before the merge is on the session it hit, once, and on no other; the
\* faults without a header are told of, and by `kneepoint run` another session's
\* too; and the count of those attributed is the count of those the sessions
\* have.
THEOREM FaultsReachSessions == Spec => []ServedFaultsReachTheirSession
<1>1. Spec => []StopInv
  BY AlwaysStopInv
<1>2. Init => LogInv /\ MergeInv
  <2> SUFFICES ASSUME Init PROVE LogInv /\ MergeInv
    OBVIOUS
  <2>1. PICK n \in 0..MaxStale : file = [k \in 1..n |-> Stale]
    BY DEF Init
  <2>2. n \in Nat /\ Stale \in Lines /\ Stale.call = "none" /\ Stale.session = OtherRun
    BY SessionAssumption DEF Stale, Lines, TOOL_FAULTS
  <2>3. file \in Seq(Lines) /\ \A k \in DOMAIN file : file[k] = Stale
    BY <2>1, <2>2
  <2>4. memory = <<>> /\ memory \in Seq(Lines)
    BY EmptySeq DEF Init
  <2>5. LogOfRun \in Seq(Lines) /\ \A k \in DOMAIN LogOfRun : LogOfRun[k] = Stale
    BY <2>3, <2>4 DEF LogOfRun
  <2>6. Sound(LogOfRun, Met)
    BY <2>2, <2>5 DEF Sound
  <2>7. Served = {}
    BY DEF Init, Served, Idle
  <2>8. ~merge.done /\ merge \in {NotMerged, [NotMerged EXCEPT !.due = TRUE]}
    BY DEF Init, NotMerged
  <2>9. session \in [Sessions -> {<<>>, <<LLM>>}]
    BY DEF Init
  <2> QED
    BY <2>5, <2>6, <2>7, <2>8, <2>9 DEF LogInv, MergeInv, ServedFaultsReachTheirSession
<1>3. StopInv /\ LogInv /\ MergeInv /\ [Next]_vars => LogInv' /\ MergeInv'
  <2> SUFFICES ASSUME StopInv, LogInv, MergeInv, [Next]_vars PROVE LogInv' /\ MergeInv'
    OBVIOUS
  <2>1. ASSUME NEW c \in Calls, Ask(c) \/ Handler(c) PROVE LogInv' /\ MergeInv'
    <3>1. LogInv'
      BY <2>1, LogGrows
    <3>2. UNCHANGED <<owner, session, merge>> /\ Met \subseteq Met'
      BY <2>1, HandlerLogs
    <3> QED
      BY <3>1, <3>2, MergeStays
  <2>2. CASE StartProxy \/ Stop \/ Exit \/ Kill \/ UNCHANGED vars
    <3>1. LogInv' /\ UNCHANGED call
      BY <2>2, OwnerLogs
    <3>2. UNCHANGED <<session, merge>> /\ owner'.mode = owner.mode
      BY <2>2 DEF StopInv, Owner, StartProxy, Stop, Exit, Kill, vars
    <3>3. Met \subseteq Met'
      BY <3>1 DEF Met
    <3> QED
      BY <3>1, <3>2, <3>3, MergeStays
  <2>3. CASE LoadEnds
    BY <2>3, OwnerLogs, LoadEndsKeeps
  <2>4. CASE Merge
    BY <2>4, OwnerLogs, MergeKeeps
  <2> QED
    BY <2>1, <2>2, <2>3, <2>4 DEF Next
<1>4. MergeInv => ServedFaultsReachTheirSession
  BY DEF MergeInv
<1> QED
  BY <1>1, <1>2, <1>3, <1>4, PTL DEF Spec
=============================================================================
