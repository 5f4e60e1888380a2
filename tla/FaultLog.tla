------------------------------ MODULE FaultLog ------------------------------
(***************************************************************************)
(* kneepoint/chaos/proxy.py: the tool-fault proxy in the agent's way to    *)
(* its tools, the log of the faults it served and their merging into a     *)
(* run's sessions; the two programs that own a proxy, `kneepoint proxy`    *)
(* (cli.py, a process of its own that may be killed; the run merges the    *)
(* file) and `kneepoint demo` (demo/run.py, which merges the log in        *)
(* memory); and the groups analyze/resilience.py then compares.            *)
(***************************************************************************)
EXTENDS Integers, Sequences, FiniteSets

CONSTANTS
  Calls,       \* tool calls of the agent
  Sessions,    \* sessions of the run that merges
  OtherRun,    \* the session of another run, whose faults the file may hold
  NoHeader,    \* x-kneepoint-session was not echoed
  SessionOf,   \* the header of each call
  MaxStale     \* bound on lines an earlier run left in the file

ASSUME SessionAssumption ==
  /\ SessionOf \in [Calls -> Sessions \cup {OtherRun, NoHeader}]
  /\ OtherRun \notin Sessions /\ NoHeader \notin Sessions /\ OtherRun # NoHeader
  /\ "none" \notin Calls /\ MaxStale \in Nat

TOOL_FAULTS == {"tool_timeout", "tool_malformed_json"}
LLM == [fault |-> "llm_rate_limit", call |-> "none"]

VARIABLES
  owner,    \* [mode, phase, env, agent]: the program that started the proxy
  proxy,    \* "new", "up", "stopping", "down" or "killed"
  released, \* stop_event
  call,     \* the handler of each call
  memory,   \* FaultLog.counts, by_session and unattributed, in order
  file,     \* the lines of the fault log
  session,  \* the faults of each session
  merge     \* the FaultMerge of the run

vars == <<owner, proxy, released, call, memory, file, session, merge>>

Entry(c, fault) == [fault |-> fault, session |-> SessionOf[c], call |-> c]
Stale == [fault |-> "tool_timeout", session |-> OtherRun, call |-> "none"]
NotMerged == [due |-> FALSE, done |-> FALSE, said |-> {}, attributed |-> 0, unattributed |-> 0,
              unmatched |-> 0, served |-> {}]
Idle == [at |-> "none", fault |-> "none", answer |-> "none", cancelled |-> FALSE]
Handled == {"none", "done"}
Alive == {"up", "stopping"}

Init ==
  /\ \E mode \in {"command", "demo"} :
       owner = [mode |-> mode, phase |-> "start", env |-> "own",
                agent |-> IF mode = "demo" THEN "up" ELSE "elsewhere"]
  /\ proxy = "new" /\ released = FALSE
  /\ call = [c \in Calls |-> Idle]
  /\ memory = <<>>
  /\ \E n \in 0..MaxStale : file = [k \in 1..n |-> Stale]
  /\ session \in [Sessions -> {<<>>, <<LLM>>}]
  /\ merge = NotMerged

-----------------------------------------------------------------------------
(* The proxy's owner *)

\* start_proxy: the server is up, or it is not within ten seconds; the demo
\* points the agent's tools at it for as long as it runs.
StartProxy ==
  /\ owner.phase = "start"
  /\ \/ /\ proxy' = "up"
        /\ owner' = [owner EXCEPT !.phase = "serving",
                       !.env = IF owner.mode = "demo" THEN "proxy" ELSE @]
     \/ proxy' = "down" /\ owner' = [owner EXCEPT !.phase = "failed"]
  /\ UNCHANGED <<released, call, memory, file, session, merge>>

\* ProxyHandle.stop releases the holds before it asks the server to exit.
\* Mutant: the server is asked to exit, the holds are left to it.
HoldsLeftToServer == FALSE
HoldsReleased == TRUE

\* Ctrl-C in `kneepoint proxy`; the end of the demo, or an exception in it.
Stop ==
  /\ owner.phase = "serving"
  /\ owner' = [owner EXCEPT !.phase = "stopping", !.env = "own"]
  /\ released' = HoldsReleased
  /\ proxy' = "stopping"
  /\ UNCHANGED <<call, memory, file, session, merge>>

\* The server leaves once its handlers are done; join returns, and the demo
\* goes on to stop its agent.  join gives up after five seconds, more than the
\* two of the graceful shutdown: a thread that stalls longer is left out.
Exit ==
  /\ proxy = "stopping" /\ \A c \in Calls : call[c].at \in Handled
  /\ proxy' = "down"
  /\ owner' = [owner EXCEPT !.phase = "over",
                 !.agent = IF @ = "up" THEN "down" ELSE @]
  /\ UNCHANGED <<released, call, memory, file, session, merge>>

\* A process of its own may be killed, its handlers with it.
Kill ==
  /\ owner.mode = "command" /\ proxy \in Alive
  /\ proxy' = "killed" /\ owner' = [owner EXCEPT !.phase = "over"]
  /\ UNCHANGED <<released, call, memory, file, session, merge>>

-----------------------------------------------------------------------------
(* The handler of one call *)

Handle(c, r) == call' = [call EXCEPT ![c] = r]
Answered(c, answer) == [call[c] EXCEPT !.at = "done", !.answer = answer]

\* The agent calls a tool, during a session's turn or after kneepoint gave
\* up on it; its own timeout is not told to the handler.  A server that is
\* leaving takes no more calls.
Ask(c) ==
  /\ proxy = "up" /\ call[c].at = "none"
  /\ Handle(c, [call[c] EXCEPT !.at = "asked"])
  /\ UNCHANGED <<owner, proxy, released, memory, file, session, merge>>

\* ChaosInjector.pick: no fault, and the call is forwarded.
Forward(c) ==
  /\ proxy \in Alive /\ call[c].at = "asked"
  /\ Handle(c, [call[c] EXCEPT !.at = "forward"])
  /\ UNCHANGED <<owner, proxy, released, memory, file, session, merge>>

\* FaultLog.record, in memory and then, for `kneepoint proxy`, in the file.
\* Mutant: only the faults that can be attributed are logged.
RecordedIfNamed(c, fault, log) ==
  IF SessionOf[c] = NoHeader THEN log ELSE Append(log, Entry(c, fault))
Recorded(c, fault, log) == Append(log, Entry(c, fault))

\* ... or a fault, recorded before anything is done about it.  When its line
\* cannot be written the server answers 500: that fault was not served.
PickFault(c) ==
  /\ proxy \in Alive /\ call[c].at = "asked"
  /\ \E fault \in TOOL_FAULTS :
       LET r == [call[c] EXCEPT !.fault = fault] IN
       /\ memory' = Recorded(c, fault, memory)
       /\ \/ /\ file' = IF owner.mode = "demo" THEN file ELSE Recorded(c, fault, file)
             /\ Handle(c, IF fault = "tool_timeout" THEN [r EXCEPT !.at = "held"]
                          ELSE [r EXCEPT !.at = "done", !.answer = "garbage"])
          \/ /\ owner.mode = "command" /\ UNCHANGED file
             /\ Handle(c, [r EXCEPT !.at = "done", !.answer = "500"])
  /\ UNCHANGED <<owner, proxy, released, session, merge>>

\* Mutant: the hold waits for the stop event alone.
HoldUnbounded(c) == released
HoldOver(c) == TRUE  \* by the timer or by the stop event

HoldEnds(c) ==
  /\ proxy \in Alive /\ call[c].at = "held" /\ HoldOver(c)
  /\ Handle(c, Answered(c, "504"))
  /\ UNCHANGED <<owner, proxy, released, memory, file, session, merge>>

\* The body is in and the upstream has answered, or the request to it raises
\* and the server says 500.  Neither need ever happen: the 30 seconds are
\* httpx's, for each operation, and receive() has no timeout.
UpstreamAnswers(c) ==
  /\ proxy \in Alive /\ call[c].at = "forward"
  /\ \E answer \in {"upstream", "500"} : Handle(c, Answered(c, answer))
  /\ UNCHANGED <<owner, proxy, released, memory, file, session, merge>>

\* timeout_graceful_shutdown: two seconds in which a released handler, or one
\* that need not wait, has long gone on.
Cancel(c) ==
  /\ proxy = "stopping"
  /\ call[c].at = "forward" \/ (call[c].at = "held" /\ ~released)
  /\ Handle(c, [call[c] EXCEPT !.at = "done", !.cancelled = TRUE])
  /\ UNCHANGED <<owner, proxy, released, memory, file, session, merge>>

-----------------------------------------------------------------------------
(* The run that merges *)

\* run_ramp returns: every session is over.
LoadEnds ==
  /\ ~merge.due /\ owner.phase # "start"
  /\ merge' = [merge EXCEPT !.due = TRUE]
  /\ UNCHANGED <<owner, proxy, released, call, memory, file, session>>

\* FaultLog.by_session, and extending a session's own faults by its part.
Of(log, sessions) ==
  LET of[n \in 0..Len(log)] ==
        IF n = 0 THEN <<>>
        ELSE IF log[n].session \in sessions THEN Append(of[n - 1], log[n]) ELSE of[n - 1]
  IN of[Len(log)]
FaultsWith(s, log) == session[s] \o Of(log, {s})

\* What the agent has been told of before the merge, for the properties.
Served == {c \in Calls : call[c].at \in {"held", "done"} /\ call[c].answer # "500"
                           /\ call[c].fault # "none"}

\* `kneepoint run` tells of both kinds of faults it could not attribute, the
\* demo of those without a header only.
Told == IF owner.mode = "demo" THEN {NoHeader} ELSE {NoHeader, OtherRun}

MergeInto(log) ==
  /\ session' = [s \in Sessions |-> FaultsWith(s, log)]
  /\ merge' = [due |-> TRUE, done |-> TRUE,
               said |-> {w \in Told : Of(log, {w}) # <<>>},
               attributed |-> Len(Of(log, Sessions)),
               unattributed |-> Len(Of(log, {NoHeader})),
               unmatched |-> Len(Of(log, {OtherRun})), served |-> Served]

\* After its last session the run merges what there is: the file, of which it
\* says if it is missing, or the memory of its own proxy.
Merge ==
  /\ merge.due /\ ~merge.done
  /\ IF owner.mode = "demo" THEN owner.phase = "serving" /\ MergeInto(memory)
     ELSE IF file = <<>>
     THEN /\ merge' = [merge EXCEPT !.done = TRUE, !.said = {"missing"},
                                        !.served = Served]
          /\ UNCHANGED session
     ELSE MergeInto(file)
  /\ UNCHANGED <<owner, proxy, released, call, memory, file>>

\* resilience: what is compared with what.
Clean == {s \in Sessions : session[s] = <<>>}
Faulted == Sessions \ Clean

Handler(c) ==
  \/ Forward(c) \/ PickFault(c) \/ HoldEnds(c) \/ UpstreamAnswers(c) \/ Cancel(c)

Next ==
  \/ StartProxy \/ Stop \/ Exit \/ Kill \/ LoadEnds \/ Merge
  \/ \E c \in Calls : Ask(c) \/ Handler(c)

Spec == Init /\ [][Next]_vars

\* The event loop serves the handlers and the timers of a hold and of the
\* graceful shutdown; nothing makes a client or an upstream go on.
FairSpec ==
  /\ Spec /\ WF_vars(Exit)
  /\ \A c \in Calls : /\ WF_vars(Forward(c) \/ PickFault(c))
                      /\ WF_vars(HoldEnds(c)) /\ WF_vars(Cancel(c))

-----------------------------------------------------------------------------
(* Properties *)

CallsIn(faults) == {faults[k].call : k \in DOMAIN faults} \ {"none"}

\* Whatever fault the agent has met before the merge is on the session it
\* hit, once; no session carries a fault of other calls, whatever else the log
\* holds; and a fault that cannot be attributed is told of, but for the other
\* sessions' of which the demo says nothing.  So no session that met a fault is
\* taken for a clean one.
ServedFaultsReachTheirSession ==
  merge.done => LET Mine(s) == {c \in merge.served : SessionOf[c] = s} IN
    /\ \A s \in Sessions :
         /\ Mine(s) \subseteq CallsIn(session[s])
         /\ \A c \in CallsIn(session[s]) : SessionOf[c] = s /\ call[c].fault # "none"
         /\ \A j, k \in DOMAIN session[s] :
              session[s][j] = session[s][k] => j = k
         /\ Mine(s) # {} => s \in Faulted
    /\ Mine(NoHeader) # {} => NoHeader \in merge.said
    /\ Mine(OtherRun) # {} /\ owner.mode = "command" => OtherRun \in merge.said
    /\ merge.attributed = Cardinality(
         UNION {{s} \X {k \in DOMAIN session[s] : session[s][k] # LLM} : s \in Sessions})

\* stop() comes before the graceful shutdown finds anything to cancel in a
\* hold ("graceful shutdown has nothing to cancel"), and when the owner is
\* through, no handler is left, the agent is down and the environment is the
\* caller's, unless the proxy never came up.
StopLeavesNothing ==
  /\ \A c \in Calls : call[c].cancelled => call[c].fault = "none"
  /\ owner.phase = "over" /\ proxy # "killed" =>
       /\ \A c \in Calls : call[c].at \in Handled
       /\ owner.env = "own" /\ owner.agent # "up" /\ proxy = "down"

\* A hold ends by itself, whether or not the proxy is ever stopped, and a
\* stopping proxy ends every call it still has, one whose client or upstream
\* has fallen silent included: stop() never waits for anyone else.
HoldsAndStopsEnd ==
  \A c \in Calls :
    /\ call[c].at = "held" ~> (call[c].at = "done" \/ proxy = "killed")
    /\ (proxy = "stopping" /\ call[c].at \notin Handled)
         ~> (call[c].at = "done" /\ proxy \in {"down", "killed"}) \/ proxy = "killed"
=============================================================================
