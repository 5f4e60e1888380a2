------------------------------ MODULE RunTurn ------------------------------
(***************************************************************************)
(* kneepoint/targets/openai_compatible.py: run_turn, one streamed request  *)
(* under asyncio.timeout(wall), with the fault injection of                *)
(* kneepoint/chaos/transport.py below it and the retry rule of             *)
(* generator/session.py applied to what it returns.                        *)
(*                                                                         *)
(* The awaits of a call are its phases.  The wall covers all of them, the  *)
(* closing of the response included, and so does a cancellation of the     *)
(* worker that awaits the call.                                            *)
(***************************************************************************)
EXTENDS Integers

CONSTANTS
  Statuses,   \* the HTTP statuses the server may send
  MaxChunks,  \* bound on content chunks per stream
  NoOutcome,  \* run_turn has not returned
  Raised      \* run_turn raised CancelledError

ASSUME StatusAssumption == Statuses \subseteq 100..599
ASSUME ChunkAssumption == MaxChunks \in Nat
RETRYABLE_STATUS == {429, 500, 502, 503}

\* A server's Retry-After is missing, a number of seconds or an HTTP date.
RetryAfter == {"absent", "seconds", "date"}
ServerResponses == [status : Statuses, fault : {"none"}, retryAfter : RetryAfter]

\* What the chaos transport answers without touching the network.
InjectedResponses ==
  {[status |-> 429, fault |-> "llm_rate_limit", retryAfter |-> "seconds"],
   [status |-> 503, fault |-> "llm_server_error", retryAfter |-> "absent"]}

\* status_code is None.
NoStatus == 0
NoResponse == [status |-> NoStatus, fault |-> "none", retryAfter |-> "absent"]
Responses == ServerResponses \cup InjectedResponses

\* chunk_count is None.
NotCounted == -1

\* The usage of the last chunk that carried one: both counts, or one of them.
Usage == {"none", "full", "partial"}

VARIABLES
  phase,    \* where the call waits
  sent,     \* what really happened: connection, response, chunks, usage, end
  seen,     \* the locals: status_code, fault, ttft_ms, pieces, gaps_ms, tokens
  leaving,  \* why the body of the async with is being left
  cancelled, \* the worker that awaits the call has been cancelled
  outcome

vars == <<phase, sent, seen, leaving, cancelled, outcome>>

BeforeResponse == {"connect", "send", "wait"}
Phases == BeforeResponse \cup {"stream", "close", "done"}
Reasons == {"completed", "http", "wall", "gap", "failed", "cancelled"}

RecordStatuses == Statuses \cup {NoStatus, 429, 503}
Faults == {"none", "llm_rate_limit", "llm_server_error"}

Record == [ok : BOOLEAN, status : RecordStatuses, fault : Faults,
           ttft : BOOLEAN, usage : Usage, chunks : {NotCounted} \cup 0..MaxChunks,
           itl : BOOLEAN, abandoned : BOOLEAN, retryAfter : {"absent", "seconds"},
           error : Reasons]

ASSUME OutcomeAssumption == NoOutcome # Raised /\ {NoOutcome, Raised} \cap Record = {}

Exchange == [connected : BOOLEAN, response : Responses \cup {NoResponse},
             chunks : 0..MaxChunks, usage : Usage, ended : BOOLEAN]

Locals == [status : RecordStatuses, fault : Faults, ttft : BOOLEAN,
           chunks : 0..MaxChunks, gaps : 0..MaxChunks, usage : Usage]

TypeOK ==
  /\ phase \in Phases
  /\ sent \in Exchange
  /\ seen \in Locals
  /\ leaving \in {"nothing"} \cup Reasons
  /\ cancelled \in BOOLEAN
  /\ outcome \in {NoOutcome, Raised} \cup Record

Init ==
  /\ phase = "connect"
  /\ sent = [connected |-> FALSE, response |-> NoResponse,
             chunks |-> 0, usage |-> "none", ended |-> FALSE]
  /\ seen = [status |-> NoStatus, fault |-> "none", ttft |-> FALSE,
             chunks |-> 0, gaps |-> 0, usage |-> "none"]
  /\ leaving = "nothing"
  /\ cancelled = FALSE
  /\ outcome = NoOutcome
-----------------------------------------------------------------------------
(* What run_turn makes of the way its body was left.                       *)

\* Mutant: every timeout is called an abandonment.
AbandonsAtAnyTimeout(why) == why \in {"gap", "wall"}

\* The wall counts as abandonment once a status arrived, a gap timeout always.
Abandons(why) == why = "gap" \/ (why = "wall" /\ seen.status # NoStatus)

\* Mutant: the wall loses the answer that had arrived.
KeepsStatusUnlessWall(why) == why \in {"completed", "http"}

\* The handlers that put the status and the fault into the record.
KeepsStatus(why) == why \in {"completed", "http", "wall"}

RecordOf(why) ==
  [ok |-> why = "completed",
   status |-> IF KeepsStatus(why) THEN seen.status ELSE NoStatus,
   fault |-> IF KeepsStatus(why) THEN seen.fault ELSE "none",
   ttft |-> seen.ttft,
   usage |-> IF why = "completed" THEN seen.usage ELSE "none",
   chunks |-> IF why = "completed" THEN seen.chunks ELSE NotCounted,
   itl |-> why = "completed" /\ seen.gaps > 0,
   abandoned |-> Abandons(why),
   retryAfter |-> IF why = "http" THEN sent.response.retryAfter ELSE "absent",
   error |-> why]

Result(why) == IF why = "cancelled" THEN Raised ELSE RecordOf(why)

\* Without a response there is nothing to close.
Leave(why) ==
  /\ leaving' = why
  /\ IF phase \in BeforeResponse
       THEN phase' = "done" /\ outcome' = Result(why)
       ELSE phase' = "close" /\ UNCHANGED outcome
  /\ UNCHANGED <<sent, seen>>
-----------------------------------------------------------------------------
(* The exchange.                                                           *)

Connected ==
  /\ phase = "connect"
  /\ phase' = "send"
  /\ sent' = [sent EXCEPT !.connected = TRUE]
  /\ UNCHANGED <<seen, leaving, cancelled, outcome>>

RequestSent ==
  /\ phase = "send"
  /\ phase' = "wait"
  /\ UNCHANGED <<sent, seen, leaving, cancelled, outcome>>

\* Mutant: Retry-After goes into the outcome as it came.
PassesAdviceUnparsed(response) == "http"

\* float() of an HTTP date raises where the outcome of an HTTP error is built.
HttpError(response) == IF response.retryAfter = "date" THEN "failed" ELSE "http"

Receive(response) ==
  /\ sent' = [sent EXCEPT !.response = response]
  /\ seen' = [seen EXCEPT !.status = response.status, !.fault = response.fault]

ServerAnswers(response) ==
  /\ phase = "wait"
  /\ Receive(response)
  /\ \/ response.status < 400 /\ phase' = "stream" /\ UNCHANGED leaving
     \/ response.status >= 400 /\ phase' = "close" /\ leaving' = HttpError(response)
  /\ UNCHANGED <<cancelled, outcome>>

\* Asked before any connection is; nothing of it waits, closing it included.
FaultInjected(response) ==
  /\ phase = "connect"
  /\ Receive(response)
  /\ leaving' = HttpError(response)
  /\ phase' = "done"
  /\ outcome' = RecordOf(HttpError(response))'
  /\ UNCHANGED cancelled

\* Mutant: the first chunk is given a gap too.
FirstChunkOpensGap ==
  [seen EXCEPT !.ttft = TRUE, !.chunks = @ + 1, !.gaps = IF @ < MaxChunks THEN @ + 1 ELSE @]

\* The first content chunk sets ttft_ms, every other one closes a gap.
ContentSeen ==
  [seen EXCEPT !.ttft = TRUE,
               !.chunks = @ + 1,
               !.gaps = IF seen.ttft THEN @ + 1 ELSE @]

\* A data line with content, usage or both.  Lines without either change
\* nothing, however long the server keeps sending them.
ChunkArrives(content, usage) ==
  /\ phase = "stream"
  /\ content => sent.chunks < MaxChunks
  /\ LET read == IF content THEN ContentSeen ELSE seen
     IN seen' = [read EXCEPT !.usage = IF usage = "none" THEN @ ELSE usage]
  /\ sent' = [sent EXCEPT !.chunks = IF content THEN @ + 1 ELSE @,
                          !.usage = IF usage = "none" THEN @ ELSE usage]
  /\ UNCHANGED <<phase, leaving, cancelled, outcome>>

\* [DONE], or the body ends.
StreamEnds ==
  /\ phase = "stream"
  /\ sent' = [sent EXCEPT !.ended = TRUE]
  /\ leaving' = "completed"
  /\ phase' = "close"
  /\ UNCHANGED <<seen, cancelled, outcome>>

\* Refused or lost connections, connect and pool timeouts, a broken stream, a
\* line that is not the JSON expected.
Fails ==
  /\ phase \in BeforeResponse \cup {"stream"}
  /\ Leave("failed")
  /\ UNCHANGED cancelled

\* httpx.WriteTimeout while sending, httpx.ReadTimeout while waiting.
GapTimeout ==
  /\ phase \in {"send", "wait", "stream"}
  /\ Leave("gap")
  /\ UNCHANGED cancelled

\* Mutant: the wall covers client.send only.
WallCoversConnecting == BeforeResponse

\* The cancellation by the wall is delivered at the await the call is at; in
\* aclose it replaces whatever was on its way out.
WallCovers == BeforeResponse \cup {"stream", "close"}

\* Mutant: any cancellation is taken for the wall's.
WallConvertsAnything == leaving # "wall"

\* asyncio.timeout converts its own cancellation only, and expires once.
WallConverts == ~cancelled /\ leaving # "wall"

WallExpires ==
  /\ phase \in WallCovers
  /\ WallConverts
  /\ Leave("wall")
  /\ UNCHANGED cancelled

\* The worker is cancelled.
Cancel ==
  /\ phase # "done"
  /\ ~cancelled
  /\ Leave("cancelled")
  /\ cancelled' = TRUE

CloseResponse ==
  /\ phase = "close"
  /\ phase' = "done"
  /\ outcome' = Result(leaving)
  /\ UNCHANGED <<sent, seen, leaving, cancelled>>

Next ==
  \/ Connected \/ RequestSent
  \/ \E response \in ServerResponses : ServerAnswers(response)
  \/ \E response \in InjectedResponses : FaultInjected(response)
  \/ \E content \in BOOLEAN, usage \in Usage : ChunkArrives(content, usage)
  \/ StreamEnds \/ Fails \/ GapTimeout \/ WallExpires \/ Cancel \/ CloseResponse

Spec == Init /\ [][Next]_vars

\* The timer fires and a response can be closed; the server owes nothing.
FairSpec == Spec /\ WF_vars(WallExpires) /\ WF_vars(CloseResponse)
-----------------------------------------------------------------------------
(* session.py _retryable, which decides about another attempt.             *)

Retryable(record) ==
  ~record.ok /\ (record.status = NoStatus \/ record.status \in RETRYABLE_STATUS)
-----------------------------------------------------------------------------
(* Correctness.                                                            *)

Returned == outcome \notin {NoOutcome, Raised}
Responded == sent.response # NoResponse

\* docs/output-format.md:95-108: ok exactly if the status was below 400, the
\* stream ran to its end and nothing overrode it; then the record holds the last
\* usage and every content chunk the server sent, and gaps from two chunks on;
\* otherwise it holds none of these.  The TTFT it always holds.  The status and
\* the fault are those that arrived (none, if nothing did), whatever cut the
\* call short after them, but a gap timeout or another failure loses both.
RecordTellsTheStream ==
  Returned =>
    /\ outcome.ok <=> /\ Responded /\ sent.response.status < 400
                      /\ sent.ended /\ outcome.error # "wall"
    /\ outcome.ok => /\ outcome.usage = sent.usage
                     /\ outcome.chunks = sent.chunks
                     /\ outcome.itl <=> sent.chunks >= 2
    /\ ~outcome.ok => /\ outcome.usage = "none"
                      /\ outcome.chunks = NotCounted
                      /\ ~outcome.itl
    /\ outcome.ttft <=> sent.chunks > 0
    /\ LET told == IF outcome.error \in {"gap", "failed"} THEN NoResponse ELSE sent.response
       IN outcome.status = told.status /\ outcome.fault = told.fault

\* docs/measurement-integrity.md:105-118: only a request that reached the
\* server is recorded as abandoned, and only if this client gave it up; by the
\* wall exactly if a status had arrived, then whatever else was on its way out.
AbandonedMeansGaveUp ==
  Returned =>
    /\ outcome.abandoned => sent.connected /\ outcome.error \in {"wall", "gap"}
    /\ outcome.error = "wall" => (outcome.abandoned <=> Responded)

\* session.py:46-50, docs/chaos.md: an error status and an injected fault
\* survive whatever happens after them, so the retry decision is about the
\* answer given; the exception is a Retry-After that is not a number.
ErrorAnswersKept ==
  Returned /\ sent.response.status >= 400 /\ sent.response.retryAfter # "date" =>
    /\ outcome.status = sent.response.status
    /\ outcome.fault = sent.response.fault
    /\ Retryable(outcome) <=> sent.response.status \in RETRYABLE_STATUS

\* "Never raises": whatever the server and the timers do, only a cancellation
\* of the worker gets out, and the wall never swallows one.
OnlyCancellationRaises ==
  phase = "done" => (outcome = Raised <=> cancelled)

\* The wall ends a call that the server never ends.
TurnEnds == <>(phase = "done")

\* docs/measurement-integrity.md:179: "A timeout is retryable, so the session
\* runner retries an abandoned turn".
AbandonedIsRetried == Returned /\ outcome.abandoned => Retryable(outcome)
=============================================================================
