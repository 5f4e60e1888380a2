------------------------------- MODULE CliRun -------------------------------
(***************************************************************************)
(* kneepoint/cli.py: run, from its options to its exit code, the files it  *)
(* leaves (collect/writer.py) and what `kneepoint report` makes of them    *)
(* (report/rerender.py).                                                   *)
(*                                                                         *)
(* A run is named by the second it starts in.  Runs of different seconds    *)
(* share nothing, so the files are those of one second and Runs are the    *)
(* invocations made in it.  A run may be killed before any step and in the *)
(* middle of a write; every write may fail.  Load generation is what       *)
(* LoadGenerator shows of it: completed attempts, session summaries, one   *)
(* level's outcome.                                                        *)
(***************************************************************************)
EXTENDS Integers, Sequences, FiniteSets

CONSTANTS
  Runs,         \* invocations of kneepoint run within one second
  NoRun,        \* no invocation
  Options,      \* the options an invocation may be given
  MaxRecords,   \* bound on the completed attempts of a run
  MaxSessions,  \* bound on the sessions of a run
  MaxLines      \* no attempt completes once the request file has so many

ASSUME OptionsAssumption ==
  Options \subseteq [cap : Nat \cup {-1}, priced : BOOLEAN, rated : BOOLEAN,
                     judge : BOOLEAN, faultLog : BOOLEAN, old : BOOLEAN]

ASSUME BoundsAssumption == MaxRecords \in Nat /\ MaxSessions \in Nat /\ MaxLines \in Nat

ASSUME NoRunAssumption == NoRun \notin Runs

\* max_spend is None; a completed attempt of known usage costs 1.
NoCap == -1

VARIABLES
  run,   \* the locals of each invocation
  files  \* what lies on disk under their run id

vars == <<run, files>>

NoExit == -1

NoFile == [by |-> NoRun]
Torn == [by |-> NoRun, torn |-> TRUE]
Batch(p, n, final, torn) == [by |-> p, lines |-> n, final |-> final, torn |-> torn]

\* A line <<p, n>> of the request file is the record of the n-th attempt of a
\* run: requests are the records that are there from end to end, unended the
\* last line if its newline, and perhaps more of it, is missing, lost the
\* lines that share theirs with another and cannot be read.
NothingOnDisk ==
  [opened |-> FALSE, requests |-> {}, unended |-> {}, lost |-> {}, sessions |-> <<>>,
   tmp |-> NoFile, lifecycle |-> NoFile, meta |-> NoFile, report |-> NoFile]

\* Where an invocation can still be.
Ended == {"exited", "killed"}
Exists(f) == f # NoFile

Init ==
  /\ files = NothingOnDisk
  /\ run \in [Runs -> {[pc |-> "options", after |-> "generate", options |-> o, named |-> FALSE,
                        calibrated |-> FALSE, records |-> 0, charged |-> 0,
                        stop |-> o.cap = 0, done |-> 0, cut |-> 0, status |-> "running",
                        level |-> "none", final |-> FALSE, meta |-> NoFile,
                        exit |-> NoExit] : o \in Options}]

-----------------------------------------------------------------------------
(* Options, calibration, names *)

At(p, pc) == run[p].pc = pc
Set(p, r) == run' = [run EXCEPT ![p] = r]
Goto(p, pc) == Set(p, [run[p] EXCEPT !.pc = pc])
Store(f) == files' = f

\* An exception that leaves the command.
Raised(r) == [r EXCEPT !.pc = "exited", !.exit = 1]

UsageErrors == {"target", "cap", "range", "chaos"}
OtherErrors == {"scenario", "auth_env"}

\* A capped run needs both prices and no judge whose spend nobody counts.
CapAccepted(o) == o.cap # NoCap => o.priced /\ ~o.judge

RejectOptions(p) ==
  /\ At(p, "options")
  /\ \E problem \in UsageErrors \cup OtherErrors :
       Set(p, [run[p] EXCEPT !.pc = "exited",
                             !.exit = IF problem \in OtherErrors THEN 1 ELSE 2])
  /\ UNCHANGED files

Calibrates(o) == o.cap = NoCap /\ o.rated

NameRun(p) ==
  /\ At(p, "options")
  /\ IF CapAccepted(run[p].options)
     THEN Set(p, [run[p] EXCEPT !.pc = "open", !.named = TRUE,
                                !.calibrated = Calibrates(run[p].options)])
     ELSE Set(p, [run[p] EXCEPT !.pc = "exited", !.exit = 2])
  /\ UNCHANGED files

\* JsonlWriter opens the request file for appending.
OpenRequests(p) ==
  /\ At(p, "open")
  /\ \/ Store([files EXCEPT !.opened = TRUE]) /\ Goto(p, "save")
     \/ Set(p, Raised(run[p])) /\ UNCHANGED files

-----------------------------------------------------------------------------
(* save_lifecycle: written beside its place, then moved there *)

Snapshot(p) ==
  LET r == run[p] IN
  [by |-> p, status |-> r.status, completed |-> r.records, sessions |-> r.done + r.cut,
   level |-> r.level, stop |-> r.stop, charged |-> r.charged,
   calibrated |-> r.calibrated]

\* Whatever save_lifecycle raises, the command raises; in the exception
\* handler it is swallowed and the first exception goes on.
SaveFails(p) == Set(p, Raised(run[p]))

WriteTemporary(p) ==
  /\ At(p, "save")
  /\ \/ Store([files EXCEPT !.tmp = Snapshot(p)]) /\ Goto(p, "replace")
     \/ SaveFails(p) /\ UNCHANGED files

AfterSave(p) ==
  IF run[p].after = "raise" THEN Raised(run[p]) ELSE [run[p] EXCEPT !.pc = run[p].after]

ReplaceLifecycle(p) ==
  /\ At(p, "replace")
  /\ IF Exists(files.tmp)
     THEN /\ Store([files EXCEPT !.lifecycle = files.tmp, !.tmp = NoFile])
          /\ Set(p, AfterSave(p))
     ELSE SaveFails(p) /\ UNCHANGED files

-----------------------------------------------------------------------------
(* Load generation, with the CLI's observer of completed attempts *)

StartLevel(p) ==
  /\ At(p, "generate") /\ run[p].level = "none" /\ ~run[p].stop
  /\ Set(p, [run[p] EXCEPT !.level = "running"])
  /\ UNCHANGED files

Lines(f) == Cardinality(f.requests)

\* The record is in the evidence before the observer is called.
AttemptCompletes(p) ==
  /\ At(p, "generate") /\ run[p].level = "running" /\ run[p].records < MaxRecords
  /\ Lines(files) < MaxLines
  /\ Set(p, [run[p] EXCEPT !.records = @ + 1, !.pc = "write"])
  /\ UNCHANGED files

\* JsonlWriter.write_many writes the line and flushes it, at the end of
\* whatever the file holds: behind a line that was not ended, both are one.
\* Mutant: the line stays in the buffer, where a kill loses it.
LastLine(p) == <<p, run[p].records>>
Joined(f, p) == IF f.unended = {} THEN {} ELSE f.unended \cup {LastLine(p)}
Buffered(f, p) == f
Flushed(f, p) ==
  [f EXCEPT !.requests = @ \cup {LastLine(p)}, !.lost = @ \cup Joined(f, p), !.unended = {}]

\* A kill inside the write, or a full disk, leaves a piece of the line, the
\* record without its newline, or the line; what closing the file after a
\* failed write still gets out of the buffer is part of it.
Cut(f, p, record) ==
  [f EXCEPT !.requests = @ \cup (IF record THEN {LastLine(p)} ELSE {}),
            !.lost = @ \cup Joined(f, p), !.unended = {LastLine(p)}]
WritePart(p) ==
  /\ At(p, "write")
  /\ Store(Flushed(files, p)) \/ \E record \in BOOLEAN : Store(Cut(files, p, record))

WriteRecord(p) ==
  /\ At(p, "write")
  /\ Goto(p, "charge")
  /\ Store(Flushed(files, p))

\* ObservedSpendController: the cap is reached, or the usage is unknown.
Charge(p) ==
  /\ At(p, "charge")
  /\ \E usageKnown \in BOOLEAN :
       LET charged == run[p].charged + 1
           capped == run[p].options.cap # NoCap
       IN Set(p, [run[p] EXCEPT !.charged = charged, !.pc = "generate",
                    !.stop = @ \/ (capped /\ (usageKnown => charged >= run[p].options.cap))])
  /\ UNCHANGED files

\* The sessions the evidence holds at the end: completed ones, and those cut
\* short by a stop or a failure.
Sessions(p) ==
  {n \in (0..MaxSessions) \X (0..MaxSessions) :
     n[1] + n[2] <= MaxSessions /\ n[1] <= run[p].records}

\* run_ramp returns: completed, or stopped with sessions that were cut short.
GenerationEnds(p) ==
  /\ At(p, "generate")
  /\ \E n \in Sessions(p) :
       /\ IF run[p].stop THEN n[2] > 0 => run[p].level = "running"
          ELSE n[1] > 0 /\ n[2] = 0
       /\ LET outcome == IF run[p].stop THEN "stopped" ELSE "completed"
          IN Set(p, [run[p] EXCEPT !.status = outcome, !.done = n[1], !.cut = n[2],
                       !.pc = "save", !.after = "merge",
                       !.level = IF @ = "running" THEN outcome ELSE @])
  /\ UNCHANGED files

\* It raises, at an await or because the observer's write or its accounting
\* raised; a status the generator did not set is set by the handler, an
\* outcome of the level it did not set stays "running".
GenerationRaises(p) ==
  /\ run[p].pc \in {"generate", "write", "charge"}
  /\ \E n \in Sessions(p), level \in {run[p].level, "failed"} :
       /\ run[p].level = "none" => level = "none" /\ n[2] = 0
       /\ Set(p, [run[p] EXCEPT !.status = "failed", !.done = n[1], !.cut = n[2],
                                !.pc = "partial", !.after = "raise", !.level = level])
  /\ UNCHANGED files \/ WritePart(p)

-----------------------------------------------------------------------------
(* After load generation *)

\* Appending the session summaries; a full disk or a kill leaves some of
\* them, the last perhaps cut off inside its line.
Summaries(p) == run[p].done + run[p].cut
AppendSessions(p, n, torn) ==
  Store([files EXCEPT !.sessions = Append(@, Batch(p, n, run[p].final, torn))])
AppendPart(p) == \E n \in 0..(Summaries(p) - 1) : \E torn \in BOOLEAN : AppendSessions(p, n, torn)

SavePartialSessions(p) ==
  /\ At(p, "partial")
  /\ \/ AppendSessions(p, Summaries(p), FALSE) /\ Goto(p, "save")
     \/ AppendPart(p) /\ Set(p, Raised(run[p]))
     \/ UNCHANGED files /\ Set(p, Raised(run[p]))

\* Merging an unreadable fault log, a regular expression that does not
\* compile and a judge's answer without text raise.
MergeAndJudge(p) ==
  /\ At(p, "merge")
  /\ \/ Set(p, [run[p] EXCEPT !.final = TRUE, !.pc = "sessions"])
     \/ run[p].options.faultLog /\ Set(p, Raised(run[p]))
     \/ run[p].done > 0 /\ Set(p, Raised(run[p]))
  /\ UNCHANGED files

\* Mutant: the failure is swallowed, as it is for partial evidence.
SessionsIncomplete(p) == [run[p] EXCEPT !.pc = "meta"]
SessionsNotWritten(p) == Raised(run[p])

WriteSessions(p) ==
  /\ At(p, "sessions")
  /\ \/ AppendSessions(p, Summaries(p), FALSE) /\ Goto(p, "meta")
     \/ AppendPart(p) /\ Set(p, SessionsNotWritten(p))
     \/ UNCHANGED files /\ Set(p, SessionsNotWritten(p))

\* Runs of releases before level_status was recorded leave it out.
NotRecorded == "not recorded"
Metadata(p) ==
  [by |-> p, torn |-> FALSE, cap |-> run[p].options.cap,
   level |-> IF run[p].options.old THEN NotRecorded ELSE run[p].level]

WriteMeta(p) ==
  /\ At(p, "meta")
  /\ \/ Store([files EXCEPT !.meta = Metadata(p)]) /\ Goto(p, "readback")
     \/ Store([files EXCEPT !.meta = Torn]) /\ Set(p, Raised(run[p]))
     \/ UNCHANGED files /\ Set(p, Raised(run[p]))

ReadMeta(p) ==
  /\ At(p, "readback")
  /\ Set(p, IF files.meta = Torn THEN Raised(run[p])
            ELSE [run[p] EXCEPT !.meta = files.meta, !.pc = "report"])
  /\ UNCHANGED files

-----------------------------------------------------------------------------
(* The report, by the run itself and by kneepoint report *)

Unreadable(f) == f.lost # {} \/ ~(f.unended \subseteq f.requests)
NoReport(why) == [by |-> NoRun, refused |-> why]

\* What a report is computed from: requests, sessions and metadata.
ReportOf(meta, lines, known, sessions, level) ==
  [by |-> meta.by, requests |-> lines, known |-> known, sessions |-> sessions,
   level |-> level]

\* The run reports from memory, but for the metadata it has read back.
RunReport(p) ==
  ReportOf(run[p].meta, run[p].records, TRUE,
           <<Batch(p, Summaries(p), TRUE, FALSE)>>, run[p].level)

WriteReport(p) ==
  /\ At(p, "report")
  /\ \/ Store([files EXCEPT !.report = RunReport(p)]) /\ Goto(p, "slo")
     \/ UNCHANGED files /\ Set(p, Raised(run[p]))

\* Mutant: the gate on the SLO forgets the spend control.
ExitCodeOfSlo(p, passing) == IF passing THEN 0 ELSE 1
ExitCode(p, passing) == IF run[p].stop THEN 3 ELSE IF passing THEN 0 ELSE 1

EvaluateSlo(p) ==
  /\ At(p, "slo")
  /\ \E passing \in BOOLEAN :
       Set(p, [run[p] EXCEPT !.pc = "exited", !.exit = ExitCode(p, passing)])
  /\ UNCHANGED files

\* _is_saved_zero_cap_run: the lifecycle file is of the run the metadata is
\* of, and says that it was stopped by its cap before anything was sent.
IsSavedZeroCapRun(f) ==
  /\ f.meta # NoFile /\ f.meta.cap = 0
  /\ f.lifecycle # NoFile /\ f.lifecycle.by = f.meta.by
  /\ f.lifecycle.status = "stopped" /\ f.lifecycle.stop
  /\ f.lifecycle.completed = 0 /\ f.lifecycle.sessions = 0 /\ f.lifecycle.charged = 0
  /\ ~f.lifecycle.calibrated

\* Mutant: an empty sessions file is evidence enough.
EmptySessionsSuffice(f) ==
  f.sessions # <<>> /\ \A k \in DOMAIN f.sessions : f.sessions[k].lines = 0
AcceptsEmpty(f) ==
  /\ f.sessions # <<>> /\ \A k \in DOMAIN f.sessions : f.sessions[k].lines = 0
  /\ IsSavedZeroCapRun(f)

\* The lifecycle file is asked only where the metadata does not say.
\* Mutant: a level nobody has a status of is taken for completed.
LevelAssumedCompleted(f) ==
  IF f.meta # NoFile /\ f.meta.level # NotRecorded THEN f.meta.level ELSE "completed"
LevelStatus(f) ==
  IF f.meta # NoFile /\ f.meta.level # NotRecorded THEN f.meta.level
  ELSE IF Exists(f.lifecycle) THEN f.lifecycle.level
  ELSE "none"

Refused(f) ==
  IF ~f.opened THEN "no records file"
  ELSE IF Unreadable(f) THEN "unreadable records"
  ELSE IF \E k \in DOMAIN f.sessions : f.sessions[k].torn THEN "unreadable sessions"
  ELSE IF f.meta = Torn THEN "unreadable metadata"
  ELSE IF Lines(f) = 0 /\ ~AcceptsEmpty(f) THEN "empty records file"
  ELSE "no"

RenderFromFiles(f) ==
  IF Refused(f) # "no" THEN NoReport(Refused(f))
  ELSE ReportOf(f.meta, Lines(f), f.sessions # <<>>, f.sessions, LevelStatus(f))

Named == {p \in Runs : run[p].named}

\* kneepoint report on the files of runs that are over.
Rerender ==
  /\ \A p \in Named : run[p].pc \in Ended
  /\ Refused(files) = "no"
  /\ Store([files EXCEPT !.report = RenderFromFiles(files)])
  /\ UNCHANGED run

-----------------------------------------------------------------------------
(* Kills *)

Kill(p) ==
  /\ run[p].pc \notin Ended
  /\ Goto(p, "killed")
  /\ \/ UNCHANGED files
     \/ WritePart(p)
     \/ run[p].pc \in {"partial", "sessions"} /\ AppendPart(p)
     \/ At(p, "meta") /\ Store([files EXCEPT !.meta = Torn])

Step(p) ==
  \/ RejectOptions(p) \/ NameRun(p) \/ OpenRequests(p)
  \/ WriteTemporary(p) \/ ReplaceLifecycle(p)
  \/ StartLevel(p) \/ AttemptCompletes(p) \/ WriteRecord(p) \/ Charge(p)
  \/ GenerationEnds(p) \/ GenerationRaises(p)
  \/ SavePartialSessions(p) \/ MergeAndJudge(p) \/ WriteSessions(p)
  \/ WriteMeta(p) \/ ReadMeta(p) \/ WriteReport(p) \/ EvaluateSlo(p)

Next ==
  \/ \E p \in Runs : Step(p) \/ Kill(p)
  \/ Rerender

Spec == Init /\ [][Next]_vars

-----------------------------------------------------------------------------
(* Properties *)

Alone(p) == Named = {p}

\* The last write of a run was cut off, and what it left spoilt a line.
Interrupted(q) ==
  /\ LastLine(q) \in files.lost /\ run[q].charged < run[q].records
  /\ run[q].pc = "killed" \/ run[q].status = "failed"

\* The record of an attempt is in the request file, and its line is lost only
\* to another run of the second, one that broke off inside a line.
OnDisk(p, n) ==
  /\ <<p, n>> \in files.requests
  /\ <<p, n>> \in files.lost => \E q \in Runs \ {p} : Interrupted(q)

\* No attempt is accounted for whose record is not on disk, whenever the run
\* is killed and whichever write fails: cli.py flushes the record before the
\* controller may ask to stop.
AccountedIsOnDisk ==
  \A p \in Runs : \A n \in 1..run[p].charged : OnDisk(p, n)

\* Metadata on disk means everything it stands for is on disk, so the report
\* that is rendered again is the report of the run, whether that run wrote
\* it, failed to write it or was killed before.
RerenderIsTheReport ==
  \A p \in Runs :
    (Alone(p) /\ files.meta # NoFile /\ files.meta # Torn) =>
      RenderFromFiles(files) = [RunReport(p) EXCEPT !.by = p]

\* A report made from what a failed or killed run left says nothing better of
\* the level than the generator did, and never passes for a complete one.
PartialRunsReportedAsSuch ==
  \A p \in Runs : (Alone(p) /\ run[p].pc \in Ended /\ Refused(files) = "no") =>
    LET report == RenderFromFiles(files) IN
    /\ report.level = "completed" => run[p].level = "completed"
    /\ report.by = p => run[p].status # "failed" /\ run[p].final
    /\ report.requests < run[p].records => report.level # "completed"

\* A report without requests is of a run whose zero cap let nothing out, not
\* even a calibration; and such a run can always be reported again.
EmptyReportIsZeroCap ==
  /\ (Refused(files) = "no" /\ Lines(files) = 0) =>
       \E p \in Named : /\ files.meta.by = p /\ run[p].options.cap = 0
                        /\ run[p].records = 0 /\ ~run[p].calibrated
  /\ \A p \in Runs : (Alone(p) /\ run[p].options.cap = 0 /\ run[p].exit \in {0, 3}) =>
       Refused(files) = "no"

\* Exit code 0 promises the whole run on disk (but for a line another run of
\* the second has spoilt), not stopped by its cap; 3 says that the cap stopped
\* it and the partial results are there; a rejected command line has left no
\* file.
ExitCodeHonest ==
  \A p \in Runs :
    /\ (run[p].exit \in {0, 3}) =>
         /\ run[p].exit = 3 <=> run[p].stop
         /\ \A n \in 1..run[p].records : OnDisk(p, n)
         /\ Exists(files.report) /\ Exists(files.lifecycle)
         /\ \E k \in DOMAIN files.sessions :
              files.sessions[k] = Batch(p, Summaries(p), TRUE, FALSE)
    /\ run[p].exit = 2 => ~run[p].named
=============================================================================
