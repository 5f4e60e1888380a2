---------------------------- MODULE CliRunProofs ----------------------------
(***************************************************************************)
(* For any number of runs within one second, any options and any number of *)
(* attempts and sessions, with kills and failed writes anywhere: what was  *)
(* accounted for is on disk (AccountedIsOnDisk), the exit code keeps its   *)
(* promise (ExitCodeHonest), and what kneepoint report makes of the files  *)
(* is the report of the run (RerenderIsTheReport), never better than it    *)
(* (PartialRunsReportedAsSuch) nor empty without a zero cap                *)
(* (EmptyReportIsZeroCap).                                                 *)
(*                                                                         *)
(* CliInv says what a run's files hold behind each place of the command,   *)
(* whoever else writes them; Numbered that no attempt has two lines;       *)
(* CliTold what metadata stand for, and all that is on disk of a run that  *)
(* is alone; CliFile which attempts have a line, which writes broke off    *)
(* inside one, and what these have spoilt.  Numbered and CliTold are       *)
(* proved of each step as Advances, CliFile as Accounts.                   *)
(***************************************************************************)
EXTENDS CliRun, FiniteSetTheorems, TLAPS

Places ==
  {"options", "open", "save", "replace", "generate", "write", "charge", "partial", "merge",
   "sessions", "meta", "readback", "report", "slo", "exited", "killed"}
Afters == {"generate", "merge", "raise"}
Statuses == {"running", "completed", "stopped", "failed"}
Levels == {"none", "running", "completed", "stopped", "failed"}
Metas ==
  {NoFile, Torn} \cup [by : Runs, torn : BOOLEAN, cap : Nat \cup {-1},
                       level : Levels \cup {NotRecorded}]
Batches == [by : Runs, lines : Nat, final : BOOLEAN, torn : BOOLEAN]

Locals ==
  [pc : Places, after : Afters, options : Options, named : BOOLEAN, calibrated : BOOLEAN,
   records : Nat, charged : Nat, stop : BOOLEAN, done : Nat, cut : Nat, status : Statuses,
   level : Levels, final : BOOLEAN, meta : Metas, exit : Int]

RequestFiles == {lines \in SUBSET (Runs \X Nat) : IsFiniteSet(lines)}

\* The other files hold whatever they do.
FilesOf(tmp, lifecycle, report) ==
  [opened : BOOLEAN, requests : RequestFiles, unended : SUBSET (Runs \X Nat),
   lost : SUBSET (Runs \X Nat), sessions : Seq(Batches),
   tmp : tmp, lifecycle : lifecycle, meta : Metas, report : report]
IsFiles(f) == \E tmp, lifecycle, report : f \in FilesOf(tmp, lifecycle, report)

\* Where everything that was generated is on disk.
Generated == {"merge", "sessions", "meta", "readback", "report", "slo"}
Delivered(p, r, f) ==
  \E k \in DOMAIN f.sessions : f.sessions[k] = Batch(p, r.done + r.cut, TRUE, FALSE)

\* How far the files are behind the locals of run p, for each place it can be.
LinesOf(f, p) == {line \in f.requests : line[1] = p}
Written(f, p) == Cardinality(LinesOf(f, p))

RequestsOK(p, r, f) ==
  /\ r.charged <= Written(f, p)
  /\ r.pc = "charge" => r.charged < Written(f, p)
  /\ r.pc = "write" => Written(f, p) = r.records - 1
  /\ r.pc \in {"options", "open", "generate", "charge"} \cup Generated =>
       Written(f, p) = r.records
  /\ r.pc \in {"save", "replace"} /\ r.after # "raise" => Written(f, p) = r.records

PlaceOK(p, r, f) ==
  /\ r.pc \in {"generate", "write", "charge"} \cup Generated => Exists(f.lifecycle)
  /\ r.pc \in Generated \ {"merge"} => r.final
  /\ r.pc \in {"meta", "readback", "report", "slo"} => Delivered(p, r, f)
  /\ r.pc = "slo" => Exists(f.report)
  /\ r.pc = "options" => ~r.named
  /\ r.pc = "partial" => r.after = "raise"
  /\ r.pc # "exited" => r.exit = NoExit

ExitOK(p, r, f) ==
  /\ r.exit \in {0, 3} =>
       /\ r.exit = 3 <=> r.stop
       /\ Written(f, p) = r.records
       /\ Exists(f.report) /\ Exists(f.lifecycle)
       /\ Delivered(p, r, f)
  /\ r.exit = 2 => ~r.named

Good(p, r, f) == RequestsOK(p, r, f) /\ PlaceOK(p, r, f) /\ ExitOK(p, r, f)

CliInv ==
  /\ IsFiles(files) /\ run \in [Runs -> Locals]
  /\ \A p \in Runs : Good(p, run[p], files)

\* The lines of a run are numbered up to the attempt it is about to write.
Numbers(r) == IF r.pc = "write" THEN r.records - 1 ELSE r.records
Numbered == \A p \in Runs : \A n \in Nat : <<p, n>> \in files.requests => n <= Numbers(run[p])

-----------------------------------------------------------------------------
(* What other runs, and the report command, do to the files of a run *)

Keeps(p, f, g) ==
  /\ LinesOf(g, p) = LinesOf(f, p)
  /\ \A k \in DOMAIN f.sessions : k \in DOMAIN g.sessions /\ g.sessions[k] = f.sessions[k]
  /\ Exists(f.lifecycle) => Exists(g.lifecycle)
  /\ Exists(f.report) => Exists(g.report)

LEMMA GoodIsKept ==
  ASSUME NEW p, NEW r, NEW f, NEW g, Good(p, r, f), Keeps(p, f, g)
  PROVE  Good(p, r, g)
<1>1. Delivered(p, r, f) => Delivered(p, r, g)
  BY DEF Keeps, Delivered
<1>2. Written(g, p) = Written(f, p)
  BY DEF Keeps, Written, LinesOf
<1> QED
  BY <1>1, <1>2 DEF Good, Keeps, RequestsOK, PlaceOK, ExitOK

\* A step of one run: its own locals, and files that keep what others have.
LEMMA OneMoves ==
  ASSUME CliInv, NEW p \in Runs, NEW r \in Locals, run' = [run EXCEPT ![p] = r],
         IsFiles(files'), Good(p, r, files'),
         \A q \in Runs \ {p} : Keeps(q, files, files')
  PROVE  CliInv'
<1>1. run' \in [Runs -> Locals] /\ run'[p] = r
  BY DEF CliInv
<1>2. ASSUME NEW q \in Runs PROVE Good(q, run'[q], files')
  <2>1. CASE q = p
    BY <1>1, <2>1
  <2>2. CASE q # p
    <3>1. run'[q] = run[q] /\ Good(q, run[q], files)
      BY <2>2 DEF CliInv
    <3>2. Keeps(q, files, files')
      BY <2>2
    <3> QED
      BY <3>1, <3>2, GoodIsKept
  <2> QED
    BY <2>1, <2>2
<1> QED
  BY <1>1, <1>2 DEF CliInv

LEMMA WrittenTyped ==
  ASSUME NEW f, IsFiles(f), NEW p
  PROVE  Written(f, p) \in Nat
<1>1. IsFiniteSet(LinesOf(f, p))
  BY FS_Subset DEF IsFiles, FilesOf, RequestFiles, LinesOf
<1> QED
  BY <1>1, FS_CardinalityType DEF Written, LinesOf

\* The same where the files stay as they are.
LEMMA OneMovesAlone ==
  ASSUME CliInv, NEW p \in Runs, NEW r \in Locals, run' = [run EXCEPT ![p] = r],
         Good(p, r, files), UNCHANGED files
  PROVE  CliInv'
<1>1. \A q \in Runs : Keeps(q, files, files)
  BY DEF Keeps
<1>2. IsFiles(files)
  BY DEF CliInv
<1> QED
  BY <1>1, <1>2, OneMoves

\* The assignments the steps make keep the locals typed.
LEMMA PlaceTyped ==
  ASSUME NEW s \in Locals, NEW pc \in Places
  PROVE  [s EXCEPT !.pc = pc] \in Locals
BY Zenon DEF Locals

LEMMA ExitTyped ==
  ASSUME NEW s \in Locals, NEW pc \in Places, NEW exit \in Int
  PROVE  [s EXCEPT !.pc = pc, !.exit = exit] \in Locals
BY Zenon DEF Locals

LEMMA NameTyped ==
  ASSUME NEW s \in Locals, NEW pc \in Places, NEW named \in BOOLEAN, NEW calibrated \in BOOLEAN
  PROVE  [s EXCEPT !.pc = pc, !.named = named, !.calibrated = calibrated] \in Locals
BY Zenon DEF Locals

LEMMA LevelTyped ==
  ASSUME NEW s \in Locals, NEW level \in Levels
  PROVE  [s EXCEPT !.level = level] \in Locals
BY Zenon DEF Locals

LEMMA RecordTyped ==
  ASSUME NEW s \in Locals, NEW records \in Nat, NEW pc \in Places
  PROVE  [s EXCEPT !.records = records, !.pc = pc] \in Locals
BY Zenon DEF Locals

LEMMA ChargeTyped ==
  ASSUME NEW s \in Locals, NEW charged \in Nat, NEW pc \in Places, NEW stop \in BOOLEAN
  PROVE  [s EXCEPT !.charged = charged, !.pc = pc, !.stop = stop] \in Locals
BY Zenon DEF Locals

LEMMA OutcomeTyped ==
  ASSUME NEW s \in Locals, NEW status \in Statuses, NEW done \in Nat, NEW cut \in Nat,
         NEW pc \in Places, NEW after \in Afters, NEW level \in Levels
  PROVE  [s EXCEPT !.status = status, !.done = done, !.cut = cut, !.pc = pc,
                   !.after = after, !.level = level] \in Locals
BY Zenon DEF Locals

LEMMA FinalTyped ==
  ASSUME NEW s \in Locals, NEW final \in BOOLEAN, NEW pc \in Places
  PROVE  [s EXCEPT !.final = final, !.pc = pc] \in Locals
BY Zenon DEF Locals

LEMMA MetaTyped ==
  ASSUME NEW s \in Locals, NEW meta \in Metas, NEW pc \in Places
  PROVE  [s EXCEPT !.meta = meta, !.pc = pc] \in Locals
BY Zenon DEF Locals

\* An exception takes a run to its end, whatever it was doing.
LEMMA RaisedIsGood ==
  ASSUME NEW p, NEW f, NEW s \in Locals, Good(p, s, f), s.pc \notin Ended
  PROVE  Raised(s) \in Locals /\ Good(p, Raised(s), f)
<1> DEFINE r == Raised(s)
<1>0. "exited" \in Places
  BY DEF Places
<1>a. 1 \in Int
  OBVIOUS
<1>1. r \in Locals
  BY <1>0, <1>a, ExitTyped, Zenon DEF Raised
<1>2. /\ r.pc = "exited" /\ r.exit = 1
      /\ r.charged = s.charged /\ r.records = s.records
  BY DEF Locals, Raised
<1> HIDE DEF r
<1>3. s.charged <= Written(f, p)
  BY DEF Good, RequestsOK, PlaceOK
<1>4. RequestsOK(p, r, f)
  BY <1>2, <1>3 DEF RequestsOK, Generated
<1>5. PlaceOK(p, r, f) /\ ExitOK(p, r, f)
  BY <1>2, <1>3 DEF PlaceOK, ExitOK, Generated
<1> QED
  BY <1>1, <1>4, <1>5 DEF Good, r

LEMMA Raises ==
  ASSUME CliInv, NEW p \in Runs, run[p].pc \notin Ended,
         Set(p, Raised(run[p])), UNCHANGED files
  PROVE  CliInv'
<1>1. run[p] \in Locals /\ Good(p, run[p], files)
  BY DEF CliInv
<1>2. Raised(run[p]) \in Locals /\ Good(p, Raised(run[p]), files)
  BY <1>1, RaisedIsGood
<1> QED
  BY <1>2, OneMovesAlone DEF Set

-----------------------------------------------------------------------------
(* Steps that leave the files alone *)

LEMMA RejectKeeps ==
  ASSUME CliInv, NEW p \in Runs, RejectOptions(p)
  PROVE  CliInv'
<1>1. /\ run[p] \in Locals /\ Good(p, run[p], files) /\ run[p].pc = "options"
      /\ UNCHANGED files
  BY DEF CliInv, RejectOptions, At
<1>2. PICK exit \in {1, 2} :
        run' = [run EXCEPT ![p] = [run[p] EXCEPT !.pc = "exited", !.exit = exit]]
  BY DEF RejectOptions, Set
<1> DEFINE r == [run[p] EXCEPT !.pc = "exited", !.exit = exit]
<1>0. "exited" \in Places
  BY DEF Places
<1>a. exit \in Int
  OBVIOUS
<1>3. r \in Locals
  BY <1>0, <1>a, <1>1, ExitTyped, Zenon
<1>4. /\ r.pc = "exited" /\ r.exit = exit
      /\ r.charged = run[p].charged /\ r.named = run[p].named
  BY <1>1 DEF Locals
<1> HIDE DEF r
<1>5. run[p].charged <= Written(files, p) /\ ~run[p].named
  BY <1>1 DEF Good, RequestsOK, PlaceOK
<1>6. Good(p, r, files)
  BY <1>2, <1>4, <1>5 DEF Good, RequestsOK, PlaceOK, ExitOK, Generated
<1> QED
  BY <1>1, <1>2, <1>3, <1>6, OneMovesAlone DEF r

LEMMA NameKeeps ==
  ASSUME CliInv, NEW p \in Runs, NameRun(p)
  PROVE  CliInv'
<1>1. /\ run[p] \in Locals /\ Good(p, run[p], files) /\ run[p].pc = "options"
      /\ UNCHANGED files
  BY DEF CliInv, NameRun, At
<1>2. /\ run[p].charged <= Written(files, p) /\ ~run[p].named
      /\ Written(files, p) = run[p].records /\ run[p].exit = NoExit
  BY <1>1 DEF Good, RequestsOK, PlaceOK
<1>3. CASE CapAccepted(run[p].options)
  <2> DEFINE calibrated == Calibrates(run[p].options)
             r == [run[p] EXCEPT !.pc = "open", !.named = TRUE, !.calibrated = calibrated]
  <2>1. run' = [run EXCEPT ![p] = r]
    BY <1>3 DEF NameRun, Set
  <2>2. run[p].options \in Options
    BY <1>1 DEF Locals
  <2>3. calibrated \in BOOLEAN
    BY <2>2, OptionsAssumption DEF Calibrates
  <2> HIDE DEF calibrated
  <2>0. "open" \in Places /\ TRUE \in BOOLEAN
    BY DEF Places
  <2>4. r \in Locals
    BY <1>1, <2>0, <2>3, NameTyped, Zenon
  <2>5. /\ r.pc = "open" /\ r.exit = run[p].exit
        /\ r.charged = run[p].charged /\ r.records = run[p].records
    BY <1>1 DEF Locals
  <2> HIDE DEF r
  <2>6. Good(p, r, files)
    BY <1>2, <2>5 DEF Good, RequestsOK, PlaceOK, ExitOK, Generated, NoExit
  <2> QED
    BY <1>1, <2>1, <2>4, <2>6, OneMovesAlone
<1>4. CASE ~CapAccepted(run[p].options)
  <2> DEFINE r == [run[p] EXCEPT !.pc = "exited", !.exit = 2]
  <2>1. run' = [run EXCEPT ![p] = r]
    BY <1>4 DEF NameRun, Set
  <2>0. "exited" \in Places
    BY DEF Places
  <2>a. 2 \in Int
    OBVIOUS
  <2>2. r \in Locals
    BY <1>1, <2>0, <2>a, ExitTyped, Zenon
  <2>3. /\ r.pc = "exited" /\ r.exit = 2
        /\ r.charged = run[p].charged /\ r.named = run[p].named
    BY <1>1 DEF Locals
  <2> HIDE DEF r
  <2>4. Good(p, r, files)
    BY <1>2, <2>3 DEF Good, RequestsOK, PlaceOK, ExitOK, Generated
  <2> QED
    BY <1>1, <2>1, <2>2, <2>4, OneMovesAlone
<1> QED
  BY <1>3, <1>4

LEMMA StartKeeps ==
  ASSUME CliInv, NEW p \in Runs, StartLevel(p)
  PROVE  CliInv'
<1>1. /\ run[p] \in Locals /\ Good(p, run[p], files) /\ run[p].pc = "generate"
      /\ UNCHANGED files
  BY DEF CliInv, StartLevel, At
<1> DEFINE r == [run[p] EXCEPT !.level = "running"]
<1>2. run' = [run EXCEPT ![p] = r]
  BY DEF StartLevel, Set
<1>3. "running" \in Levels
  BY DEF Levels
<1>4. r \in Locals
  BY <1>1, <1>3, LevelTyped, Zenon
<1>5. /\ r.pc = "generate" /\ r.exit = run[p].exit
      /\ r.charged = run[p].charged /\ r.records = run[p].records
  BY <1>1 DEF Locals
<1> HIDE DEF r
<1>6. Good(p, r, files)
  BY <1>1, <1>5 DEF Good, RequestsOK, PlaceOK, ExitOK, Generated, NoExit
<1> QED
  BY <1>1, <1>2, <1>4, <1>6, OneMovesAlone

\* The record is one ahead of the file until it is written.
LEMMA AttemptKeeps ==
  ASSUME CliInv, NEW p \in Runs, AttemptCompletes(p)
  PROVE  CliInv'
<1>1. /\ run[p] \in Locals /\ Good(p, run[p], files) /\ run[p].pc = "generate"
      /\ UNCHANGED files
  BY DEF CliInv, AttemptCompletes, At
<1> DEFINE r == [run[p] EXCEPT !.records = @ + 1, !.pc = "write"]
<1>2. run' = [run EXCEPT ![p] = r]
  BY DEF AttemptCompletes, Set
<1>a. run[p].records \in Nat
  BY <1>1 DEF Locals
<1>b. run[p].records + 1 \in Nat
  BY <1>a
<1>3. "write" \in Places
  BY DEF Places
<1>4. r \in Locals
  BY <1>1, <1>b, <1>3, RecordTyped, Zenon
<1>5. /\ r.pc = "write" /\ r.exit = run[p].exit
      /\ r.charged = run[p].charged /\ r.records = run[p].records + 1
  BY <1>1 DEF Locals
<1> HIDE DEF r
<1>6. Good(p, r, files)
  BY <1>1, <1>a, <1>5 DEF Good, RequestsOK, PlaceOK, ExitOK, Generated, NoExit
<1> QED
  BY <1>1, <1>2, <1>4, <1>6, OneMovesAlone

LEMMA GenerationEndKeeps ==
  ASSUME CliInv, NEW p \in Runs, GenerationEnds(p)
  PROVE  CliInv'
<1>1. /\ run[p] \in Locals /\ Good(p, run[p], files) /\ run[p].pc = "generate"
      /\ UNCHANGED files
  BY DEF CliInv, GenerationEnds, At
<1>2. run[p].level \in Levels
  BY <1>1 DEF Locals
<1>3. PICK n \in Sessions(p), outcome \in {"stopped", "completed"}, level \in Levels :
        run' = [run EXCEPT ![p] = [run[p] EXCEPT
                  !.status = outcome, !.done = n[1], !.cut = n[2], !.pc = "save",
                  !.after = "merge", !.level = level]]
  BY <1>2 DEF GenerationEnds, Set, Levels
<1>4. n[1] \in Nat /\ n[2] \in Nat
  BY BoundsAssumption DEF Sessions
<1>5. "save" \in Places /\ "merge" \in Afters /\ outcome \in Statuses
  BY DEF Places, Afters, Statuses
<1> DEFINE r == [run[p] EXCEPT !.status = outcome, !.done = n[1], !.cut = n[2],
                               !.pc = "save", !.after = "merge", !.level = level]
<1>6. r \in Locals
  BY <1>1, <1>4, <1>5, OutcomeTyped, Zenon
<1>7. /\ r.pc = "save" /\ r.exit = run[p].exit
      /\ r.charged = run[p].charged /\ r.records = run[p].records
  BY <1>1 DEF Locals
<1>8. run' = [run EXCEPT ![p] = r]
  BY <1>3
<1> HIDE DEF r
<1>9. Good(p, r, files)
  BY <1>1, <1>7 DEF Good, RequestsOK, PlaceOK, ExitOK, Generated, NoExit
<1> QED
  BY <1>1, <1>6, <1>8, <1>9, OneMovesAlone

\* Only what has been written is accounted for.
LEMMA ChargeKeeps ==
  ASSUME CliInv, NEW p \in Runs, Charge(p)
  PROVE  CliInv'
<1>1. /\ run[p] \in Locals /\ Good(p, run[p], files) /\ run[p].pc = "charge"
      /\ UNCHANGED files
  BY DEF CliInv, Charge, At
<1>0. PICK tmp, lifecycle, report : files \in FilesOf(tmp, lifecycle, report)
  BY DEF CliInv, IsFiles
<1>2. run[p].stop \in BOOLEAN /\ run[p].charged \in Nat /\ Written(files, p) \in Nat
  BY <1>0, <1>1, WrittenTyped DEF Locals, CliInv
<1>3. PICK known \in BOOLEAN :
        run' = [run EXCEPT ![p] = [run[p] EXCEPT
          !.charged = run[p].charged + 1, !.pc = "generate",
          !.stop = @ \/ (run[p].options.cap # NoCap
                         /\ (known => run[p].charged + 1 >= run[p].options.cap))]]
  BY DEF Charge, Set
<1> DEFINE stop == run[p].stop \/ (run[p].options.cap # NoCap
                     /\ (known => run[p].charged + 1 >= run[p].options.cap))
           charged == run[p].charged + 1
           r == [run[p] EXCEPT !.charged = charged, !.pc = "generate", !.stop = stop]
<1>4. run' = [run EXCEPT ![p] = r]
  BY <1>3
<1>5. stop \in BOOLEAN /\ charged \in Nat
  BY <1>2
<1>6. "generate" \in Places
  BY DEF Places
<1> HIDE DEF stop
<1>7. r \in Locals
  BY <1>1, <1>5, <1>6, ChargeTyped, Zenon
<1>8. /\ r.pc = "generate" /\ r.exit = run[p].exit
      /\ r.charged = run[p].charged + 1 /\ r.records = run[p].records
  BY <1>1 DEF Locals
<1> HIDE DEF r
<1>9. Good(p, r, files)
  BY <1>1, <1>2, <1>8 DEF Good, RequestsOK, PlaceOK, ExitOK, Generated, NoExit
<1> QED
  BY <1>1, <1>4, <1>7, <1>9, OneMovesAlone

-----------------------------------------------------------------------------
(* Writes *)

\* What Good reads of the files.
Same(f, g) ==
  /\ g.requests = f.requests /\ g.sessions = f.sessions
  /\ g.lifecycle = f.lifecycle /\ g.report = f.report

LEMMA SameIsKept ==
  ASSUME NEW f, NEW g, Same(f, g), NEW p
  PROVE  Keeps(p, f, g)
BY DEF Same, Keeps, LinesOf

LEMMA OpenStored ==
  ASSUME NEW f, IsFiles(f)
  PROVE  LET g == [f EXCEPT !.opened = TRUE] IN IsFiles(g) /\ Same(f, g)
<1> DEFINE g == [f EXCEPT !.opened = TRUE]
<1>1. PICK tmp, lifecycle, report : f \in FilesOf(tmp, lifecycle, report)
  BY DEF IsFiles
<1>2. g \in FilesOf(tmp, lifecycle, report) /\ Same(f, g)
  BY <1>1 DEF FilesOf, Same
<1> QED
  BY <1>2 DEF IsFiles

LEMMA TemporaryStored ==
  ASSUME NEW f, IsFiles(f), NEW x
  PROVE  LET g == [f EXCEPT !.tmp = x] IN IsFiles(g) /\ Same(f, g)
<1> DEFINE g == [f EXCEPT !.tmp = x]
<1>1. PICK tmp, lifecycle, report : f \in FilesOf(tmp, lifecycle, report)
  BY DEF IsFiles
<1>2. g \in FilesOf({x}, lifecycle, report)
  BY <1>1, Zenon DEF FilesOf
<1>3. Same(f, g)
  BY <1>1 DEF FilesOf, Same
<1> QED
  BY <1>2, <1>3 DEF IsFiles

Moved(f, x, y) == [f EXCEPT !.lifecycle = x, !.tmp = y]

LEMMA LifecycleStored ==
  ASSUME NEW f, IsFiles(f), NEW x, NEW y
  PROVE  /\ IsFiles(Moved(f, x, y))
         /\ Moved(f, x, y).requests = f.requests
         /\ Moved(f, x, y).sessions = f.sessions
         /\ Moved(f, x, y).lifecycle = x /\ Moved(f, x, y).report = f.report
<1> DEFINE g == Moved(f, x, y)
<1>1. PICK tmp, lifecycle, report : f \in FilesOf(tmp, lifecycle, report)
  BY DEF IsFiles
<1>2. g \in FilesOf({y}, {x}, report)
  BY <1>1, Zenon DEF FilesOf, Moved
<1>3. /\ g.requests = f.requests /\ g.sessions = f.sessions
      /\ g.lifecycle = x /\ g.report = f.report
  BY <1>1 DEF FilesOf, Moved
<1> QED
  BY <1>2, <1>3 DEF IsFiles

LEMMA ReportStored ==
  ASSUME NEW f, IsFiles(f), NEW x
  PROVE  LET g == [f EXCEPT !.report = x]
         IN  /\ IsFiles(g)
             /\ g.requests = f.requests /\ g.sessions = f.sessions
             /\ g.lifecycle = f.lifecycle /\ g.report = x
<1> DEFINE g == [f EXCEPT !.report = x]
<1>1. PICK tmp, lifecycle, report : f \in FilesOf(tmp, lifecycle, report)
  BY DEF IsFiles
<1>2. g \in FilesOf(tmp, lifecycle, {x})
  BY <1>1, Zenon DEF FilesOf
<1>3. /\ g.requests = f.requests /\ g.sessions = f.sessions
      /\ g.lifecycle = f.lifecycle /\ g.report = x
  BY <1>1 DEF FilesOf
<1> QED
  BY <1>2, <1>3 DEF IsFiles

LEMMA MetaStored ==
  ASSUME NEW f, IsFiles(f), NEW m \in Metas
  PROVE  LET g == [f EXCEPT !.meta = m] IN IsFiles(g) /\ Same(f, g)
<1> DEFINE g == [f EXCEPT !.meta = m]
<1>1. PICK tmp, lifecycle, report : f \in FilesOf(tmp, lifecycle, report)
  BY DEF IsFiles
<1>2. g \in FilesOf(tmp, lifecycle, report)
  BY <1>1, Zenon DEF FilesOf
<1>3. Same(f, g)
  BY <1>1 DEF FilesOf, Same
<1> QED
  BY <1>2, <1>3 DEF IsFiles

\* A line, whole or cut off, behind whatever the request file holds.
Marked(f, x, y, z) == [f EXCEPT !.requests = x, !.lost = y, !.unended = z]

LEMMA MarkedOnly ==
  ASSUME NEW f, IsFiles(f), NEW x \in RequestFiles,
         NEW y \in SUBSET (Runs \X Nat), NEW z \in SUBSET (Runs \X Nat)
  PROVE  LET g == Marked(f, x, y, z)
         IN  /\ IsFiles(g)
             /\ g.requests = x /\ g.lost = y /\ g.unended = z
             /\ g.opened = f.opened /\ g.sessions = f.sessions /\ g.tmp = f.tmp
             /\ g.lifecycle = f.lifecycle /\ g.meta = f.meta /\ g.report = f.report
<1> DEFINE g == Marked(f, x, y, z)
<1>1. PICK tmp, lifecycle, report : f \in FilesOf(tmp, lifecycle, report)
  BY DEF IsFiles
<1>2. g \in FilesOf(tmp, lifecycle, report)
  BY <1>1, Zenon DEF FilesOf, Marked
<1>3. /\ g.requests = x /\ g.lost = y /\ g.unended = z
      /\ g.opened = f.opened /\ g.sessions = f.sessions /\ g.tmp = f.tmp
      /\ g.lifecycle = f.lifecycle /\ g.meta = f.meta /\ g.report = f.report
  BY <1>1 DEF FilesOf, Marked
<1> QED
  BY <1>2, <1>3 DEF IsFiles

\* What a write of run p does to the request file, however far it gets.
Wrote(p) ==
  /\ IsFiles(files')
  /\ files'.lost = files.lost \cup Joined(files, p)
  /\ \/ files'.unended = {} /\ LastLine(p) \in files'.requests
     \/ files'.unended = {LastLine(p)}
  /\ files'.requests \in {files.requests, files.requests \cup {LastLine(p)}}
  /\ files'.opened = files.opened /\ files'.sessions = files.sessions
  /\ files'.tmp = files.tmp /\ files'.lifecycle = files.lifecycle
  /\ files'.meta = files.meta /\ files'.report = files.report

LEMMA LinesTyped ==
  ASSUME CliInv, NEW p \in Runs
  PROVE  /\ IsFiles(files) /\ run[p].records \in Nat /\ LastLine(p) \in Runs \X Nat
         /\ files.requests \in RequestFiles
         /\ files.requests \cup {LastLine(p)} \in RequestFiles
         /\ files.lost \cup Joined(files, p) \in SUBSET (Runs \X Nat)
         /\ {LastLine(p)} \in SUBSET (Runs \X Nat)
<1>1. IsFiles(files) /\ run[p].records \in Nat
  BY DEF CliInv, Locals
<1>2. LastLine(p) \in Runs \X Nat
  BY <1>1 DEF LastLine
<1>3. /\ files.requests \in RequestFiles /\ files.lost \in SUBSET (Runs \X Nat)
      /\ files.unended \in SUBSET (Runs \X Nat)
  BY <1>1 DEF IsFiles, FilesOf
<1>4. files.requests \cup {LastLine(p)} \in RequestFiles
  <2>1. IsFiniteSet(files.requests \cup {LastLine(p)})
    BY <1>3, FS_AddElement DEF RequestFiles
  <2> QED
    BY <1>2, <1>3, <2>1 DEF RequestFiles
<1>5. files.lost \cup Joined(files, p) \in SUBSET (Runs \X Nat)
  BY <1>2, <1>3 DEF Joined
<1> QED
  BY <1>1, <1>2, <1>3, <1>4, <1>5

LEMMA FlushedWrote ==
  ASSUME CliInv, NEW p \in Runs, Store(Flushed(files, p))
  PROVE  Wrote(p) /\ files'.unended = {} /\ files'.requests = files.requests \cup {LastLine(p)}
<1> DEFINE x == files.requests \cup {LastLine(p)}
           y == files.lost \cup Joined(files, p)
<1>1. x \in RequestFiles /\ y \in SUBSET (Runs \X Nat) /\ {} \in SUBSET (Runs \X Nat)
      /\ IsFiles(files) /\ LastLine(p) \in x
  BY LinesTyped
<1>2. files' = Marked(files, x, y, {})
  BY DEF Store, Flushed, Marked
<1> DEFINE g == Marked(files, x, y, {})
<1> HIDE DEF x, y
<1>3. /\ IsFiles(g)
      /\ g.requests = x /\ g.lost = y /\ g.unended = {}
      /\ g.opened = files.opened /\ g.sessions = files.sessions /\ g.tmp = files.tmp
      /\ g.lifecycle = files.lifecycle /\ g.meta = files.meta /\ g.report = files.report
  BY <1>1, MarkedOnly
<1> HIDE DEF g
<1>4. files' = g
  BY <1>2 DEF g
<1> QED
  BY <1>1, <1>3, <1>4 DEF Wrote, x, y

LEMMA CutWrote ==
  ASSUME CliInv, NEW p \in Runs, NEW record \in BOOLEAN, Store(Cut(files, p, record))
  PROVE  Wrote(p)
<1> DEFINE x == files.requests \cup (IF record THEN {LastLine(p)} ELSE {})
           y == files.lost \cup Joined(files, p)
           z == {LastLine(p)}
<1>1. x \in {files.requests, files.requests \cup {LastLine(p)}}
  OBVIOUS
<1>2. x \in RequestFiles /\ y \in SUBSET (Runs \X Nat) /\ z \in SUBSET (Runs \X Nat)
      /\ IsFiles(files)
  BY <1>1, LinesTyped
<1>3. files' = Marked(files, x, y, z)
  BY DEF Store, Cut, Marked
<1> DEFINE g == Marked(files, x, y, z)
<1> HIDE DEF x, y, z
<1>4. /\ IsFiles(g)
      /\ g.requests = x /\ g.lost = y /\ g.unended = z
      /\ g.opened = files.opened /\ g.sessions = files.sessions /\ g.tmp = files.tmp
      /\ g.lifecycle = files.lifecycle /\ g.meta = files.meta /\ g.report = files.report
  BY <1>2, MarkedOnly
<1> HIDE DEF g
<1>5. files' = g
  BY <1>3 DEF g
<1> QED
  BY <1>1, <1>4, <1>5 DEF Wrote, y, z

LEMMA PartWrote ==
  ASSUME CliInv, NEW p \in Runs, WritePart(p)
  PROVE  Wrote(p) /\ run[p].pc = "write"
BY FlushedWrote, CutWrote DEF WritePart, At

\* The lines of a run, one more or none; those of the others stay.
LEMMA WroteKeeps ==
  ASSUME CliInv, Numbered, NEW p \in Runs, Wrote(p), run[p].pc = "write"
  PROVE  /\ \A q \in Runs \ {p} : Keeps(q, files, files')
         /\ Written(files, p) \in Nat /\ Written(files', p) \in Nat
         /\ Written(files', p) >= Written(files, p)
         /\ LastLine(p) \in files'.requests => Written(files', p) = Written(files, p) + 1
<1> DEFINE line == LastLine(p)
<1>1. run[p].records \in Nat /\ line = <<p, run[p].records>>
  BY DEF CliInv, Locals, LastLine
<1>2. line \notin files.requests
  <2>1. Numbers(run[p]) = run[p].records - 1
    BY DEF Numbers
  <2>2. line \in files.requests => run[p].records <= run[p].records - 1
    BY <1>1, <2>1 DEF Numbered
  <2> QED
    BY <1>1, <2>2
<1>3. line[1] = p
  BY <1>1
<1> HIDE DEF line
<1>4. files'.requests \in {files.requests, files.requests \cup {line}}
  BY DEF Wrote, line
<1>5. ASSUME NEW q \in Runs \ {p} PROVE Keeps(q, files, files')
  <2>1. LinesOf(files', q) = LinesOf(files, q)
    BY <1>3, <1>4 DEF LinesOf
  <2> QED
    BY <2>1 DEF Keeps, Wrote
<1>6. Written(files, p) \in Nat /\ Written(files', p) \in Nat
  BY WrittenTyped DEF CliInv, Wrote
<1>7. line \in files'.requests => Written(files', p) = Written(files, p) + 1
  <2> SUFFICES ASSUME line \in files'.requests
               PROVE  Written(files', p) = Written(files, p) + 1
    OBVIOUS
  <2>1. /\ LinesOf(files', p) = LinesOf(files, p) \cup {line}
        /\ line \notin LinesOf(files, p)
    BY <1>2, <1>3, <1>4 DEF LinesOf
  <2>2. IsFiniteSet(LinesOf(files, p))
    BY FS_Subset DEF CliInv, IsFiles, FilesOf, RequestFiles, LinesOf
  <2>3. Cardinality(LinesOf(files', p)) = Cardinality(LinesOf(files, p)) + 1
    BY <2>1, <2>2, FS_AddElement
  <2> QED
    BY <2>3 DEF Written, LinesOf
<1>8. line \notin files'.requests => Written(files', p) = Written(files, p)
  <2>1. line \notin files'.requests => files'.requests = files.requests
    BY <1>4
  <2> QED
    BY <2>1 DEF Written, LinesOf
<1> QED
  BY <1>5, <1>6, <1>7, <1>8 DEF line

\* An appended batch is the last of the sessions; the earlier ones stay.
WithBatch(f, b) == [f EXCEPT !.sessions = Append(@, b)]

LEMMA SessionsStored ==
  ASSUME NEW f, IsFiles(f), NEW b \in Batches
  PROVE  /\ IsFiles(WithBatch(f, b))
         /\ \A q : Keeps(q, f, WithBatch(f, b))
         /\ \E k \in DOMAIN WithBatch(f, b).sessions : WithBatch(f, b).sessions[k] = b
         /\ WithBatch(f, b).requests = f.requests
         /\ WithBatch(f, b).lifecycle = f.lifecycle
         /\ WithBatch(f, b).report = f.report
<1> DEFINE batches == Append(f.sessions, b)
           g == WithBatch(f, b)
<1>0. g = [f EXCEPT !.sessions = batches]
  BY DEF WithBatch
<1>1. PICK tmp, lifecycle, report : f \in FilesOf(tmp, lifecycle, report)
  BY DEF IsFiles
<1>2. f.sessions \in Seq(Batches)
  BY <1>1 DEF FilesOf
<1>3. /\ batches \in Seq(Batches)
      /\ \A k \in DOMAIN f.sessions : k \in DOMAIN batches /\ batches[k] = f.sessions[k]
      /\ \E k \in DOMAIN batches : batches[k] = b
  <2>1. Len(batches) \in DOMAIN batches /\ batches[Len(batches)] = b
    BY <1>2
  <2> QED
    BY <1>2, <2>1
<1> HIDE DEF batches
<1>5. g \in FilesOf(tmp, lifecycle, report)
  BY <1>0, <1>1, <1>3, Zenon DEF FilesOf
<1>6. /\ g.requests = f.requests /\ g.sessions = batches
      /\ g.lifecycle = f.lifecycle /\ g.report = f.report
  BY <1>0, <1>1 DEF FilesOf
<1> HIDE DEF g
<1>7. IsFiles(g)
  BY <1>5 DEF IsFiles
<1>8. ASSUME NEW q PROVE Keeps(q, f, g)
  BY <1>3, <1>6 DEF Keeps, LinesOf
<1> QED
  BY <1>3, <1>6, <1>7, <1>8 DEF g

\* An exception after a write, or after part of one.
LEMMA RaisesWriting ==
  ASSUME CliInv, NEW p \in Runs, run[p].pc \notin Ended, Set(p, Raised(run[p])),
         IsFiles(files'), \A q \in Runs : Keeps(q, files, files')
  PROVE  CliInv'
<1>1. run[p] \in Locals /\ Good(p, run[p], files)
  BY DEF CliInv
<1>2. Raised(run[p]) \in Locals /\ Good(p, Raised(run[p]), files)
  BY <1>1, RaisedIsGood
<1>3. Good(p, Raised(run[p]), files')
  BY <1>2, GoodIsKept
<1> QED
  BY <1>2, <1>3, OneMoves DEF Set

\* A step that moves on to another place of the command, and writes or not.
LEMMA MovesWriting ==
  ASSUME CliInv, NEW p \in Runs, NEW pc \in Places, Goto(p, pc), IsFiles(files'),
         Good(p, [run[p] EXCEPT !.pc = pc], files'),
         \A q \in Runs \ {p} : Keeps(q, files, files')
  PROVE  CliInv'
<1>1. run[p] \in Locals
  BY DEF CliInv
<1>2. [run[p] EXCEPT !.pc = pc] \in Locals
  BY <1>1, PlaceTyped
<1> QED
  BY <1>2, OneMoves DEF Goto, Set

LEMMA OpenKeeps ==
  ASSUME CliInv, NEW p \in Runs, OpenRequests(p)
  PROVE  CliInv'
<1>1. /\ run[p] \in Locals /\ Good(p, run[p], files) /\ run[p].pc = "open"
      /\ IsFiles(files)
  BY DEF CliInv, OpenRequests, At
<1>2. CASE Set(p, Raised(run[p])) /\ UNCHANGED files
  BY <1>1, <1>2, Raises DEF Ended
<1>3. CASE Store([files EXCEPT !.opened = TRUE]) /\ Goto(p, "save")
  <2>1. IsFiles(files') /\ Same(files, files')
    BY <1>1, <1>3, OpenStored DEF Store
  <2> DEFINE r == [run[p] EXCEPT !.pc = "save"]
  <2>2. /\ r.pc = "save" /\ r.exit = run[p].exit
        /\ r.charged = run[p].charged /\ r.records = run[p].records
    BY <1>1 DEF Locals
  <2> HIDE DEF r
  <2>3. Good(p, r, files)
    BY <1>1, <2>2 DEF Good, RequestsOK, PlaceOK, ExitOK, Generated, NoExit
  <2>4. \A q : Keeps(q, files, files')
    BY <2>1, SameIsKept
  <2>5. Good(p, r, files')
    BY <2>3, <2>4, GoodIsKept
  <2> QED
    BY <1>3, <2>1, <2>4, <2>5, MovesWriting DEF Places, r
<1> QED
  BY <1>2, <1>3 DEF OpenRequests, Set, Goto

LEMMA TemporaryKeeps ==
  ASSUME CliInv, NEW p \in Runs, WriteTemporary(p)
  PROVE  CliInv'
<1>1. /\ run[p] \in Locals /\ Good(p, run[p], files) /\ run[p].pc = "save"
      /\ IsFiles(files)
  BY DEF CliInv, WriteTemporary, At
<1>2. CASE SaveFails(p) /\ UNCHANGED files
  BY <1>1, <1>2, Raises DEF Ended, SaveFails
<1>3. CASE Store([files EXCEPT !.tmp = Snapshot(p)]) /\ Goto(p, "replace")
  <2> DEFINE snapshot == Snapshot(p)
  <2>0. files' = [files EXCEPT !.tmp = snapshot]
    BY <1>3 DEF Store
  <2> HIDE DEF snapshot
  <2>1. IsFiles(files') /\ Same(files, files')
    BY <1>1, <2>0, TemporaryStored
  <2> DEFINE r == [run[p] EXCEPT !.pc = "replace"]
  <2>2. /\ r.pc = "replace" /\ r.exit = run[p].exit /\ r.after = run[p].after
        /\ r.charged = run[p].charged /\ r.records = run[p].records
    BY <1>1 DEF Locals
  <2> HIDE DEF r
  <2>3. Good(p, r, files)
    BY <1>1, <2>2 DEF Good, RequestsOK, PlaceOK, ExitOK, Generated, NoExit
  <2>4. \A q : Keeps(q, files, files')
    BY <2>1, SameIsKept
  <2>5. Good(p, r, files')
    BY <2>3, <2>4, GoodIsKept
  <2> QED
    BY <1>3, <2>1, <2>4, <2>5, MovesWriting DEF Places, r
<1> QED
  BY <1>2, <1>3 DEF WriteTemporary

\* The lifecycle file is in place before the command goes on.
LEMMA ReplaceKeeps ==
  ASSUME CliInv, NEW p \in Runs, ReplaceLifecycle(p)
  PROVE  CliInv'
<1>1. /\ run[p] \in Locals /\ Good(p, run[p], files) /\ run[p].pc = "replace"
      /\ IsFiles(files)
  BY DEF CliInv, ReplaceLifecycle, At
<1>2. CASE SaveFails(p) /\ UNCHANGED files
  BY <1>1, <1>2, Raises DEF Ended, SaveFails
<1>3. CASE /\ Exists(files.tmp) /\ Set(p, AfterSave(p))
           /\ Store([files EXCEPT !.lifecycle = files.tmp, !.tmp = NoFile])
  <2> DEFINE saved == files.tmp
             none == NoFile
  <2>0. files' = Moved(files, saved, none) /\ Exists(saved)
    BY <1>3 DEF Store, Moved
  <2> HIDE DEF saved, none
  <2>1. /\ IsFiles(files') /\ Exists(files'.lifecycle)
        /\ files'.requests = files.requests /\ files'.sessions = files.sessions
        /\ files'.report = files.report
    BY <1>1, <2>0, LifecycleStored
  <2>2. /\ \A q : Keeps(q, files, files')
        /\ Written(files', p) = Written(files, p)
    BY <2>1 DEF Keeps, LinesOf, Written
  <2>3. CASE run[p].after = "raise"
    BY <1>1, <1>3, <2>1, <2>2, <2>3, RaisesWriting DEF AfterSave, Ended
  <2>4. CASE run[p].after # "raise"
    <3> DEFINE after == run[p].after
               r == [run[p] EXCEPT !.pc = after]
    <3>1. run' = [run EXCEPT ![p] = r]
      BY <1>3, <2>4 DEF AfterSave, Set
    <3>2. after \in {"generate", "merge"} /\ after \in Places
      BY <1>1, <2>4 DEF Locals, Afters, Places
    <3>3. r \in Locals
      BY <1>1, <3>2, PlaceTyped
    <3>4. /\ r.pc = after /\ r.exit = run[p].exit
          /\ r.charged = run[p].charged /\ r.records = run[p].records
      BY <1>1 DEF Locals
    <3>5. /\ run[p].charged <= Written(files, p) /\ run[p].exit = NoExit
          /\ Written(files, p) = run[p].records
      BY <1>1, <2>4 DEF Good, RequestsOK, PlaceOK
    <3> HIDE DEF r, after
    <3>6. Good(p, r, files')
      BY <2>1, <2>2, <3>2, <3>4, <3>5
         DEF Good, RequestsOK, PlaceOK, ExitOK, Generated, NoExit
    <3> QED
      BY <2>1, <2>2, <3>1, <3>3, <3>6, OneMoves
  <2> QED
    BY <2>3, <2>4
<1> QED
  BY <1>2, <1>3 DEF ReplaceLifecycle

\* The line is on disk, flushed, before anything is charged for it.
\* The line is a new one: an attempt has one number and writes one line.
LEMMA RecordKeeps ==
  ASSUME CliInv, Numbered, NEW p \in Runs, WriteRecord(p)
  PROVE  CliInv'
<1>1. /\ run[p] \in Locals /\ Good(p, run[p], files) /\ run[p].pc = "write"
      /\ Goto(p, "charge") /\ Store(Flushed(files, p))
  BY DEF CliInv, WriteRecord, At
<1>2. Wrote(p) /\ LastLine(p) \in files'.requests
  BY <1>1, FlushedWrote
<1>3. /\ Written(files', p) = Written(files, p) + 1 /\ Written(files, p) \in Nat
      /\ \A q \in Runs \ {p} : Keeps(q, files, files')
  BY <1>1, <1>2, WroteKeeps
<1>4. IsFiles(files') /\ files'.lifecycle = files.lifecycle
  BY <1>2 DEF Wrote
<1> DEFINE r == [run[p] EXCEPT !.pc = "charge"]
<1>5. /\ r.pc = "charge" /\ r.exit = run[p].exit
      /\ r.charged = run[p].charged /\ r.records = run[p].records
      /\ r.charged \in Nat /\ r.records \in Nat
  BY <1>1 DEF Locals
<1> HIDE DEF r
<1>6. /\ run[p].charged <= Written(files, p) /\ run[p].exit = NoExit
      /\ Written(files, p) = run[p].records - 1 /\ Exists(files.lifecycle)
  BY <1>1 DEF Good, RequestsOK, PlaceOK
<1>7. Good(p, r, files')
  BY <1>3, <1>4, <1>5, <1>6 DEF Good, RequestsOK, PlaceOK, ExitOK, Generated, NoExit
<1> QED
  BY <1>1, <1>3, <1>4, <1>7, MovesWriting DEF Places, r

\* What a run leaves of the line it was writing, if it was writing one.
LEMMA WhatIsLeft ==
  ASSUME CliInv, Numbered, NEW p \in Runs, UNCHANGED files \/ WritePart(p)
  PROVE  /\ IsFiles(files') /\ \A q \in Runs \ {p} : Keeps(q, files, files')
         /\ run[p].charged <= Written(files', p)
<1>1. /\ run[p].charged <= Written(files, p) /\ run[p].charged \in Nat
      /\ Written(files, p) \in Nat /\ IsFiles(files)
  BY WrittenTyped DEF CliInv, Good, RequestsOK, Locals
<1>2. CASE UNCHANGED files
  BY <1>1, <1>2 DEF Keeps
<1>3. CASE WritePart(p)
  <2>1. Wrote(p) /\ run[p].pc = "write"
    BY <1>3, PartWrote
  <2>2. /\ \A q \in Runs \ {p} : Keeps(q, files, files')
        /\ Written(files', p) \in Nat /\ Written(files', p) >= Written(files, p)
    BY <2>1, WroteKeeps
  <2> QED
    BY <1>1, <2>1, <2>2 DEF Wrote
<1> QED
  BY <1>2, <1>3

\* Of the last record there may be nothing on disk, or a piece: "raise" asks
\* for no more.
LEMMA GenerationRaiseKeeps ==
  ASSUME CliInv, Numbered, NEW p \in Runs, GenerationRaises(p)
  PROVE  CliInv'
<1>1. /\ run[p] \in Locals /\ Good(p, run[p], files) /\ IsFiles(files)
      /\ run[p].pc \in {"generate", "write", "charge"}
      /\ UNCHANGED files \/ WritePart(p)
  BY DEF CliInv, GenerationRaises
<1>2. run[p].level \in Levels
  BY <1>1 DEF Locals
<1>3. PICK n \in Sessions(p), level \in Levels :
        run' = [run EXCEPT ![p] = [run[p] EXCEPT
                  !.status = "failed", !.done = n[1], !.cut = n[2], !.pc = "partial",
                  !.after = "raise", !.level = level]]
  BY <1>2 DEF GenerationRaises, Set, Levels
<1>4. n[1] \in Nat /\ n[2] \in Nat
  BY BoundsAssumption DEF Sessions
<1>5. "partial" \in Places /\ "raise" \in Afters /\ "failed" \in Statuses
  BY DEF Places, Afters, Statuses
<1> DEFINE r == [run[p] EXCEPT !.status = "failed", !.done = n[1], !.cut = n[2],
                               !.pc = "partial", !.after = "raise", !.level = level]
<1>6. r \in Locals
  BY <1>1, <1>4, <1>5, OutcomeTyped, Zenon
<1>7. /\ r.pc = "partial" /\ r.after = "raise" /\ r.exit = run[p].exit
      /\ r.charged = run[p].charged /\ r.records = run[p].records
  BY <1>1 DEF Locals
<1>8. run' = [run EXCEPT ![p] = r]
  BY <1>3
<1> HIDE DEF r
<1>9. /\ IsFiles(files') /\ \A q \in Runs \ {p} : Keeps(q, files, files')
      /\ run[p].charged <= Written(files', p)
  BY <1>1, WhatIsLeft
<1>10. Good(p, r, files')
  BY <1>1, <1>7, <1>9 DEF Good, RequestsOK, PlaceOK, ExitOK, Generated, NoExit
<1> QED
  BY <1>6, <1>8, <1>9, <1>10, OneMoves

LEMMA BatchTyped ==
  ASSUME CliInv, NEW p \in Runs, NEW n \in Nat, NEW torn \in BOOLEAN
  PROVE  Batch(p, n, run[p].final, torn) \in Batches
BY DEF CliInv, Locals, Batch, Batches

LEMMA SummariesTyped ==
  ASSUME CliInv, NEW p \in Runs
  PROVE  Summaries(p) \in Nat /\ Summaries(p) = run[p].done + run[p].cut
BY DEF CliInv, Locals, Summaries

LEMMA Appended ==
  ASSUME CliInv, NEW p \in Runs, NEW n \in Nat, NEW torn \in BOOLEAN,
         AppendSessions(p, n, torn)
  PROVE  /\ IsFiles(files') /\ \A q : Keeps(q, files, files')
         /\ \E k \in DOMAIN files'.sessions :
              files'.sessions[k] = Batch(p, n, run[p].final, torn)
         /\ files'.requests = files.requests
         /\ files'.lifecycle = files.lifecycle /\ files'.report = files.report
<1> DEFINE b == Batch(p, n, run[p].final, torn)
<1>1. b \in Batches /\ IsFiles(files)
  BY BatchTyped DEF CliInv
<1>2. files' = WithBatch(files, b)
  BY DEF AppendSessions, Store, WithBatch
<1> HIDE DEF b
<1>3. /\ IsFiles(files') /\ \A q : Keeps(q, files, files')
      /\ \E k \in DOMAIN files'.sessions : files'.sessions[k] = b
      /\ files'.requests = files.requests
      /\ files'.lifecycle = files.lifecycle /\ files'.report = files.report
  BY <1>1, <1>2, SessionsStored
<1> QED
  BY <1>3 DEF b

LEMMA PartAppended ==
  ASSUME CliInv, NEW p \in Runs, AppendPart(p)
  PROVE  IsFiles(files') /\ \A q : Keeps(q, files, files')
<1>1. PICK n \in 0..(Summaries(p) - 1), torn \in BOOLEAN : AppendSessions(p, n, torn)
  BY DEF AppendPart
<1>2. n \in Nat
  BY <1>1, SummariesTyped
<1> QED
  BY <1>1, <1>2, Appended

LEMMA PartialKeeps ==
  ASSUME CliInv, NEW p \in Runs, SavePartialSessions(p)
  PROVE  CliInv'
<1>1. /\ run[p] \in Locals /\ Good(p, run[p], files) /\ run[p].pc = "partial"
  BY DEF CliInv, SavePartialSessions, At
<1>2. CASE Set(p, Raised(run[p])) /\ UNCHANGED files
  BY <1>1, <1>2, Raises DEF Ended
<1>3. CASE AppendPart(p) /\ Set(p, Raised(run[p]))
  BY <1>1, <1>3, PartAppended, RaisesWriting DEF Ended
<1>4. CASE AppendSessions(p, Summaries(p), FALSE) /\ Goto(p, "save")
  <2>1. IsFiles(files') /\ \A q : Keeps(q, files, files')
    BY <1>4, SummariesTyped, Appended
  <2> DEFINE r == [run[p] EXCEPT !.pc = "save"]
  <2>2. /\ r.pc = "save" /\ r.exit = run[p].exit /\ r.after = run[p].after
        /\ r.charged = run[p].charged /\ r.records = run[p].records
    BY <1>1 DEF Locals
  <2> HIDE DEF r
  <2>3. Good(p, r, files)
    BY <1>1, <2>2 DEF Good, RequestsOK, PlaceOK, ExitOK, Generated, NoExit
  <2>4. Good(p, r, files')
    BY <2>1, <2>3, GoodIsKept
  <2> QED
    BY <1>4, <2>1, <2>4, MovesWriting DEF Places, r
<1> QED
  BY <1>2, <1>3, <1>4 DEF SavePartialSessions

LEMMA MergeKeeps ==
  ASSUME CliInv, NEW p \in Runs, MergeAndJudge(p)
  PROVE  CliInv'
<1>1. /\ run[p] \in Locals /\ Good(p, run[p], files) /\ run[p].pc = "merge"
      /\ UNCHANGED files
  BY DEF CliInv, MergeAndJudge, At
<1>2. CASE Set(p, Raised(run[p]))
  BY <1>1, <1>2, Raises DEF Ended
<1>3. CASE Set(p, [run[p] EXCEPT !.final = TRUE, !.pc = "sessions"])
  <2> DEFINE r == [run[p] EXCEPT !.final = TRUE, !.pc = "sessions"]
  <2>1. run' = [run EXCEPT ![p] = r]
    BY <1>3 DEF Set
  <2>2. "sessions" \in Places /\ TRUE \in BOOLEAN
    BY DEF Places
  <2>3. r \in Locals
    BY <1>1, <2>2, FinalTyped, Zenon
  <2>4. /\ r.pc = "sessions" /\ r.exit = run[p].exit /\ r.final = TRUE
        /\ r.charged = run[p].charged /\ r.records = run[p].records
    BY <1>1 DEF Locals
  <2> HIDE DEF r
  <2>5. Good(p, r, files)
    BY <1>1, <2>4 DEF Good, RequestsOK, PlaceOK, ExitOK, Generated, NoExit
  <2> QED
    BY <1>1, <2>1, <2>3, <2>5, OneMovesAlone
<1> QED
  BY <1>2, <1>3 DEF MergeAndJudge

\* All the summaries, of sessions that are judged, in one batch.
LEMMA SessionsKeep ==
  ASSUME CliInv, NEW p \in Runs, WriteSessions(p)
  PROVE  CliInv'
<1>1. /\ run[p] \in Locals /\ Good(p, run[p], files) /\ run[p].pc = "sessions"
  BY DEF CliInv, WriteSessions, At
<1>2. CASE Set(p, SessionsNotWritten(p)) /\ UNCHANGED files
  BY <1>1, <1>2, Raises DEF Ended, SessionsNotWritten
<1>3. CASE AppendPart(p) /\ Set(p, SessionsNotWritten(p))
  BY <1>1, <1>3, PartAppended, RaisesWriting DEF Ended, SessionsNotWritten
<1>4. CASE AppendSessions(p, Summaries(p), FALSE) /\ Goto(p, "meta")
  <2>1. /\ IsFiles(files') /\ \A q : Keeps(q, files, files')
        /\ \E k \in DOMAIN files'.sessions :
             files'.sessions[k] = Batch(p, Summaries(p), run[p].final, FALSE)
        /\ files'.requests = files.requests
        /\ files'.lifecycle = files.lifecycle /\ files'.report = files.report
    BY <1>4, SummariesTyped, Appended
  <2> DEFINE r == [run[p] EXCEPT !.pc = "meta"]
  <2>2. /\ r.pc = "meta" /\ r.exit = run[p].exit /\ r.final = run[p].final
        /\ r.charged = run[p].charged /\ r.records = run[p].records
        /\ r.done = run[p].done /\ r.cut = run[p].cut
    BY <1>1 DEF Locals
  <2> HIDE DEF r
  <2>3. /\ run[p].charged <= Written(files, p) /\ Written(files, p) = run[p].records
        /\ Exists(files.lifecycle) /\ run[p].exit = NoExit /\ run[p].final
    BY <1>1 DEF Good, RequestsOK, PlaceOK, Generated
  <2>4. run[p].final = TRUE
    BY <1>1, <2>3 DEF Locals
  <2>5. Summaries(p) = r.done + r.cut
    BY <2>2, SummariesTyped
  <2>6. Delivered(p, r, files')
    BY <2>1, <2>4, <2>5 DEF Delivered
  <2>a. Written(files', p) = Written(files, p)
    BY <2>1 DEF Written, LinesOf
  <2>7. Good(p, r, files')
    BY <2>1, <2>2, <2>3, <2>6, <2>a DEF Good, RequestsOK, PlaceOK, ExitOK, Generated, NoExit
  <2> QED
    BY <1>4, <2>1, <2>7, MovesWriting DEF Places, r
<1> QED
  BY <1>2, <1>3, <1>4 DEF WriteSessions

LEMMA MetadataTyped ==
  ASSUME CliInv, NEW p \in Runs
  PROVE  Metadata(p) \in Metas
<1>1. run[p] \in Locals
  BY DEF CliInv
<1>2. run[p].options.cap \in Nat \cup {-1} /\ run[p].level \in Levels
  BY <1>1, OptionsAssumption DEF Locals
<1> QED
  BY <1>2 DEF Metadata, Metas

LEMMA MetaKeeps ==
  ASSUME CliInv, NEW p \in Runs, WriteMeta(p)
  PROVE  CliInv'
<1>1. /\ run[p] \in Locals /\ Good(p, run[p], files) /\ run[p].pc = "meta"
      /\ IsFiles(files)
  BY DEF CliInv, WriteMeta, At
<1>2. ASSUME NEW m \in Metas, Store([files EXCEPT !.meta = m])
      PROVE  IsFiles(files') /\ \A q : Keeps(q, files, files')
  <2>1. IsFiles(files') /\ Same(files, files')
    BY <1>1, <1>2, MetaStored DEF Store
  <2> QED
    BY <2>1, SameIsKept
<1>3. CASE Set(p, Raised(run[p])) /\ UNCHANGED files
  BY <1>1, <1>3, Raises DEF Ended
<1>4. CASE Store([files EXCEPT !.meta = Torn]) /\ Set(p, Raised(run[p]))
  <2>1. Torn \in Metas
    BY DEF Metas
  <2> QED
    BY <1>1, <1>2, <1>4, <2>1, RaisesWriting DEF Ended
<1>5. CASE Store([files EXCEPT !.meta = Metadata(p)]) /\ Goto(p, "readback")
  <2>1. IsFiles(files') /\ \A q : Keeps(q, files, files')
    BY <1>2, <1>5, MetadataTyped
  <2> DEFINE r == [run[p] EXCEPT !.pc = "readback"]
  <2>2. /\ r.pc = "readback" /\ r.exit = run[p].exit /\ r.final = run[p].final
        /\ r.charged = run[p].charged /\ r.records = run[p].records
        /\ r.done = run[p].done /\ r.cut = run[p].cut
    BY <1>1 DEF Locals
  <2> HIDE DEF r
  <2>a. /\ run[p].charged <= Written(files, p) /\ Written(files, p) = run[p].records
        /\ Exists(files.lifecycle) /\ Delivered(p, run[p], files)
        /\ run[p].exit = NoExit /\ run[p].final
    BY <1>1 DEF Good, RequestsOK, PlaceOK, Generated
  <2>b. Delivered(p, r, files)
    BY <2>2, <2>a DEF Delivered
  <2>3. Good(p, r, files)
    BY <2>2, <2>a, <2>b DEF Good, RequestsOK, PlaceOK, ExitOK, Generated, NoExit
  <2>4. Good(p, r, files')
    BY <2>1, <2>3, GoodIsKept
  <2> QED
    BY <1>5, <2>1, <2>4, MovesWriting DEF Places, r
<1> QED
  BY <1>3, <1>4, <1>5 DEF WriteMeta

LEMMA ReadMetaKeeps ==
  ASSUME CliInv, NEW p \in Runs, ReadMeta(p)
  PROVE  CliInv'
<1>1. /\ run[p] \in Locals /\ Good(p, run[p], files) /\ run[p].pc = "readback"
      /\ UNCHANGED files
  BY DEF CliInv, ReadMeta, At
<1>2. CASE files.meta = Torn
  BY <1>1, <1>2, Raises DEF ReadMeta, Ended
<1>3. CASE files.meta # Torn
  <2> DEFINE meta == files.meta
             r == [run[p] EXCEPT !.meta = meta, !.pc = "report"]
  <2>1. run' = [run EXCEPT ![p] = r]
    BY <1>3 DEF ReadMeta, Set
  <2>0. PICK tmp, lifecycle, report : files \in FilesOf(tmp, lifecycle, report)
    BY DEF CliInv, IsFiles
  <2>2. meta \in Metas /\ "report" \in Places
    BY <2>0 DEF FilesOf, Places
  <2> HIDE DEF meta
  <2>3. r \in Locals
    BY <1>1, <2>2, MetaTyped, Zenon
  <2>4. /\ r.pc = "report" /\ r.exit = run[p].exit /\ r.final = run[p].final
        /\ r.charged = run[p].charged /\ r.records = run[p].records
        /\ r.done = run[p].done /\ r.cut = run[p].cut
    BY <1>1 DEF Locals
  <2> HIDE DEF r
  <2>a. /\ run[p].charged <= Written(files, p) /\ Written(files, p) = run[p].records
        /\ Exists(files.lifecycle) /\ Delivered(p, run[p], files)
        /\ run[p].exit = NoExit /\ run[p].final
    BY <1>1 DEF Good, RequestsOK, PlaceOK, Generated
  <2>b. Delivered(p, r, files)
    BY <2>4, <2>a DEF Delivered
  <2>5. Good(p, r, files)
    BY <2>4, <2>a, <2>b DEF Good, RequestsOK, PlaceOK, ExitOK, Generated, NoExit
  <2> QED
    BY <1>1, <2>1, <2>3, <2>5, OneMovesAlone
<1> QED
  BY <1>2, <1>3

\* A report is not the absence of one.
LEMMA ReportExists ==
  ASSUME NEW meta, NEW lines, NEW known, NEW sessions, NEW level
  PROVE  Exists(ReportOf(meta, lines, known, sessions, level))
<1> DEFINE report == ReportOf(meta, lines, known, sessions, level)
<1>1. "requests" \in DOMAIN report
  BY DEF ReportOf
<1>2. "requests" \notin DOMAIN NoFile
  BY DEF NoFile
<1> QED
  BY <1>1, <1>2 DEF Exists

LEMMA ReportWritten ==
  ASSUME CliInv, NEW x, Exists(x), Store([files EXCEPT !.report = x])
  PROVE  /\ IsFiles(files') /\ \A q : Keeps(q, files, files')
         /\ Exists(files'.report)
<1>1. IsFiles(files) /\ files' = [files EXCEPT !.report = x]
  BY DEF CliInv, Store
<1>2. /\ IsFiles(files')
      /\ files'.requests = files.requests /\ files'.sessions = files.sessions
      /\ files'.lifecycle = files.lifecycle /\ files'.report = x
  BY <1>1, ReportStored
<1> QED
  BY <1>2 DEF Keeps, LinesOf

LEMMA ReportKeeps ==
  ASSUME CliInv, NEW p \in Runs, WriteReport(p)
  PROVE  CliInv'
<1>1. /\ run[p] \in Locals /\ Good(p, run[p], files) /\ run[p].pc = "report"
  BY DEF CliInv, WriteReport, At
<1>2. CASE Set(p, Raised(run[p])) /\ UNCHANGED files
  BY <1>1, <1>2, Raises DEF Ended
<1>3. CASE Store([files EXCEPT !.report = RunReport(p)]) /\ Goto(p, "slo")
  <2>0. Exists(RunReport(p))
    BY ReportExists DEF RunReport
  <2>1. IsFiles(files') /\ \A q : Keeps(q, files, files')
    BY <1>3, <2>0, ReportWritten
  <2>a. Exists(files'.report)
    BY <1>3, <2>0, ReportWritten
  <2> DEFINE r == [run[p] EXCEPT !.pc = "slo"]
  <2>2. /\ r.pc = "slo" /\ r.exit = run[p].exit /\ r.final = run[p].final
        /\ r.charged = run[p].charged /\ r.records = run[p].records
        /\ r.done = run[p].done /\ r.cut = run[p].cut
    BY <1>1 DEF Locals
  <2> HIDE DEF r
  <2>3. Good(p, run[p], files')
    BY <1>1, <2>1, GoodIsKept
  <2>b. /\ run[p].charged <= Written(files', p) /\ Written(files', p) = run[p].records
        /\ Exists(files'.lifecycle) /\ Delivered(p, run[p], files')
        /\ run[p].exit = NoExit /\ run[p].final
    BY <1>1, <2>3 DEF Good, RequestsOK, PlaceOK, Generated
  <2>c. Delivered(p, r, files')
    BY <2>2, <2>b DEF Delivered
  <2>4. Good(p, r, files')
    BY <2>2, <2>a, <2>b, <2>c DEF Good, RequestsOK, PlaceOK, ExitOK, Generated, NoExit
  <2> QED
    BY <1>3, <2>1, <2>4, MovesWriting DEF Places, r
<1> QED
  BY <1>2, <1>3 DEF WriteReport

\* 0 or 1 of the SLO, unless the cap stopped the run.
LEMMA SloKeeps ==
  ASSUME CliInv, NEW p \in Runs, EvaluateSlo(p)
  PROVE  CliInv'
<1>1. /\ run[p] \in Locals /\ Good(p, run[p], files) /\ run[p].pc = "slo"
      /\ UNCHANGED files
  BY DEF CliInv, EvaluateSlo, At
<1>2. PICK passing \in BOOLEAN :
        run' = [run EXCEPT ![p] = [run[p] EXCEPT !.pc = "exited",
                                                 !.exit = ExitCode(p, passing)]]
  BY DEF EvaluateSlo, Set
<1> DEFINE exit == ExitCode(p, passing)
           r == [run[p] EXCEPT !.pc = "exited", !.exit = exit]
<1>3. /\ exit \in {0, 1, 3} /\ (exit = 3 <=> run[p].stop)
  BY DEF ExitCode
<1>4. exit \in Int
  BY <1>3
<1>5. "exited" \in Places
  BY DEF Places
<1>6. run' = [run EXCEPT ![p] = r]
  BY <1>2
<1> HIDE DEF exit
<1>7. r \in Locals
  BY <1>1, <1>4, <1>5, ExitTyped, Zenon
<1>8. /\ r.pc = "exited" /\ r.exit = exit /\ r.stop = run[p].stop
      /\ r.charged = run[p].charged /\ r.records = run[p].records
      /\ r.done = run[p].done /\ r.cut = run[p].cut
  BY <1>1 DEF Locals
<1> HIDE DEF r
<1>9. /\ run[p].charged <= Written(files, p) /\ Written(files, p) = run[p].records
      /\ Exists(files.lifecycle) /\ Exists(files.report) /\ Delivered(p, run[p], files)
  BY <1>1 DEF Good, RequestsOK, PlaceOK, Generated
<1>10. Delivered(p, r, files)
  BY <1>8, <1>9 DEF Delivered
<1>11. Good(p, r, files)
  BY <1>3, <1>8, <1>9, <1>10 DEF Good, RequestsOK, PlaceOK, ExitOK, Generated
<1> QED
  BY <1>1, <1>6, <1>7, <1>11, OneMovesAlone

LEMMA KillKeeps ==
  ASSUME CliInv, Numbered, NEW p \in Runs, Kill(p)
  PROVE  CliInv'
<1>1. /\ run[p] \in Locals /\ Good(p, run[p], files) /\ run[p].pc \notin Ended
      /\ IsFiles(files) /\ Goto(p, "killed")
  BY DEF CliInv, Kill
<1>2. /\ IsFiles(files') /\ \A q \in Runs \ {p} : Keeps(q, files, files')
      /\ run[p].charged <= Written(files', p)
  <2>0. run[p].charged <= Written(files, p)
    BY <1>1 DEF Good, RequestsOK
  <2>1. CASE UNCHANGED files \/ WritePart(p)
    BY <2>1, WhatIsLeft
  <2>2. CASE AppendPart(p)
    <3>1. IsFiles(files') /\ \A q : Keeps(q, files, files')
      BY <2>2, PartAppended
    <3> QED
      BY <2>0, <3>1 DEF Keeps, Written, LinesOf
  <2>3. CASE Store([files EXCEPT !.meta = Torn])
    <3>1. Torn \in Metas
      BY DEF Metas
    <3>2. IsFiles(files') /\ Same(files, files')
      BY <1>1, <2>3, <3>1, MetaStored DEF Store
    <3> QED
      BY <2>0, <3>2, SameIsKept DEF Same, Written, LinesOf
  <2> QED
    BY <2>1, <2>2, <2>3 DEF Kill
<1> DEFINE r == [run[p] EXCEPT !.pc = "killed"]
<1>3. /\ r.pc = "killed" /\ r.exit = run[p].exit
      /\ r.charged = run[p].charged /\ r.records = run[p].records
  BY <1>1 DEF Locals
<1> HIDE DEF r
<1>4. run[p].exit = NoExit
  BY <1>1 DEF Good, PlaceOK, Ended
<1>5. Good(p, r, files')
  BY <1>2, <1>3, <1>4 DEF Good, RequestsOK, PlaceOK, ExitOK, Generated, NoExit
<1> QED
  BY <1>1, <1>2, <1>5, MovesWriting DEF Places, r

LEMMA RerenderKeeps ==
  ASSUME CliInv, Rerender
  PROVE  CliInv'
<1>1. run' = run /\ Store([files EXCEPT !.report = RenderFromFiles(files)])
      /\ Refused(files) = "no"
  BY DEF Rerender
<1>2. Exists(RenderFromFiles(files))
  BY <1>1, ReportExists DEF RenderFromFiles
<1>3. IsFiles(files') /\ \A q : Keeps(q, files, files')
  BY <1>1, <1>2, ReportWritten
<1>4. ASSUME NEW q \in Runs PROVE Good(q, run'[q], files')
  BY <1>1, <1>3, GoodIsKept DEF CliInv
<1> QED
  BY <1>1, <1>3, <1>4 DEF CliInv

-----------------------------------------------------------------------------
(* What a run knows of itself, what metadata stands for, and what the files *)
(* of a run that is alone in its second hold                                *)

\* Snapshot(p) and Metadata(p) of a run with locals s.
Snap(p, s) ==
  [by |-> p, status |-> s.status, completed |-> s.records, sessions |-> s.done + s.cut,
   level |-> s.level, stop |-> s.stop, charged |-> s.charged, calibrated |-> s.calibrated]
Meta(p, s) ==
  [by |-> p, torn |-> FALSE, cap |-> s.options.cap,
   level |-> IF s.options.old THEN NotRecorded ELSE s.level]
Readable(m) == m # NoFile /\ m # Torn

Local(s) ==
  /\ s.pc \notin {"options"} \cup Ended => s.named
  /\ s.pc = "options" => ~s.named
  /\ s.pc \in {"options", "open", "generate", "write", "charge"} => s.after = "generate"
  /\ s.pc = "partial" => s.after = "raise"
  /\ s.pc \in Generated => s.after = "merge"
  /\ s.calibrated => s.options.cap = NoCap
  /\ s.options.cap = 0 => s.stop
  /\ s.level = "completed" => s.after = "merge"
  /\ s.after = "merge" => s.status # "failed"
  /\ s.after = "generate" /\ s.records = 0 /\ s.stop => s.options.cap = 0 /\ s.level # "running"
  /\ s.after = "merge" /\ s.records = 0 =>
       /\ s.options.cap = 0 /\ s.stop /\ s.status = "stopped"
       /\ s.done = 0 /\ s.cut = 0

\* Whoever else writes: the metadata are of a run that wrote all its records.
Told(p, s, f) ==
  /\ s.after = "merge" => Written(f, p) = s.records
  /\ Readable(f.meta) /\ f.meta.by = p =>
       s.named /\ s.after = "merge" /\ f.meta.cap = s.options.cap

Complete(p, s, f) ==
  /\ f.opened /\ s.final /\ s.after = "merge"
  /\ f.lifecycle = Snap(p, s)
  /\ f.sessions = <<Batch(p, s.done + s.cut, TRUE, FALSE)>>

Unwritten(f) ==
  /\ ~f.opened /\ f.requests = {} /\ f.sessions = <<>>
  /\ f.tmp = NoFile /\ f.lifecycle = NoFile /\ f.meta = NoFile

Saving == {"save", "replace"}
Reporting == {"readback", "report", "slo"}

\* No other run has a name, so none has a file.
Sole(p, s, f) ==
  /\ ~s.named \/ s.pc = "open" => Unwritten(f)
  /\ s.pc \notin {"options", "open"} \cup Ended => f.opened
  /\ \A line \in f.requests : line[1] = p
  /\ s.pc = "replace" => f.tmp = Snap(p, s)
  /\ s.pc \in Generated => f.lifecycle = Snap(p, s)
  /\ Exists(f.tmp) /\ f.tmp.level = "completed" => s.level = "completed"
  /\ Exists(f.lifecycle) /\ f.lifecycle.level = "completed" => s.level = "completed"
  /\ \/ s.pc \in {"generate", "write", "charge", "merge", "sessions"}
     \/ s.pc \in Saving /\ s.after # "raise"
     => f.sessions = <<>>
  /\ s.pc = "meta" \/ Readable(f.meta) => Complete(p, s, f)
  /\ f.meta \in {NoFile, Torn, Meta(p, s)}
  /\ s.pc \notin Reporting \cup Ended => f.meta = NoFile
  /\ s.pc \in Reporting \/ s.exit \in {0, 3} => f.meta = Meta(p, s)

CliTold ==
  /\ \A p \in Runs : Local(run[p]) /\ Told(p, run[p], files)
  /\ \A p \in Runs : Named \subseteq {p} => Sole(p, run[p], files)

-----------------------------------------------------------------------------
(* Steps, as what they do to the locals of one run and to the files *)

\* Everything but the place, the exit code and the metadata read back.
Kept(s, r) ==
  /\ r.options = s.options /\ r.named = s.named /\ r.calibrated = s.calibrated
  /\ r.records = s.records /\ r.charged = s.charged /\ r.stop = s.stop
  /\ r.done = s.done /\ r.cut = s.cut /\ r.status = s.status /\ r.level = s.level
  /\ r.final = s.final /\ r.after = s.after

\* The files but for the report, which no other file depends on.
Beside(f, g) ==
  /\ g.opened = f.opened /\ g.requests = f.requests /\ g.sessions = f.sessions
  /\ g.tmp = f.tmp /\ g.lifecycle = f.lifecycle /\ g.meta = f.meta

\* What is to be shown of every step of a run.
Advances(p) ==
  /\ \A q \in Runs \ {p} : run'[q] = run[q]
  /\ Local(run'[p]) /\ Told(p, run'[p], files')
  /\ Sole(p, run[p], files) => Sole(p, run'[p], files')
  /\ run[p].named => run'[p].named
  /\ ~run'[p].named => files' = files
  /\ files'.meta = files.meta \/ files'.meta = Torn \/ files'.meta.by = p
  /\ Numbers(run[p]) <= Numbers(run'[p])
  /\ \/ files'.requests = files.requests
     \/ /\ files'.requests = files.requests \cup {<<p, run[p].records>>}
        /\ run[p].records <= Numbers(run'[p])

\* The induction hypothesis, for the run that takes the step.
Here(p) ==
  /\ CliInv /\ p \in Runs
  /\ Local(run[p]) /\ Told(p, run[p], files)

LEMMA SnapshotIs ==
  ASSUME NEW p
  PROVE  Snapshot(p) = Snap(p, run[p]) /\ Metadata(p) = Meta(p, run[p])
BY DEF Snapshot, Snap, Metadata, Meta

LEMMA SnapKept ==
  ASSUME NEW p, NEW s, NEW r, Kept(s, r)
  PROVE  Snap(p, r) = Snap(p, s) /\ Meta(p, r) = Meta(p, s)
BY DEF Kept, Snap, Meta

LEMMA MetaReadable ==
  ASSUME NEW p \in Runs, NEW s
  PROVE  /\ Readable(Meta(p, s))
         /\ Meta(p, s).by = p /\ Meta(p, s).cap = s.options.cap
<1>1. Meta(p, s).by = p /\ Meta(p, s).cap = s.options.cap
  BY DEF Meta
<1>2. NoFile.by = NoRun /\ Torn.by = NoRun
  BY DEF NoFile, Torn
<1> QED
  BY <1>1, <1>2, NoRunAssumption DEF Readable

LEMMA TornDiffers ==
  ~Readable(NoFile) /\ ~Readable(Torn)
BY DEF Readable

LEMMA OpenedOnly ==
  ASSUME NEW f, IsFiles(f), NEW x
  PROVE  LET g == [f EXCEPT !.opened = x]
         IN  /\ g.opened = x /\ g.requests = f.requests /\ g.sessions = f.sessions
             /\ g.tmp = f.tmp /\ g.lifecycle = f.lifecycle /\ g.meta = f.meta
BY DEF IsFiles, FilesOf

LEMMA SessionsOnly ==
  ASSUME NEW f, IsFiles(f), NEW x
  PROVE  LET g == [f EXCEPT !.sessions = x]
         IN  /\ g.sessions = x /\ g.opened = f.opened /\ g.requests = f.requests
             /\ g.tmp = f.tmp /\ g.lifecycle = f.lifecycle /\ g.meta = f.meta
BY DEF IsFiles, FilesOf

LEMMA TemporaryOnly ==
  ASSUME NEW f, IsFiles(f), NEW x
  PROVE  LET g == [f EXCEPT !.tmp = x]
         IN  /\ g.tmp = x /\ g.opened = f.opened /\ g.requests = f.requests
             /\ g.sessions = f.sessions /\ g.lifecycle = f.lifecycle /\ g.meta = f.meta
BY DEF IsFiles, FilesOf

LEMMA MetaOnly ==
  ASSUME NEW f, IsFiles(f), NEW x
  PROVE  LET g == [f EXCEPT !.meta = x]
         IN  /\ g.meta = x /\ g.opened = f.opened /\ g.requests = f.requests
             /\ g.sessions = f.sessions /\ g.tmp = f.tmp /\ g.lifecycle = f.lifecycle
BY DEF IsFiles, FilesOf

LEMMA ReportOnly ==
  ASSUME NEW f, IsFiles(f), NEW x
  PROVE  LET g == [f EXCEPT !.report = x]
         IN  /\ g.opened = f.opened /\ g.requests = f.requests /\ g.sessions = f.sessions
             /\ g.tmp = f.tmp /\ g.lifecycle = f.lifecycle /\ g.meta = f.meta
BY DEF IsFiles, FilesOf

LEMMA MovedOnly ==
  ASSUME NEW f, IsFiles(f), NEW x, NEW y
  PROVE  LET g == Moved(f, x, y)
         IN  /\ g.lifecycle = x /\ g.tmp = y /\ g.opened = f.opened
             /\ g.requests = f.requests /\ g.sessions = f.sessions /\ g.meta = f.meta
BY DEF IsFiles, FilesOf, Moved

-----------------------------------------------------------------------------
(* Steps that keep what a run has recorded *)

LEMMA NumbersTyped ==
  ASSUME NEW s \in Locals
  PROVE  Numbers(s) \in Int
BY DEF Locals, Numbers

\* Told does not ask what else is on disk.
LEMMA Moves ==
  ASSUME NEW p, Here(p), NEW r \in Locals, run' = [run EXCEPT ![p] = r],
         Kept(run[p], r), r.pc # "write", Local(r), files'.requests = files.requests,
         \/ files'.meta \in {files.meta, Torn}
         \/ files'.meta = Meta(p, r) /\ r.named /\ r.after = "merge",
         ~r.named => files' = files,
         Sole(p, run[p], files) => Sole(p, r, files')
  PROVE  Advances(p)
<1>1. p \in Runs /\ run \in [Runs -> Locals] /\ run[p] \in Locals
  BY DEF Here, CliInv
<1>2. run'[p] = r /\ \A q \in Runs \ {p} : run'[q] = run[q]
  BY <1>1
<1>3. Written(files', p) = Written(files, p)
  BY DEF Written, LinesOf
<1>4. Readable(files'.meta) /\ files'.meta.by = p =>
        r.named /\ r.after = "merge" /\ files'.meta.cap = r.options.cap
  <2>1. CASE files'.meta = files.meta
    BY <2>1 DEF Here, Told, Kept
  <2>2. CASE files'.meta = Torn
    BY <2>2, TornDiffers
  <2>3. CASE files'.meta = Meta(p, r) /\ r.named /\ r.after = "merge"
    BY <1>1, <2>3, MetaReadable
  <2> QED
    BY <2>1, <2>2, <2>3
<1>5. Told(p, r, files')
  BY <1>3, <1>4 DEF Here, Told, Kept
<1>6. files'.meta = files.meta \/ files'.meta = Torn \/ files'.meta.by = p
  BY <1>1, MetaReadable
<1>7. Numbers(run[p]) <= Numbers(r)
  BY <1>1 DEF Numbers, Kept, Locals
<1>8. run[p].named => r.named
  BY DEF Kept
<1> QED
  BY <1>2, <1>5, <1>6, <1>7, <1>8 DEF Advances

\* A run that ends leaves its files as they are, or one of them half written.
LEMMA Ends ==
  ASSUME NEW p, Here(p), NEW r \in Locals, run' = [run EXCEPT ![p] = r],
         Kept(run[p], r), run[p].pc \notin Ended, r.pc \in Ended,
         r.exit \in {0, 3} => run[p].pc = "slo",
         files'.opened = files.opened, files'.requests = files.requests,
         files'.tmp = files.tmp, files'.lifecycle = files.lifecycle,
         files'.sessions = files.sessions \/ run[p].pc \in {"partial", "sessions"},
         files'.meta = files.meta \/ (run[p].pc = "meta" /\ files'.meta = Torn),
         ~run[p].named => files' = files
  PROVE  Advances(p)
<1>1. Local(r) /\ r.pc # "write"
  BY DEF Here, Local, Kept, Ended, Generated
<1>2. Snap(p, r) = Snap(p, run[p]) /\ Meta(p, r) = Meta(p, run[p])
  BY SnapKept
<1>3. ASSUME Sole(p, run[p], files) PROVE Sole(p, r, files')
  <2>1. ~r.named \/ r.pc = "open" => Unwritten(files')
    BY <1>3 DEF Sole, Kept, Ended, Unwritten
  <2>2. Readable(files'.meta) =>
          Readable(files.meta) /\ files'.meta = files.meta /\ run[p].pc \in Reporting \cup Ended
    BY <1>3, TornDiffers DEF Sole
  <2>3. Readable(files'.meta) => Complete(p, r, files')
    BY <1>2, <1>3, <2>2 DEF Sole, Complete, Kept, Reporting, Ended
  <2>4. files'.meta \in {NoFile, Torn, Meta(p, r)}
    BY <1>2, <1>3 DEF Sole
  <2>5. r.exit \in {0, 3} => files'.meta = Meta(p, r)
    BY <1>2, <1>3 DEF Sole, Reporting
  <2>6. /\ \A line \in files'.requests : line[1] = p
        /\ Exists(files'.tmp) /\ files'.tmp.level = "completed" => r.level = "completed"
        /\ Exists(files'.lifecycle) /\ files'.lifecycle.level = "completed" =>
             r.level = "completed"
    BY <1>3 DEF Sole, Kept
  <2> QED
    BY <2>1, <2>3, <2>4, <2>5, <2>6 DEF Sole, Ended, Reporting, Saving, Generated
<1>4. ~r.named => files' = files
  BY DEF Kept
<1> QED
  BY <1>1, <1>3, <1>4, Moves

LEMMA RaisedKept ==
  ASSUME NEW s \in Locals
  PROVE  /\ Raised(s) \in Locals /\ Kept(s, Raised(s))
         /\ Raised(s).pc = "exited" /\ Raised(s).exit = 1
<1>1. "exited" \in Places /\ 1 \in Int
  BY DEF Places
<1>2. Raised(s) \in Locals
  BY <1>1, ExitTyped, Zenon DEF Raised
<1>3. Kept(s, Raised(s)) /\ Raised(s).pc = "exited" /\ Raised(s).exit = 1
  BY DEF Locals, Raised, Kept
<1> QED
  BY <1>2, <1>3

\* What is raised, over files of which at most one is half written.
LEMMA RaiseAdvances ==
  ASSUME NEW p, Here(p), Set(p, Raised(run[p])), run[p].pc \notin Ended,
         files'.opened = files.opened, files'.requests = files.requests,
         files'.tmp = files.tmp, files'.lifecycle = files.lifecycle,
         files'.sessions = files.sessions \/ run[p].pc \in {"partial", "sessions"},
         files'.meta = files.meta \/ (run[p].pc = "meta" /\ files'.meta = Torn),
         ~run[p].named => files' = files
  PROVE  Advances(p)
<1>1. run[p] \in Locals
  BY DEF Here, CliInv
<1> DEFINE r == Raised(run[p])
<1>2. r \in Locals /\ Kept(run[p], r) /\ r.pc \in Ended /\ r.exit \notin {0, 3}
  BY <1>1, RaisedKept DEF Ended
<1>3. run' = [run EXCEPT ![p] = r]
  BY DEF Set
<1> HIDE DEF r
<1> QED
  BY <1>2, <1>3, Ends

LEMMA RaiseAloneAdvances ==
  ASSUME NEW p, Here(p), Set(p, Raised(run[p])), run[p].pc \notin Ended, UNCHANGED files
  PROVE  Advances(p)
BY RaiseAdvances

LEMMA PlaceKept ==
  ASSUME NEW s \in Locals, NEW pc \in Places
  PROVE  /\ [s EXCEPT !.pc = pc] \in Locals /\ Kept(s, [s EXCEPT !.pc = pc])
         /\ [s EXCEPT !.pc = pc].pc = pc /\ [s EXCEPT !.pc = pc].exit = s.exit
<1>1. [s EXCEPT !.pc = pc] \in Locals
  BY PlaceTyped
<1>2. /\ Kept(s, [s EXCEPT !.pc = pc])
      /\ [s EXCEPT !.pc = pc].pc = pc /\ [s EXCEPT !.pc = pc].exit = s.exit
  BY DEF Locals, Kept
<1> QED
  BY <1>1, <1>2

LEMMA PartAppendedOnly ==
  ASSUME CliInv, NEW p, AppendPart(p)
  PROVE  /\ files'.opened = files.opened /\ files'.requests = files.requests
         /\ files'.tmp = files.tmp /\ files'.lifecycle = files.lifecycle
         /\ files'.meta = files.meta
<1>1. IsFiles(files)
  BY DEF CliInv
<1>2. PICK sessions : files' = [files EXCEPT !.sessions = sessions]
  BY DEF AppendPart, AppendSessions, Store
<1> QED
  BY <1>1, <1>2, SessionsOnly

LEMMA TornOnly ==
  ASSUME CliInv, Store([files EXCEPT !.meta = Torn])
  PROVE  /\ files'.opened = files.opened /\ files'.requests = files.requests
         /\ files'.tmp = files.tmp /\ files'.lifecycle = files.lifecycle
         /\ files'.sessions = files.sessions /\ files'.meta = Torn
BY MetaOnly DEF CliInv, Store

\* A write of the line, whole or not, and the place it leaves the run at.
LEMMA WritesAdvance ==
  ASSUME NEW p, Here(p), Wrote(p), run[p].pc = "write",
         NEW r \in Locals, run' = [run EXCEPT ![p] = r],
         r.pc \in {"charge", "partial", "killed"}, r.named, Local(r), r.after # "merge",
         r.exit = NoExit, r.records = run[p].records
  PROVE  Advances(p)
<1>1. /\ p \in Runs /\ run \in [Runs -> Locals] /\ run[p] \in Locals
      /\ Local(run[p]) /\ Told(p, run[p], files) /\ run[p].records \in Nat
  BY DEF Here, CliInv, Locals
<1>2. /\ run[p].named /\ run[p].level # "completed" /\ run[p].after = "generate"
  BY <1>1 DEF Local, Ended
<1> DEFINE line == LastLine(p)
<1>3. line = <<p, run[p].records>> /\ line[1] = p
  BY DEF LastLine
<1> HIDE DEF line
<1>4. /\ files'.requests \in {files.requests, files.requests \cup {line}}
      /\ files'.opened = files.opened /\ files'.sessions = files.sessions
      /\ files'.tmp = files.tmp /\ files'.lifecycle = files.lifecycle
      /\ files'.meta = files.meta
  BY DEF Wrote, line
<1>5. Readable(files.meta) => files.meta.by # p
  BY <1>1, <1>2 DEF Told
<1>6. Told(p, r, files')
  BY <1>4, <1>5 DEF Told
<1>7. ASSUME Sole(p, run[p], files) PROVE Sole(p, r, files')
  <2>1. /\ files'.meta = NoFile /\ files'.opened /\ files'.sessions = <<>>
        /\ ~(Exists(files'.tmp) /\ files'.tmp.level = "completed")
        /\ ~(Exists(files'.lifecycle) /\ files'.lifecycle.level = "completed")
    BY <1>2, <1>4, <1>7 DEF Sole, Reporting, Ended
  <2>2. \A l \in files'.requests : l[1] = p
    BY <1>3, <1>4, <1>7 DEF Sole
  <2> QED
    BY <2>1, <2>2, TornDiffers DEF Sole, Ended, Generated, Reporting, Saving, NoExit
<1>8. Numbers(run[p]) <= Numbers(r) /\ run[p].records <= Numbers(r)
  BY <1>1 DEF Numbers
<1>9. run'[p] = r /\ \A q \in Runs \ {p} : run'[q] = run[q]
  BY <1>1
<1>10. \/ files'.requests = files.requests
       \/ files'.requests = files.requests \cup {<<p, run[p].records>>}
  BY <1>3, <1>4
<1> QED
  BY <1>4, <1>6, <1>7, <1>8, <1>9, <1>10 DEF Advances

LEMMA KillAdvances ==
  ASSUME NEW p, Here(p), Kill(p)
  PROVE  Advances(p)
<1>1. CliInv /\ run[p] \in Locals /\ Local(run[p])
  BY DEF Here, CliInv
<1> DEFINE r == [run[p] EXCEPT !.pc = "killed"]
<1>2. r \in Locals /\ Kept(run[p], r) /\ r.pc \in Ended /\ r.exit = run[p].exit
  BY <1>1, PlaceKept DEF Places, Ended
<1>3. run' = [run EXCEPT ![p] = r] /\ run[p].pc \notin Ended
  BY DEF Kill, Goto, Set
<1> HIDE DEF r
<1>4. r.exit \notin {0, 3}
  BY <1>2, <1>3 DEF Here, CliInv, Good, PlaceOK, Ended, NoExit
<1>5. CASE UNCHANGED files
  BY <1>2, <1>3, <1>4, <1>5, Ends
<1>6. CASE run[p].pc \in {"partial", "sessions"} /\ AppendPart(p)
  <2>1. run[p].named
    BY <1>1, <1>6 DEF Local, Ended
  <2> QED
    BY <1>1, <1>2, <1>3, <1>4, <1>6, <2>1, PartAppendedOnly, Ends
<1>7. CASE At(p, "meta") /\ Store([files EXCEPT !.meta = Torn])
  <2>1. run[p].pc = "meta" /\ run[p].named
    BY <1>1, <1>7 DEF Local, Ended, At
  <2> QED
    BY <1>1, <1>2, <1>3, <1>4, <1>7, <2>1, TornOnly, Ends
<1>8. CASE WritePart(p)
  <2>1. Wrote(p) /\ run[p].pc = "write"
    BY <1>1, <1>8, PartWrote DEF Here
  <2>2. run[p].named /\ run[p].after = "generate" /\ run[p].exit = NoExit
    BY <1>1, <2>1 DEF Local, Ended, Here, CliInv, Good, PlaceOK
  <2>3. r.pc = "killed"
    BY <1>1, PlaceKept DEF r, Places
  <2>4. Local(r) /\ r.named /\ r.after # "merge" /\ r.records = run[p].records
    BY <1>1, <1>2, <2>2 DEF Local, Kept, Ended, Generated
  <2> QED
    BY <1>2, <1>3, <2>1, <2>2, <2>3, <2>4, WritesAdvance
<1> QED
  BY <1>5, <1>6, <1>7, <1>8 DEF Kill

LEMMA RejectAdvances ==
  ASSUME NEW p, Here(p), RejectOptions(p)
  PROVE  Advances(p)
<1>1. run[p] \in Locals /\ run[p].pc = "options" /\ UNCHANGED files
  BY DEF Here, CliInv, RejectOptions, At
<1>2. PICK exit \in {1, 2} :
        run' = [run EXCEPT ![p] = [run[p] EXCEPT !.pc = "exited", !.exit = exit]]
  BY DEF RejectOptions, Set
<1> DEFINE r == [run[p] EXCEPT !.pc = "exited", !.exit = exit]
<1>3. "exited" \in Places /\ exit \in Int
  BY DEF Places
<1>4. r \in Locals
  BY <1>1, <1>3, ExitTyped, Zenon
<1>5. Kept(run[p], r) /\ r.pc \in Ended /\ r.exit \notin {0, 3}
  BY <1>1 DEF Locals, Kept, Ended
<1>6. run' = [run EXCEPT ![p] = r]
  BY <1>2
<1> HIDE DEF r
<1>7. run[p].pc \notin Ended
  BY <1>1 DEF Ended
<1> QED
  BY <1>1, <1>4, <1>5, <1>6, <1>7, Ends

\* A zero cap is on record before anything is calibrated or generated.
LEMMA NameAdvances ==
  ASSUME NEW p, Here(p), NameRun(p)
  PROVE  Advances(p)
<1>1. /\ run \in [Runs -> Locals] /\ p \in Runs
      /\ run[p] \in Locals /\ run[p].pc = "options" /\ UNCHANGED files
      /\ run[p].exit = NoExit
  BY DEF Here, CliInv, NameRun, At, Good, PlaceOK
<1>2. CASE ~CapAccepted(run[p].options)
  <2> DEFINE r == [run[p] EXCEPT !.pc = "exited", !.exit = 2]
  <2>1. run' = [run EXCEPT ![p] = r]
    BY <1>2 DEF NameRun, Set
  <2>2. "exited" \in Places /\ 2 \in Int
    BY DEF Places
  <2>3. r \in Locals
    BY <1>1, <2>2, ExitTyped, Zenon
  <2>4. Kept(run[p], r) /\ r.pc \in Ended /\ r.exit \notin {0, 3}
    BY <1>1 DEF Locals, Kept, Ended
  <2> HIDE DEF r
  <2>5. run[p].pc \notin Ended
    BY <1>1 DEF Ended
  <2> QED
    BY <1>1, <2>1, <2>3, <2>4, <2>5, Ends
<1>3. CASE CapAccepted(run[p].options)
  <2> DEFINE calibrated == Calibrates(run[p].options)
             r == [run[p] EXCEPT !.pc = "open", !.named = TRUE, !.calibrated = calibrated]
  <2>1. run' = [run EXCEPT ![p] = r]
    BY <1>3 DEF NameRun, Set
  <2>2. calibrated => run[p].options.cap = NoCap
    BY DEF Calibrates
  <2> HIDE DEF calibrated
  <2>3. /\ r.pc = "open" /\ r.named = TRUE /\ r.calibrated = calibrated
        /\ r.options = run[p].options /\ r.records = run[p].records /\ r.stop = run[p].stop
        /\ r.level = run[p].level /\ r.status = run[p].status /\ r.after = run[p].after
        /\ r.exit = run[p].exit /\ r.done = run[p].done /\ r.cut = run[p].cut
        /\ r.charged = run[p].charged /\ r.final = run[p].final
    BY <1>1 DEF Locals
  <2> HIDE DEF r
  <2>4. Local(run[p]) /\ Told(p, run[p], files) /\ ~run[p].named /\ run[p].after = "generate"
    BY <1>1 DEF Here, Local
  <2>5. Local(r)
    BY <1>1, <2>2, <2>3, <2>4 DEF Local, Ended, Generated
  <2>6. Told(p, r, files)
    BY <2>3, <2>4 DEF Told
  <2>7. ASSUME Sole(p, run[p], files) PROVE Sole(p, r, files)
    <3>1. Unwritten(files)
      BY <2>4, <2>7 DEF Sole
    <3>2. files.meta = NoFile /\ files.requests = {} /\ files.tmp = NoFile
          /\ files.lifecycle = NoFile
      BY <3>1 DEF Unwritten
    <3> QED
      BY <1>1, <2>3, <3>1, <3>2, TornDiffers
         DEF Sole, Exists, Ended, Generated, Reporting, Saving, NoExit
  <2>8. Numbers(run[p]) <= Numbers(r)
    BY <1>1, <2>3 DEF Numbers, Locals
  <2>9. run'[p] = r /\ \A q \in Runs \ {p} : run'[q] = run[q]
    BY <1>1, <2>1
  <2> QED
    BY <1>1, <2>3, <2>4, <2>5, <2>6, <2>7, <2>8, <2>9 DEF Advances
<1> QED
  BY <1>2, <1>3

LEMMA OpenAdvances ==
  ASSUME NEW p, Here(p), OpenRequests(p)
  PROVE  Advances(p)
<1>1. /\ run[p] \in Locals /\ run[p].pc = "open" /\ IsFiles(files) /\ p \in Runs
      /\ run[p].exit = NoExit
  BY DEF Here, CliInv, OpenRequests, At, Good, PlaceOK
<1>2. CASE Set(p, Raised(run[p])) /\ UNCHANGED files
  BY <1>1, <1>2, RaiseAloneAdvances DEF Ended
<1>3. CASE Store([files EXCEPT !.opened = TRUE]) /\ Goto(p, "save")
  <2> DEFINE r == [run[p] EXCEPT !.pc = "save"]
  <2>1. r \in Locals /\ Kept(run[p], r) /\ r.pc = "save" /\ r.exit = NoExit
    BY <1>1, PlaceKept DEF Places
  <2>2. run' = [run EXCEPT ![p] = r]
    BY <1>3 DEF Goto, Set
  <2> HIDE DEF r
  <2>3. /\ files'.opened = TRUE /\ files'.requests = files.requests
        /\ files'.sessions = files.sessions /\ files'.tmp = files.tmp
        /\ files'.lifecycle = files.lifecycle /\ files'.meta = files.meta
    BY <1>1, <1>3, OpenedOnly DEF Store
  <2>4. Local(run[p]) /\ r.named
    BY <1>1, <2>1 DEF Here, Local, Ended, Kept
  <2>5. Local(r)
    BY <1>1, <2>1, <2>4 DEF Local, Kept, Ended, Generated
  <2>6. ASSUME Sole(p, run[p], files) PROVE Sole(p, r, files')
    <3>1. Unwritten(files)
      BY <1>1, <2>6 DEF Sole
    <3>2. files'.meta = NoFile /\ files'.requests = {} /\ files'.tmp = NoFile
          /\ files'.lifecycle = NoFile /\ files'.sessions = <<>>
      BY <2>3, <3>1 DEF Unwritten
    <3> QED
      BY <2>1, <2>3, <2>4, <3>2, TornDiffers
         DEF Sole, Exists, Ended, Generated, Reporting, Saving, NoExit
  <2> QED
    BY <2>1, <2>2, <2>3, <2>4, <2>5, <2>6, Moves
<1> QED
  BY <1>2, <1>3 DEF OpenRequests

LEMMA TemporaryAdvances ==
  ASSUME NEW p, Here(p), WriteTemporary(p)
  PROVE  Advances(p)
<1>1. /\ run[p] \in Locals /\ run[p].pc = "save" /\ IsFiles(files) /\ p \in Runs
      /\ run[p].exit = NoExit /\ Local(run[p])
  BY DEF Here, CliInv, WriteTemporary, At, Good, PlaceOK
<1>2. CASE SaveFails(p) /\ UNCHANGED files
  BY <1>1, <1>2, RaiseAloneAdvances DEF Ended, SaveFails
<1>3. CASE Store([files EXCEPT !.tmp = Snapshot(p)]) /\ Goto(p, "replace")
  <2> DEFINE r == [run[p] EXCEPT !.pc = "replace"]
  <2>1. r \in Locals /\ Kept(run[p], r) /\ r.pc = "replace" /\ r.exit = NoExit
    BY <1>1, PlaceKept DEF Places
  <2>2. run' = [run EXCEPT ![p] = r]
    BY <1>3 DEF Goto, Set
  <2> HIDE DEF r
  <2>3. Snap(p, r) = Snap(p, run[p]) /\ Meta(p, r) = Meta(p, run[p])
    BY <2>1, SnapKept
  <2>4. /\ files'.tmp = Snap(p, r)
        /\ files'.opened = files.opened /\ files'.requests = files.requests
        /\ files'.sessions = files.sessions
        /\ files'.lifecycle = files.lifecycle /\ files'.meta = files.meta
    BY <1>1, <1>3, <2>3, SnapshotIs, TemporaryOnly DEF Store
  <2>5. Snap(p, r).level = r.level
    BY DEF Snap
  <2>6. Local(r) /\ r.named
    BY <1>1, <2>1 DEF Local, Kept, Ended, Generated
  <2>7. ASSUME Sole(p, run[p], files) PROVE Sole(p, r, files')
    <3>1. /\ files'.meta = NoFile /\ files'.opened
          /\ \A line \in files'.requests : line[1] = p
          /\ Exists(files'.lifecycle) /\ files'.lifecycle.level = "completed" =>
               r.level = "completed"
      BY <1>1, <2>1, <2>4, <2>7 DEF Sole, Reporting, Ended, Kept
    <3>2. r.after # "raise" => files'.sessions = <<>>
      BY <1>1, <2>1, <2>4, <2>7 DEF Sole, Saving, Kept
    <3> QED
      BY <2>1, <2>4, <2>5, <2>6, <3>1, <3>2, TornDiffers
         DEF Sole, Ended, Generated, Reporting, Saving, NoExit
  <2> QED
    BY <2>1, <2>2, <2>4, <2>6, <2>7, Moves
<1> QED
  BY <1>2, <1>3 DEF WriteTemporary

LEMMA ReplaceAdvances ==
  ASSUME NEW p, Here(p), ReplaceLifecycle(p)
  PROVE  Advances(p)
<1>1. /\ run[p] \in Locals /\ run[p].pc = "replace" /\ IsFiles(files) /\ p \in Runs
      /\ run[p].exit = NoExit /\ Local(run[p])
  BY DEF Here, CliInv, ReplaceLifecycle, At, Good, PlaceOK
<1>2. CASE SaveFails(p) /\ UNCHANGED files
  BY <1>1, <1>2, RaiseAloneAdvances DEF Ended, SaveFails
<1>3. CASE /\ Store([files EXCEPT !.lifecycle = files.tmp, !.tmp = NoFile])
           /\ Set(p, AfterSave(p))
  <2>1. PICK pc \in {"generate", "merge", "exited"}, exit \in {1, NoExit}, r \in Locals :
          /\ run' = [run EXCEPT ![p] = r] /\ Kept(run[p], r) /\ r.pc = pc /\ r.exit = exit
          /\ pc # "exited" => pc = run[p].after
    <3>1. CASE run[p].after = "raise"
      BY <1>1, <1>3, <3>1, RaisedKept DEF AfterSave, Set
    <3>2. CASE run[p].after # "raise"
      <4>1. run[p].after \in {"generate", "merge"} /\ run[p].after \in Places
        BY <1>1, <3>2 DEF Locals, Afters, Places
      <4> DEFINE w == [run[p] EXCEPT !.pc = run[p].after]
      <4>2. run' = [run EXCEPT ![p] = w]
        BY <1>3, <3>2 DEF AfterSave, Set
      <4>3. w \in Locals /\ Kept(run[p], w) /\ w.pc = run[p].after /\ w.exit = NoExit
        BY <1>1, <4>1, PlaceKept
      <4> HIDE DEF w
      <4> QED
        BY <4>1, <4>2, <4>3
    <3> QED
      BY <3>1, <3>2
  <2>2. files' = Moved(files, files.tmp, NoFile)
    BY <1>3 DEF Store, Moved
  <2>3. /\ files'.lifecycle = files.tmp /\ files'.tmp = NoFile
        /\ files'.opened = files.opened /\ files'.requests = files.requests
        /\ files'.sessions = files.sessions /\ files'.meta = files.meta
    BY <1>1, <2>2, MovedOnly
  <2>4. Snap(p, r) = Snap(p, run[p]) /\ Meta(p, r) = Meta(p, run[p])
    BY <2>1, SnapKept
  <2>5. Local(r) /\ r.named
    BY <1>1, <2>1 DEF Local, Kept, Ended, Generated
  <2>6. ASSUME Sole(p, run[p], files) PROVE Sole(p, r, files')
    <3>1. /\ files'.meta = NoFile /\ files'.opened
          /\ \A line \in files'.requests : line[1] = p
          /\ files'.lifecycle = Snap(p, r) /\ ~Exists(files'.tmp)
      BY <1>1, <2>3, <2>4, <2>6 DEF Sole, Reporting, Ended, Exists
    <3>2. r.pc # "exited" => files'.sessions = <<>>
      BY <1>1, <2>1, <2>3, <2>6 DEF Sole, Saving
    <3>3. Snap(p, r).level = r.level
      BY DEF Snap
    <3> QED
      BY <2>1, <2>5, <3>1, <3>2, <3>3, TornDiffers
         DEF Sole, Ended, Generated, Reporting, Saving, NoExit
  <2> QED
    BY <2>1, <2>3, <2>5, <2>6, Moves
<1> QED
  BY <1>2, <1>3 DEF ReplaceLifecycle

LEMMA RecordAdvances ==
  ASSUME NEW p, Here(p), WriteRecord(p)
  PROVE  Advances(p)
<1>1. /\ run[p] \in Locals /\ run[p].pc = "write" /\ run[p].exit = NoExit
      /\ Local(run[p]) /\ CliInv /\ p \in Runs
  BY DEF Here, CliInv, WriteRecord, At, Good, PlaceOK
<1> DEFINE r == [run[p] EXCEPT !.pc = "charge"]
<1>2. r \in Locals /\ Kept(run[p], r) /\ r.pc = "charge" /\ r.exit = NoExit
  BY <1>1, PlaceKept DEF Places
<1>3. run' = [run EXCEPT ![p] = r]
  BY DEF WriteRecord, Goto, Set
<1> HIDE DEF r
<1>4. Local(r) /\ r.named /\ r.after # "merge" /\ r.records = run[p].records
  BY <1>1, <1>2 DEF Local, Kept, Ended, Generated
<1>5. Wrote(p)
  BY <1>1, FlushedWrote DEF WriteRecord
<1> QED
  BY <1>1, <1>2, <1>3, <1>4, <1>5, WritesAdvance

LEMMA PartialAdvances ==
  ASSUME NEW p, Here(p), SavePartialSessions(p)
  PROVE  Advances(p)
<1>1. /\ CliInv /\ run[p] \in Locals /\ run[p].pc = "partial" /\ IsFiles(files) /\ p \in Runs
      /\ run[p].exit = NoExit /\ Local(run[p])
  BY DEF Here, CliInv, SavePartialSessions, At, Good, PlaceOK
<1>2. run[p].named
  BY <1>1 DEF Local, Ended
<1>3. CASE UNCHANGED files /\ Set(p, Raised(run[p]))
  BY <1>1, <1>3, RaiseAloneAdvances DEF Ended
<1>4. CASE AppendPart(p) /\ Set(p, Raised(run[p]))
  BY <1>1, <1>2, <1>4, PartAppendedOnly, RaiseAdvances DEF Ended
<1>5. CASE AppendSessions(p, Summaries(p), FALSE) /\ Goto(p, "save")
  <2> DEFINE r == [run[p] EXCEPT !.pc = "save"]
  <2>1. r \in Locals /\ Kept(run[p], r) /\ r.pc = "save" /\ r.exit = NoExit
    BY <1>1, PlaceKept DEF Places
  <2>2. run' = [run EXCEPT ![p] = r]
    BY <1>5 DEF Goto, Set
  <2> HIDE DEF r
  <2>3. PICK sessions : files' = [files EXCEPT !.sessions = sessions]
    BY <1>5 DEF AppendSessions, Store
  <2>4. /\ files'.opened = files.opened /\ files'.requests = files.requests
        /\ files'.tmp = files.tmp /\ files'.lifecycle = files.lifecycle
        /\ files'.meta = files.meta
    BY <1>1, <2>3, SessionsOnly
  <2>5. Local(r) /\ r.named /\ r.after = "raise"
    BY <1>1, <1>2, <2>1 DEF Local, Kept, Ended, Generated
  <2>6. ASSUME Sole(p, run[p], files) PROVE Sole(p, r, files')
    <3>1. /\ files'.meta = NoFile /\ files'.opened
          /\ \A line \in files'.requests : line[1] = p
          /\ Exists(files'.tmp) /\ files'.tmp.level = "completed" => r.level = "completed"
          /\ Exists(files'.lifecycle) /\ files'.lifecycle.level = "completed" =>
               r.level = "completed"
      BY <1>1, <2>1, <2>4, <2>6 DEF Sole, Reporting, Ended, Kept
    <3> QED
      BY <2>1, <2>5, <3>1, TornDiffers DEF Sole, Ended, Generated, Reporting, Saving, NoExit
  <2> QED
    BY <2>1, <2>2, <2>4, <2>5, <2>6, Moves
<1> QED
  BY <1>3, <1>4, <1>5 DEF SavePartialSessions

\* The sessions of a run alone are one batch, in a file that was empty.
LEMMA SessionsAdvance ==
  ASSUME NEW p, Here(p), WriteSessions(p)
  PROVE  Advances(p)
<1>1. /\ CliInv /\ run[p] \in Locals /\ run[p].pc = "sessions" /\ IsFiles(files) /\ p \in Runs
      /\ run[p].exit = NoExit /\ Local(run[p]) /\ run[p].final = TRUE
  BY DEF Here, CliInv, WriteSessions, At, Good, PlaceOK, Locals, Generated
<1>2. run[p].named
  BY <1>1 DEF Local, Ended
<1>3. CASE UNCHANGED files /\ Set(p, SessionsNotWritten(p))
  BY <1>1, <1>3, RaiseAloneAdvances DEF Ended, SessionsNotWritten
<1>4. CASE AppendPart(p) /\ Set(p, SessionsNotWritten(p))
  BY <1>1, <1>2, <1>4, PartAppendedOnly, RaiseAdvances DEF Ended, SessionsNotWritten
<1>5. CASE AppendSessions(p, Summaries(p), FALSE) /\ Goto(p, "meta")
  <2> DEFINE r == [run[p] EXCEPT !.pc = "meta"]
  <2>1. r \in Locals /\ Kept(run[p], r) /\ r.pc = "meta" /\ r.exit = NoExit
    BY <1>1, PlaceKept DEF Places
  <2>2. run' = [run EXCEPT ![p] = r]
    BY <1>5 DEF Goto, Set
  <2> HIDE DEF r
  <2> DEFINE b == Batch(p, r.done + r.cut, TRUE, FALSE)
             sessions == Append(files.sessions, b)
  <2>3. files' = [files EXCEPT !.sessions = sessions]
    <3>1. Summaries(p) = r.done + r.cut
      BY <1>1, <2>1, SummariesTyped DEF Kept
    <3> QED
      BY <1>1, <1>5, <3>1 DEF AppendSessions, Store
  <2>4. files.sessions = <<>> => sessions = <<b>>
    OBVIOUS
  <2> HIDE DEF sessions
  <2>5. /\ files'.sessions = sessions
        /\ files'.opened = files.opened /\ files'.requests = files.requests
        /\ files'.tmp = files.tmp /\ files'.lifecycle = files.lifecycle
        /\ files'.meta = files.meta
    BY <1>1, <2>3, SessionsOnly
  <2>6. Local(r) /\ r.named /\ r.after = "merge" /\ r.final
    BY <1>1, <1>2, <2>1 DEF Local, Kept, Ended, Generated
  <2>7. Snap(p, r) = Snap(p, run[p])
    BY <2>1, SnapKept
  <2>8. ASSUME Sole(p, run[p], files) PROVE Sole(p, r, files')
    <3>1. /\ files'.meta = NoFile /\ files'.opened
          /\ \A line \in files'.requests : line[1] = p
          /\ Exists(files'.tmp) /\ files'.tmp.level = "completed" => r.level = "completed"
          /\ Exists(files'.lifecycle) /\ files'.lifecycle.level = "completed" =>
               r.level = "completed"
      BY <1>1, <2>1, <2>5, <2>8 DEF Sole, Reporting, Ended, Kept
    <3>2. files'.lifecycle = Snap(p, r) /\ files'.sessions = <<b>>
      BY <1>1, <2>4, <2>5, <2>7, <2>8 DEF Sole, Generated
    <3>3. Complete(p, r, files')
      BY <2>6, <3>1, <3>2 DEF Complete
    <3> HIDE DEF b
    <3> QED
      BY <2>1, <2>6, <3>1, <3>2, <3>3, TornDiffers
         DEF Sole, Ended, Generated, Reporting, Saving, NoExit
  <2> QED
    BY <2>1, <2>2, <2>5, <2>6, <2>8, Moves
<1> QED
  BY <1>3, <1>4, <1>5 DEF WriteSessions

\* With the metadata everything they stand for is there.
LEMMA MetaAdvances ==
  ASSUME NEW p, Here(p), WriteMeta(p)
  PROVE  Advances(p)
<1>1. /\ CliInv /\ run[p] \in Locals /\ run[p].pc = "meta" /\ IsFiles(files) /\ p \in Runs
      /\ run[p].exit = NoExit /\ Local(run[p])
  BY DEF Here, CliInv, WriteMeta, At, Good, PlaceOK
<1>2. run[p].named
  BY <1>1 DEF Local, Ended
<1>3. CASE UNCHANGED files /\ Set(p, Raised(run[p]))
  BY <1>1, <1>3, RaiseAloneAdvances DEF Ended
<1>4. CASE Store([files EXCEPT !.meta = Torn]) /\ Set(p, Raised(run[p]))
  BY <1>1, <1>2, <1>4, TornOnly, RaiseAdvances DEF Ended
<1>5. CASE Store([files EXCEPT !.meta = Metadata(p)]) /\ Goto(p, "readback")
  <2> DEFINE r == [run[p] EXCEPT !.pc = "readback"]
  <2>1. r \in Locals /\ Kept(run[p], r) /\ r.pc = "readback" /\ r.exit = NoExit
    BY <1>1, PlaceKept DEF Places
  <2>2. run' = [run EXCEPT ![p] = r]
    BY <1>5 DEF Goto, Set
  <2> HIDE DEF r
  <2>3. Snap(p, r) = Snap(p, run[p]) /\ Meta(p, r) = Meta(p, run[p])
    BY <2>1, SnapKept
  <2>4. /\ files'.meta = Meta(p, r)
        /\ files'.opened = files.opened /\ files'.requests = files.requests
        /\ files'.sessions = files.sessions
        /\ files'.tmp = files.tmp /\ files'.lifecycle = files.lifecycle
    BY <1>1, <1>5, <2>3, SnapshotIs, MetaOnly DEF Store
  <2>5. Local(r) /\ r.named /\ r.after = "merge"
    BY <1>1, <1>2, <2>1 DEF Local, Kept, Ended, Generated
  <2>6. ASSUME Sole(p, run[p], files) PROVE Sole(p, r, files')
    <3>1. /\ files'.opened /\ \A line \in files'.requests : line[1] = p
          /\ Exists(files'.tmp) /\ files'.tmp.level = "completed" => r.level = "completed"
          /\ Exists(files'.lifecycle) /\ files'.lifecycle.level = "completed" =>
               r.level = "completed"
      BY <1>1, <2>1, <2>4, <2>6 DEF Sole, Ended, Kept
    <3>2. Complete(p, run[p], files)
      BY <1>1, <2>6 DEF Sole
    <3>3. Complete(p, r, files')
      BY <2>1, <2>3, <2>4, <3>2 DEF Complete, Kept
    <3>4. files'.lifecycle = Snap(p, r)
      BY <3>3 DEF Complete
    <3> QED
      BY <2>1, <2>4, <2>5, <3>1, <3>3, <3>4
         DEF Sole, Ended, Generated, Reporting, Saving, NoExit
  <2> QED
    BY <2>1, <2>2, <2>4, <2>5, <2>6, Moves
<1> QED
  BY <1>3, <1>4, <1>5 DEF WriteMeta

\* From the metadata to the exit code only the report is written.
LEMMA ReportingAdvances ==
  ASSUME NEW p, Here(p), NEW r \in Locals, run' = [run EXCEPT ![p] = r],
         Kept(run[p], r), run[p].pc \in Reporting, r.pc \in Reporting, r.exit = NoExit,
         Beside(files, files')
  PROVE  Advances(p)
<1>1. Local(run[p])
  BY DEF Here
<1>2. Local(r) /\ r.named /\ r.after = "merge"
  BY <1>1 DEF Local, Kept, Ended, Generated, Reporting
<1>3. Snap(p, r) = Snap(p, run[p]) /\ Meta(p, r) = Meta(p, run[p])
  BY SnapKept
<1>4. ASSUME Sole(p, run[p], files) PROVE Sole(p, r, files')
  <2>1. /\ files'.opened /\ \A line \in files'.requests : line[1] = p
        /\ Exists(files'.tmp) /\ files'.tmp.level = "completed" => r.level = "completed"
        /\ Exists(files'.lifecycle) /\ files'.lifecycle.level = "completed" =>
             r.level = "completed"
        /\ files'.meta = Meta(p, r) /\ files'.lifecycle = Snap(p, r)
    BY <1>3, <1>4 DEF Sole, Beside, Ended, Kept, Reporting, Generated
  <2>2. Readable(files'.meta) => Complete(p, r, files')
    BY <1>3, <1>4 DEF Sole, Complete, Kept, Beside
  <2> QED
    BY <1>2, <2>1, <2>2 DEF Sole, Ended, Generated, Reporting, Saving, NoExit
<1>5. r.pc # "write"
  BY DEF Reporting
<1> QED
  BY <1>2, <1>4, <1>5, Moves DEF Beside

LEMMA ReadMetaAdvances ==
  ASSUME NEW p, Here(p), ReadMeta(p)
  PROVE  Advances(p)
<1>1. /\ run[p] \in Locals /\ run[p].pc = "readback" /\ files.meta \in Metas
      /\ run[p].exit = NoExit /\ UNCHANGED files
  BY DEF Here, CliInv, ReadMeta, At, Good, PlaceOK, IsFiles, FilesOf
<1>2. CASE files.meta = Torn
  <2>1. Set(p, Raised(run[p]))
    BY <1>2 DEF ReadMeta
  <2> QED
    BY <1>1, <2>1, RaiseAloneAdvances DEF Ended
<1>3. CASE files.meta # Torn
  <2> DEFINE r == [run[p] EXCEPT !.meta = files.meta, !.pc = "report"]
  <2>1. run' = [run EXCEPT ![p] = r]
    BY <1>3 DEF ReadMeta, Set
  <2>2. "report" \in Places
    BY DEF Places
  <2>3. r \in Locals
    BY <1>1, <2>2, MetaTyped, Zenon
  <2>4. Kept(run[p], r) /\ r.pc = "report" /\ r.exit = NoExit
    BY <1>1 DEF Locals, Kept
  <2> HIDE DEF r
  <2>5. run[p].pc \in Reporting /\ r.pc \in Reporting /\ Beside(files, files')
    BY <1>1, <2>4 DEF Reporting, Beside
  <2> QED
    BY <2>1, <2>3, <2>4, <2>5, ReportingAdvances
<1> QED
  BY <1>2, <1>3

LEMMA ReportAdvances ==
  ASSUME NEW p, Here(p), WriteReport(p)
  PROVE  Advances(p)
<1>1. /\ run[p] \in Locals /\ run[p].pc = "report" /\ IsFiles(files)
      /\ run[p].exit = NoExit
  BY DEF Here, CliInv, WriteReport, At, Good, PlaceOK
<1>2. CASE UNCHANGED files /\ Set(p, Raised(run[p]))
  BY <1>1, <1>2, RaiseAloneAdvances DEF Ended
<1>3. CASE Store([files EXCEPT !.report = RunReport(p)]) /\ Goto(p, "slo")
  <2> DEFINE r == [run[p] EXCEPT !.pc = "slo"]
  <2>1. r \in Locals /\ Kept(run[p], r) /\ r.pc = "slo" /\ r.exit = NoExit
    BY <1>1, PlaceKept DEF Places
  <2>2. run' = [run EXCEPT ![p] = r]
    BY <1>3 DEF Goto, Set
  <2> HIDE DEF r
  <2>3. Beside(files, files')
    BY <1>1, <1>3, ReportOnly DEF Store, Beside
  <2>4. run[p].pc \in Reporting /\ r.pc \in Reporting
    BY <1>1, <2>1 DEF Reporting
  <2> QED
    BY <2>1, <2>2, <2>3, <2>4, ReportingAdvances
<1> QED
  BY <1>2, <1>3 DEF WriteReport

LEMMA SloAdvances ==
  ASSUME NEW p, Here(p), EvaluateSlo(p)
  PROVE  Advances(p)
<1>1. run[p] \in Locals /\ run[p].pc = "slo" /\ UNCHANGED files
  BY DEF Here, CliInv, EvaluateSlo, At
<1>2. PICK exit \in {0, 1, 3} :
        run' = [run EXCEPT ![p] = [run[p] EXCEPT !.pc = "exited", !.exit = exit]]
  BY DEF EvaluateSlo, Set, ExitCode
<1> DEFINE r == [run[p] EXCEPT !.pc = "exited", !.exit = exit]
<1>3. "exited" \in Places /\ exit \in Int
  BY DEF Places
<1>4. r \in Locals
  BY <1>1, <1>3, ExitTyped, Zenon
<1>5. Kept(run[p], r) /\ r.pc \in Ended
  BY <1>1 DEF Locals, Kept, Ended
<1>6. run' = [run EXCEPT ![p] = r]
  BY <1>2
<1> HIDE DEF r
<1>7. run[p].pc \notin Ended
  BY <1>1 DEF Ended
<1> QED
  BY <1>1, <1>4, <1>5, <1>6, <1>7, Ends

-----------------------------------------------------------------------------
(* Steps that record something *)

\* What such a step changes is not on disk yet, nor in the way of what is.
LEMMA Records ==
  ASSUME NEW p, Here(p), NEW r \in Locals, run' = [run EXCEPT ![p] = r], UNCHANGED files,
         run[p].named, r.named, Local(r),
         Numbers(run[p]) <= Numbers(r),
         r.after = "merge" => Written(files, p) = r.records,
         run[p].after # "merge" \/ (r.after = "merge" /\ r.options = run[p].options),
         Sole(p, run[p], files) => Sole(p, r, files)
  PROVE  Advances(p)
<1>1. p \in Runs /\ run \in [Runs -> Locals] /\ Told(p, run[p], files)
  BY DEF Here, CliInv
<1>2. run'[p] = r /\ \A q \in Runs \ {p} : run'[q] = run[q]
  BY <1>1
<1>3. Told(p, r, files)
  BY <1>1 DEF Told
<1> QED
  BY <1>2, <1>3 DEF Advances

\* Load generation, until it returns or raises.
Generating == {"generate", "write", "charge"}

LEMMA GenerationRecords ==
  ASSUME NEW p, Here(p), NEW r \in Locals, run' = [run EXCEPT ![p] = r], UNCHANGED files,
         run[p].pc \in Generating, r.named, Local(r), Numbers(run[p]) <= Numbers(r),
         r.after = "merge" => Written(files, p) = r.records,
         r.pc \in Generating \cup {"partial"} \/ (r.pc = "save" /\ r.after = "merge"),
         r.exit = NoExit
  PROVE  Advances(p)
<1>1. run[p].named /\ run[p].after = "generate" /\ run[p].level # "completed"
  BY DEF Here, Local, Generating, Ended
<1>2. ASSUME Sole(p, run[p], files) PROVE Sole(p, r, files)
  <2>1. /\ files.meta = NoFile /\ files.opened /\ files.sessions = <<>>
        /\ \A line \in files.requests : line[1] = p
        /\ ~(Exists(files.tmp) /\ files.tmp.level = "completed")
        /\ ~(Exists(files.lifecycle) /\ files.lifecycle.level = "completed")
    BY <1>1, <1>2 DEF Sole, Generating, Reporting, Ended
  <2> QED
    BY <1>1, <2>1, TornDiffers
       DEF Sole, Generating, Ended, Generated, Reporting, Saving, NoExit
<1> QED
  BY <1>1, <1>2, Records

LEMMA StartAdvances ==
  ASSUME NEW p, Here(p), StartLevel(p)
  PROVE  Advances(p)
<1>1. /\ run[p] \in Locals /\ run[p].pc = "generate" /\ ~run[p].stop /\ UNCHANGED files
      /\ run[p].exit = NoExit /\ Local(run[p])
  BY DEF Here, CliInv, StartLevel, At, Good, PlaceOK
<1> DEFINE r == [run[p] EXCEPT !.level = "running"]
<1>2. run' = [run EXCEPT ![p] = r]
  BY DEF StartLevel, Set
<1>3. "running" \in Levels
  BY DEF Levels
<1>4. r \in Locals
  BY <1>1, <1>3, LevelTyped, Zenon
<1>5. /\ r.pc = run[p].pc /\ r.after = run[p].after /\ r.options = run[p].options
      /\ r.named = run[p].named /\ r.calibrated = run[p].calibrated
      /\ r.records = run[p].records /\ r.stop = run[p].stop /\ r.status = run[p].status
      /\ r.done = run[p].done /\ r.cut = run[p].cut /\ r.level = "running"
      /\ r.exit = run[p].exit
  BY <1>1 DEF Locals
<1> HIDE DEF r
<1>6. Local(r) /\ r.named /\ r.after = "generate"
  BY <1>1, <1>5 DEF Local, Ended, Generated
<1>7. Numbers(run[p]) <= Numbers(r)
  BY <1>1, <1>5 DEF Numbers, Locals
<1>8. run[p].pc \in Generating /\ r.pc \in Generating
  BY <1>1, <1>5 DEF Generating
<1> QED
  BY <1>1, <1>2, <1>4, <1>5, <1>6, <1>7, <1>8, GenerationRecords

LEMMA AttemptAdvances ==
  ASSUME NEW p, Here(p), AttemptCompletes(p)
  PROVE  Advances(p)
<1>1. /\ run[p] \in Locals /\ run[p].pc = "generate" /\ UNCHANGED files
      /\ run[p].exit = NoExit /\ Local(run[p]) /\ run[p].records \in Nat
  BY DEF Here, CliInv, AttemptCompletes, At, Good, PlaceOK, Locals
<1> DEFINE records == run[p].records + 1
           r == [run[p] EXCEPT !.records = records, !.pc = "write"]
<1>2. run' = [run EXCEPT ![p] = r]
  BY DEF AttemptCompletes, Set
<1>3. "write" \in Places /\ records \in Nat /\ records > 0 /\ records - 1 = run[p].records
  BY <1>1 DEF Places
<1> HIDE DEF records
<1>4. r \in Locals
  BY <1>1, <1>3, RecordTyped, Zenon
<1>5. /\ r.pc = "write" /\ r.after = run[p].after /\ r.options = run[p].options
      /\ r.named = run[p].named /\ r.calibrated = run[p].calibrated
      /\ r.records = records /\ r.stop = run[p].stop /\ r.status = run[p].status
      /\ r.done = run[p].done /\ r.cut = run[p].cut /\ r.level = run[p].level
      /\ r.exit = run[p].exit
  BY <1>1 DEF Locals
<1> HIDE DEF r
<1>6. Local(r) /\ r.named /\ r.after = "generate"
  BY <1>1, <1>3, <1>5 DEF Local, Ended, Generated
<1>7. Numbers(run[p]) <= Numbers(r)
  BY <1>1, <1>3, <1>5 DEF Numbers
<1>8. run[p].pc \in Generating /\ r.pc \in Generating
  BY <1>1, <1>5 DEF Generating
<1> QED
  BY <1>1, <1>2, <1>4, <1>5, <1>6, <1>7, <1>8, GenerationRecords

\* The cap is only reached by an attempt.
LEMMA ChargeAdvances ==
  ASSUME NEW p, Here(p), Charge(p)
  PROVE  Advances(p)
<1>1. /\ run[p] \in Locals /\ run[p].pc = "charge" /\ UNCHANGED files
      /\ run[p].exit = NoExit /\ Local(run[p])
      /\ run[p].records \in Nat /\ run[p].charged \in Nat /\ run[p].stop \in BOOLEAN
  BY DEF Here, CliInv, Charge, At, Good, PlaceOK, Locals
<1>2. run[p].records > 0
  <2>1. run[p].charged < Written(files, p) /\ Written(files, p) = run[p].records
    BY <1>1 DEF Here, CliInv, Good, RequestsOK
  <2> QED
    BY <1>1, <2>1
<1>3. PICK known \in BOOLEAN :
        run' = [run EXCEPT ![p] = [run[p] EXCEPT
          !.charged = run[p].charged + 1, !.pc = "generate",
          !.stop = @ \/ (run[p].options.cap # NoCap
                         /\ (known => run[p].charged + 1 >= run[p].options.cap))]]
  BY DEF Charge, Set
<1> DEFINE reached == run[p].options.cap # NoCap
                      /\ (known => run[p].charged + 1 >= run[p].options.cap)
           stop == run[p].stop \/ reached
           charged == run[p].charged + 1
           r == [run[p] EXCEPT !.charged = charged, !.pc = "generate", !.stop = stop]
<1>4. run' = [run EXCEPT ![p] = r]
  BY <1>3
<1>5. stop \in BOOLEAN /\ (run[p].stop => stop)
  BY <1>1
<1>6. charged \in Nat /\ "generate" \in Places
  BY <1>1 DEF Places
<1> HIDE DEF reached, stop, charged
<1>7. r \in Locals
  BY <1>1, <1>5, <1>6, ChargeTyped, Zenon
<1>8. /\ r.pc = "generate" /\ r.after = run[p].after /\ r.options = run[p].options
      /\ r.named = run[p].named /\ r.calibrated = run[p].calibrated
      /\ r.records = run[p].records /\ r.stop = stop /\ r.status = run[p].status
      /\ r.done = run[p].done /\ r.cut = run[p].cut /\ r.level = run[p].level
      /\ r.exit = run[p].exit
  BY <1>1 DEF Locals
<1> HIDE DEF r
<1>9. Local(r) /\ r.named /\ r.after = "generate"
  BY <1>1, <1>2, <1>5, <1>8 DEF Local, Ended, Generated
<1>10. Numbers(run[p]) <= Numbers(r)
  BY <1>1, <1>8 DEF Numbers
<1>11. run[p].pc \in Generating /\ r.pc \in Generating
  BY <1>1, <1>8 DEF Generating
<1> QED
  BY <1>1, <1>4, <1>7, <1>8, <1>9, <1>10, <1>11, GenerationRecords

\* Without a record only a cap of zero ends the generation, and no session.
LEMMA GenerationEndAdvances ==
  ASSUME NEW p, Here(p), GenerationEnds(p)
  PROVE  Advances(p)
<1>1. /\ run[p] \in Locals /\ run[p].pc = "generate" /\ UNCHANGED files
      /\ run[p].exit = NoExit /\ Local(run[p]) /\ run[p].records \in Nat
      /\ Written(files, p) = run[p].records /\ run[p].level \in Levels
  BY DEF Here, CliInv, GenerationEnds, At, Good, PlaceOK, RequestsOK, Locals
<1>2. PICK n \in Sessions(p) :
        /\ IF run[p].stop THEN n[2] > 0 => run[p].level = "running"
           ELSE n[1] > 0 /\ n[2] = 0
        /\ LET outcome == IF run[p].stop THEN "stopped" ELSE "completed"
           IN Set(p, [run[p] EXCEPT !.status = outcome, !.done = n[1], !.cut = n[2],
                        !.pc = "save", !.after = "merge",
                        !.level = IF @ = "running" THEN outcome ELSE @])
  BY DEF GenerationEnds
<1> DEFINE outcome == IF run[p].stop THEN "stopped" ELSE "completed"
           level == IF run[p].level = "running" THEN outcome ELSE run[p].level
           done == n[1]
           cut == n[2]
           r == [run[p] EXCEPT !.status = outcome, !.done = done, !.cut = cut, !.pc = "save",
                               !.after = "merge", !.level = level]
<1>3. run' = [run EXCEPT ![p] = r]
  BY <1>2 DEF Set
<1>4. /\ done \in Nat /\ cut \in Nat /\ done <= run[p].records
      /\ run[p].stop => outcome = "stopped" /\ (cut > 0 => run[p].level = "running")
      /\ ~run[p].stop => done > 0
  BY <1>2, BoundsAssumption DEF Sessions
<1>5. /\ "save" \in Places /\ "merge" \in Afters
      /\ outcome \in Statuses /\ outcome # "failed" /\ level \in Levels
  BY <1>1 DEF Places, Afters, Statuses, Levels
<1> HIDE DEF outcome, level, done, cut
<1>6. r \in Locals
  BY <1>1, <1>4, <1>5, OutcomeTyped, Zenon
<1>7. /\ r.pc = "save" /\ r.after = "merge" /\ r.options = run[p].options
      /\ r.named = run[p].named /\ r.calibrated = run[p].calibrated
      /\ r.records = run[p].records /\ r.stop = run[p].stop /\ r.status = outcome
      /\ r.done = done /\ r.cut = cut /\ r.level = level
      /\ r.exit = run[p].exit
  BY <1>1 DEF Locals
<1> HIDE DEF r
<1>8. run[p].records = 0 => /\ run[p].stop /\ run[p].options.cap = 0 /\ outcome = "stopped"
                            /\ done = 0 /\ cut = 0
  BY <1>1, <1>4 DEF Local
<1>9. Local(r) /\ r.named
  BY <1>1, <1>5, <1>7, <1>8 DEF Local, Ended, Generated
<1>10. Numbers(run[p]) <= Numbers(r)
  BY <1>1, <1>7 DEF Numbers
<1>11. run[p].pc \in Generating
  BY <1>1 DEF Generating
<1> QED
  BY <1>1, <1>3, <1>6, <1>7, <1>9, <1>10, <1>11, GenerationRecords

LEMMA GenerationRaiseAdvances ==
  ASSUME NEW p, Here(p), GenerationRaises(p)
  PROVE  Advances(p)
<1>1. /\ run[p] \in Locals /\ run[p].pc \in Generating
      /\ CliInv /\ p \in Runs
      /\ UNCHANGED files \/ WritePart(p)
      /\ run[p].exit = NoExit /\ Local(run[p]) /\ run[p].records \in Nat
      /\ run[p].level \in Levels
  BY DEF Here, CliInv, GenerationRaises, Good, PlaceOK, Locals, Generating
<1>2. PICK n \in Sessions(p), level \in {run[p].level, "failed"} :
        run' = [run EXCEPT ![p] = [run[p] EXCEPT
                  !.status = "failed", !.done = n[1], !.cut = n[2], !.pc = "partial",
                  !.after = "raise", !.level = level]]
  BY DEF GenerationRaises, Set
<1> DEFINE r == [run[p] EXCEPT !.status = "failed", !.done = n[1], !.cut = n[2],
                               !.pc = "partial", !.after = "raise", !.level = level]
<1>3. n[1] \in Nat /\ n[2] \in Nat
  BY BoundsAssumption DEF Sessions
<1>4. /\ "partial" \in Places /\ "raise" \in Afters /\ "failed" \in Statuses
      /\ level \in Levels
  BY <1>1 DEF Places, Afters, Statuses, Levels
<1>5. r \in Locals
  BY <1>1, <1>3, <1>4, OutcomeTyped, Zenon
<1>6. /\ r.pc = "partial" /\ r.after = "raise" /\ r.options = run[p].options
      /\ r.named = run[p].named /\ r.calibrated = run[p].calibrated
      /\ r.records = run[p].records /\ r.stop = run[p].stop /\ r.level = level
      /\ r.exit = run[p].exit
  BY <1>1 DEF Locals
<1>7. run' = [run EXCEPT ![p] = r]
  BY <1>2
<1> HIDE DEF r
<1>8. run[p].level # "completed"
  BY <1>1 DEF Local, Generating
<1>9. Local(r) /\ r.named
  BY <1>1, <1>6, <1>8 DEF Local, Ended, Generated, Generating
<1>10. Numbers(run[p]) <= Numbers(r)
  BY <1>1, <1>6 DEF Numbers
<1>11. CASE UNCHANGED files
  BY <1>1, <1>5, <1>6, <1>7, <1>9, <1>10, <1>11, GenerationRecords DEF Generating
<1>12. CASE WritePart(p)
  <2>1. Wrote(p) /\ run[p].pc = "write"
    BY <1>1, <1>12, PartWrote
  <2> QED
    BY <1>1, <1>5, <1>6, <1>7, <1>9, <2>1, WritesAdvance
<1> QED
  BY <1>1, <1>11, <1>12

LEMMA MergeAdvances ==
  ASSUME NEW p, Here(p), MergeAndJudge(p)
  PROVE  Advances(p)
<1>1. /\ run[p] \in Locals /\ run[p].pc = "merge" /\ UNCHANGED files
      /\ run[p].exit = NoExit /\ Local(run[p]) /\ run[p].records \in Nat
      /\ Written(files, p) = run[p].records
  BY DEF Here, CliInv, MergeAndJudge, At, Good, PlaceOK, RequestsOK, Locals, Generated
<1>2. CASE Set(p, Raised(run[p]))
  BY <1>1, <1>2, RaiseAloneAdvances DEF Ended
<1>3. CASE Set(p, [run[p] EXCEPT !.final = TRUE, !.pc = "sessions"])
  <2> DEFINE r == [run[p] EXCEPT !.final = TRUE, !.pc = "sessions"]
  <2>1. run' = [run EXCEPT ![p] = r]
    BY <1>3 DEF Set
  <2>2. "sessions" \in Places /\ TRUE \in BOOLEAN
    BY DEF Places
  <2>3. r \in Locals
    BY <1>1, <2>2, FinalTyped, Zenon
  <2>4. /\ r.pc = "sessions" /\ r.after = run[p].after /\ r.options = run[p].options
        /\ r.named = run[p].named /\ r.calibrated = run[p].calibrated
        /\ r.records = run[p].records /\ r.charged = run[p].charged /\ r.stop = run[p].stop
        /\ r.status = run[p].status /\ r.done = run[p].done /\ r.cut = run[p].cut
        /\ r.level = run[p].level /\ r.exit = run[p].exit
    BY <1>1 DEF Locals
  <2> HIDE DEF r
  <2>5. Local(r) /\ r.named /\ run[p].named /\ run[p].after = "merge"
    BY <1>1, <2>4 DEF Local, Ended, Generated
  <2>6. Snap(p, r) = Snap(p, run[p])
    BY <2>4 DEF Snap
  <2>7. ASSUME Sole(p, run[p], files) PROVE Sole(p, r, files)
    <3>1. /\ files.meta = NoFile /\ files.opened /\ files.sessions = <<>>
          /\ \A line \in files.requests : line[1] = p
          /\ files.lifecycle = Snap(p, r)
          /\ Exists(files.tmp) /\ files.tmp.level = "completed" => r.level = "completed"
          /\ Exists(files.lifecycle) /\ files.lifecycle.level = "completed" =>
               r.level = "completed"
      BY <1>1, <2>4, <2>6, <2>7 DEF Sole, Reporting, Ended, Generated
    <3> QED
      BY <1>1, <2>4, <2>5, <3>1, TornDiffers
         DEF Sole, Ended, Generated, Reporting, Saving, NoExit
  <2>8. Numbers(run[p]) <= Numbers(r)
    BY <1>1, <2>4 DEF Numbers
  <2> QED
    BY <1>1, <2>1, <2>3, <2>4, <2>5, <2>7, <2>8, Records
<1> QED
  BY <1>2, <1>3 DEF MergeAndJudge

-----------------------------------------------------------------------------
(* A step of one run, for all of them *)

LEMMA StepAdvances ==
  ASSUME CliInv, CliTold, NEW p \in Runs, Step(p) \/ Kill(p)
  PROVE  Advances(p)
<1>1. Here(p)
  BY DEF Here, CliTold
<1> QED
  BY <1>1, RejectAdvances, NameAdvances, OpenAdvances, TemporaryAdvances, ReplaceAdvances,
     StartAdvances, AttemptAdvances, RecordAdvances, ChargeAdvances, GenerationEndAdvances,
     GenerationRaiseAdvances, PartialAdvances, MergeAdvances, SessionsAdvance, MetaAdvances,
     ReadMetaAdvances, ReportAdvances, SloAdvances, KillAdvances DEF Step

LEMMA OthersTold ==
  ASSUME CliInv, CliTold, NEW p \in Runs, Advances(p), NEW q \in Runs \ {p}
  PROVE  /\ Local(run'[q]) /\ Told(q, run'[q], files')
         /\ Named' \subseteq {q} => Sole(q, run'[q], files')
<1>1. run'[q] = run[q] /\ Local(run[q]) /\ Told(q, run[q], files)
  BY DEF Advances, CliTold
<1>2. LinesOf(files', q) = LinesOf(files, q)
  <2>1. \/ files'.requests = files.requests
        \/ \E line : line[1] = p /\ files'.requests = files.requests \cup {line}
    BY DEF Advances
  <2> QED
    BY <2>1 DEF LinesOf
<1>3. Written(files', q) = Written(files, q)
  BY <1>2 DEF Written, LinesOf
<1>4. Readable(files'.meta) /\ files'.meta.by = q => files'.meta = files.meta
  BY TornDiffers DEF Advances
<1>5. Told(q, run[q], files')
  BY <1>1, <1>3, <1>4 DEF Told
<1>6. ASSUME Named' \subseteq {q} PROVE Sole(q, run[q], files')
  <2>1. ~run'[p].named
    BY <1>6 DEF Named
  <2>2. files' = files /\ ~run[p].named
    BY <2>1 DEF Advances
  <2>3. \A x \in Runs : run[x].named => run'[x].named
    BY <2>2 DEF Advances
  <2>4. Named \subseteq {q}
    BY <1>6, <2>3 DEF Named
  <2> QED
    BY <2>2, <2>4 DEF CliTold
<1> QED
  BY <1>1, <1>5, <1>6

LEMMA StepTold ==
  CliInv /\ CliTold /\ [Next]_vars => CliTold'
<1> SUFFICES ASSUME CliInv, CliTold, [Next]_vars PROVE CliTold'
  OBVIOUS
<1>1. ASSUME NEW p \in Runs, Step(p) \/ Kill(p) PROVE CliTold'
  <2>1. Advances(p)
    BY <1>1, StepAdvances
  <2>2. ASSUME NEW q \in Runs
        PROVE  /\ Local(run'[q]) /\ Told(q, run'[q], files')
               /\ Named' \subseteq {q} => Sole(q, run'[q], files')
    <3>1. CASE q = p
      <4>1. Local(run'[p]) /\ Told(p, run'[p], files')
        BY <2>1 DEF Advances
      <4>2. ASSUME Named' \subseteq {p} PROVE Sole(p, run'[p], files')
        <5>1. \A x \in Runs : run[x].named => run'[x].named
          BY <2>1 DEF Advances
        <5>2. Named \subseteq {p}
          BY <4>2, <5>1 DEF Named
        <5> QED
          BY <2>1, <5>2 DEF Advances, CliTold
      <4> QED
        BY <3>1, <4>1, <4>2
    <3>2. CASE q # p
      BY <2>1, <3>2, OthersTold
    <3> QED
      BY <3>1, <3>2
  <2> QED
    BY <2>2 DEF CliTold
<1>2. CASE Rerender \/ UNCHANGED vars
  <2>1. run' = run /\ Beside(files, files')
    <3>1. CASE UNCHANGED vars
      BY <3>1 DEF vars, Beside
    <3>2. CASE Rerender
      <4>1. IsFiles(files) /\ run' = run
            /\ files' = [files EXCEPT !.report = RenderFromFiles(files)]
        BY <3>2 DEF Rerender, Store, CliInv
      <4> QED
        BY <4>1, ReportOnly DEF Beside
    <3> QED
      BY <1>2, <3>1, <3>2
  <2>2. ASSUME NEW q \in Runs
        PROVE  /\ Local(run'[q]) /\ Told(q, run'[q], files')
               /\ Named' \subseteq {q} => Sole(q, run'[q], files')
    <3>1. Local(run[q]) /\ Told(q, run[q], files)
      BY DEF CliTold
    <3>2. Told(q, run[q], files')
      BY <2>1, <3>1 DEF Told, Beside, Written, LinesOf
    <3>3. Sole(q, run[q], files) => Sole(q, run[q], files')
      BY <2>1 DEF Sole, Unwritten, Complete, Beside
    <3>4. Named' = Named
      BY <2>1 DEF Named
    <3> QED
      BY <2>1, <3>1, <3>2, <3>3, <3>4 DEF CliTold
  <2> QED
    BY <2>2 DEF CliTold
<1> QED
  BY <1>1, <1>2 DEF Next

\* The file gets the number of the attempt, an attempt the next number.
LEMMA StepNumbers ==
  CliInv /\ CliTold /\ Numbered /\ [Next]_vars => (CliInv' => Numbered')
<1> SUFFICES ASSUME CliInv, CliInv', CliTold, Numbered, [Next]_vars PROVE Numbered'
  OBVIOUS
<1>0. ASSUME NEW q \in Runs PROVE Numbers(run[q]) \in Int /\ Numbers(run'[q]) \in Int
  BY NumbersTyped DEF CliInv
<1>1. ASSUME NEW p \in Runs, Step(p) \/ Kill(p) PROVE Numbered'
  <2>0. Advances(p)
    BY <1>1, StepAdvances
  <2> SUFFICES ASSUME NEW q \in Runs, NEW n \in Nat, <<q, n>> \in files'.requests
               PROVE  n <= Numbers(run'[q])
    BY DEF Numbered
  <2>1. CASE <<q, n>> \in files.requests
    <3>1. n <= Numbers(run[q])
      BY <2>1 DEF Numbered
    <3>2. Numbers(run[q]) <= Numbers(run'[q])
      <4>1. CASE q = p
        BY <2>0, <4>1 DEF Advances
      <4>2. CASE q # p
        BY <1>0, <2>0, <4>2 DEF Advances
      <4> QED
        BY <4>1, <4>2
    <3> QED
      BY <1>0, <3>1, <3>2
  <2>2. CASE <<q, n>> \notin files.requests
    <3>1. /\ <<q, n>> = <<p, run[p].records>>
          /\ run[p].records <= Numbers(run'[p])
      BY <2>0, <2>2 DEF Advances
    <3> QED
      BY <3>1
  <2> QED
    BY <2>1, <2>2
<1>2. CASE Rerender \/ UNCHANGED vars
  <2>1. run' = run /\ files'.requests = files.requests
    <3>1. CASE Rerender
      <4>1. IsFiles(files) /\ run' = run
            /\ files' = [files EXCEPT !.report = RenderFromFiles(files)]
        BY <3>1 DEF Rerender, Store, CliInv
      <4> QED
        BY <4>1, ReportOnly
    <3> QED
      BY <1>2, <3>1 DEF vars
  <2> QED
    BY <2>1 DEF Numbered
<1> QED
  BY <1>1, <1>2 DEF Next

LEMMA InitTold ==
  Init => CliTold
<1> SUFFICES ASSUME Init PROVE CliTold
  OBVIOUS
<1>1. /\ files.requests = {} /\ files.meta = NoFile /\ ~Readable(files.meta)
      /\ Unwritten(files)
  BY TornDiffers DEF Init, NothingOnDisk, Unwritten
<1>2. ASSUME NEW p \in Runs
      PROVE  /\ Local(run[p]) /\ Told(p, run[p], files) /\ Sole(p, run[p], files)
  <2>1. PICK o \in Options :
          run[p] = [pc |-> "options", after |-> "generate", options |-> o, named |-> FALSE,
                    calibrated |-> FALSE, records |-> 0, charged |-> 0,
                    stop |-> o.cap = 0, done |-> 0, cut |-> 0, status |-> "running",
                    level |-> "none", final |-> FALSE, meta |-> NoFile,
                    exit |-> NoExit]
    BY DEF Init
  <2>2. /\ run[p].pc = "options" /\ run[p].after = "generate" /\ run[p].options = o
        /\ ~run[p].named /\ ~run[p].calibrated /\ run[p].stop = (o.cap = 0)
        /\ run[p].level = "none" /\ run[p].exit = NoExit
    BY <2>1
  <2>3. Local(run[p])
    BY <2>2 DEF Local, Ended, Generated
  <2>4. Told(p, run[p], files)
    BY <1>1, <2>2 DEF Told
  <2>5. Sole(p, run[p], files)
    BY <1>1, <2>2
       DEF Sole, Unwritten, Exists, Ended, Generated, Reporting, Saving, NoExit
  <2> QED
    BY <2>3, <2>4, <2>5
<1> QED
  BY <1>2 DEF CliTold

-----------------------------------------------------------------------------
(* What became of the lines: which attempts have one, and which lines a cut- *)
(* off line has spoilt                                                       *)

\* Attempts are written in their order, each before it is accounted for.
Accounting(p, s, f) ==
  /\ s.charged <= s.records
  /\ \A n \in 1..s.charged : <<p, n>> \in f.requests
  /\ s.pc \in {"write", "charge"} => s.charged = s.records - 1
  /\ s.pc = "charge" => <<p, s.records>> \in f.requests
  /\ s.after = "generate" /\ s.pc \notin {"write", "charge"} \cup Ended => s.charged = s.records
  /\ s.after = "merge" \/ s.exit \in {0, 3} => s.charged = s.records
  /\ s.status = "failed" => s.after = "raise"

\* A run that is over, or about to be, with an attempt it did not account for.
Broke(s) == s.charged < s.records /\ (s.pc = "killed" \/ s.status = "failed")
Cutoff(l) ==
  \E q \in Runs : run[q].named /\ Broke(run[q]) /\ l = <<q, run[q].records>>

\* A line is spoilt together with that of another run, one of them cut off.
Spoilt(l) ==
  /\ run[l[1]].named
  /\ \E k \in files.lost : k[1] # l[1] /\ run[k[1]].named /\ (Cutoff(l) \/ Cutoff(k))

CliFile ==
  /\ \A p \in Runs : Accounting(p, run[p], files)
  /\ \A l \in files.unended : Cutoff(l)
  /\ \A l \in files.lost : Spoilt(l)

\* What a step of a run does to its accounts and to the lines.
Untouched == files'.lost = files.lost /\ files'.unended = files.unended
Accounts(p) ==
  /\ Accounting(p, run'[p], files')
  /\ Broke(run[p]) => Broke(run'[p]) /\ run'[p].records = run[p].records
  /\ \/ Untouched
     \/ /\ run[p].pc = "write" /\ Wrote(p) /\ run'[p].records = run[p].records
        /\ files'.unended # {} => Broke(run'[p])

\* Most steps keep the accounts and the request file.
Quiet(s, r) ==
  /\ r.records = s.records /\ r.charged = s.charged /\ r.status = s.status
  /\ r.after = s.after
  /\ s.pc \notin {"write", "charge", "killed"} \/ r.pc \in Ended
  /\ s.pc \notin Ended
  /\ r.pc \notin {"write", "charge"}
  /\ r.exit \in {0, 3} => s.after = "merge" \/ s.exit \in {0, 3}

LEMMA QuietAccounts ==
  ASSUME NEW p, Accounting(p, run[p], files), Quiet(run[p], run'[p]), Untouched,
         files'.requests = files.requests
  PROVE  Accounts(p)
<1>1. Accounting(p, run'[p], files')
  BY DEF Accounting, Quiet, Ended
<1>2. Broke(run[p]) => Broke(run'[p])
  BY DEF Quiet, Broke, Ended
<1> QED
  BY <1>1, <1>2 DEF Accounts, Quiet

\* A step that changes one file, and not the lines of requests.
LEMMA OtherFile ==
  ASSUME IsFiles(files), NEW x,
         \/ UNCHANGED files
         \/ Store([files EXCEPT !.opened = x]) \/ Store([files EXCEPT !.tmp = x])
         \/ Store([files EXCEPT !.lifecycle = x, !.tmp = NoFile])
         \/ Store([files EXCEPT !.sessions = x]) \/ Store([files EXCEPT !.meta = x])
         \/ Store([files EXCEPT !.report = x])
  PROVE  Untouched /\ files'.requests = files.requests
<1>1. PICK tmp, lifecycle, report : files \in FilesOf(tmp, lifecycle, report)
  BY DEF IsFiles
<1> QED
  BY <1>1 DEF FilesOf, Store, Untouched

LEMMA Appending ==
  ASSUME NEW p, NEW n, NEW torn, AppendSessions(p, n, torn)
  PROVE  \E x : Store([files EXCEPT !.sessions = x])
BY DEF AppendSessions

LEMMA AppendingPart ==
  ASSUME NEW p, AppendPart(p)
  PROVE  \E x : Store([files EXCEPT !.sessions = x])
BY Appending DEF AppendPart

LEMMA RaisedQuiet ==
  ASSUME NEW s \in Locals, s.pc \notin Ended
  PROVE  Quiet(s, Raised(s))
BY DEF Locals, Raised, Quiet, Ended

LEMMA PlaceQuiet ==
  ASSUME NEW s \in Locals, NEW pc, s.pc \notin Ended \cup {"write", "charge"},
         pc \notin {"write", "charge"}, s.exit = NoExit
  PROVE  Quiet(s, [s EXCEPT !.pc = pc])
BY DEF Locals, Quiet, Ended, NoExit

\* The steps outside load generation.
LEMMA SettingUp ==
  ASSUME NEW p, Here(p), Accounting(p, run[p], files),
         RejectOptions(p) \/ NameRun(p) \/ OpenRequests(p)
  PROVE  Accounts(p)
<1>1. /\ run \in [Runs -> Locals] /\ p \in Runs /\ run[p] \in Locals /\ IsFiles(files)
      /\ run[p].pc \in {"options", "open"} /\ run[p].exit = NoExit
  BY DEF Here, CliInv, Good, PlaceOK, RejectOptions, NameRun, OpenRequests, At
<1>2. run[p].pc \notin Ended \cup {"write", "charge"}
  BY <1>1 DEF Ended
<1>3. Untouched /\ files'.requests = files.requests
  <2>1. UNCHANGED files \/ Store([files EXCEPT !.opened = TRUE])
    BY DEF RejectOptions, NameRun, OpenRequests
  <2> QED
    BY <1>1, <2>1, OtherFile
<1>4. Quiet(run[p], run'[p])
  <2>1. CASE RejectOptions(p)
    <3>1. PICK exit \in {1, 2} :
            run' = [run EXCEPT ![p] = [run[p] EXCEPT !.pc = "exited", !.exit = exit]]
      BY <2>1 DEF RejectOptions, Set
    <3>2. run'[p] = [run[p] EXCEPT !.pc = "exited", !.exit = exit]
      BY <1>1, <3>1
    <3> QED
      BY <1>1, <1>2, <3>2 DEF Quiet, Locals, Ended
  <2>2. CASE NameRun(p)
    <3>1. CASE CapAccepted(run[p].options)
      <4>1. PICK calibrated :
              run'[p] = [run[p] EXCEPT !.pc = "open", !.named = TRUE, !.calibrated = calibrated]
        BY <1>1, <2>2, <3>1 DEF NameRun, Set
      <4> QED
        BY <1>1, <1>2, <4>1 DEF Quiet, Locals, Ended, NoExit
    <3>2. CASE ~CapAccepted(run[p].options)
      <4>1. run'[p] = [run[p] EXCEPT !.pc = "exited", !.exit = 2]
        BY <1>1, <2>2, <3>2 DEF NameRun, Set
      <4> QED
        BY <1>1, <1>2, <4>1 DEF Quiet, Locals, Ended
    <3> QED
      BY <3>1, <3>2
  <2>3. CASE OpenRequests(p)
    <3>1. run'[p] = Raised(run[p]) \/ run'[p] = [run[p] EXCEPT !.pc = "save"]
      BY <1>1, <2>3 DEF OpenRequests, Goto, Set
    <3> QED
      BY <1>1, <1>2, <3>1, RaisedQuiet, PlaceQuiet
  <2> QED
    BY <2>1, <2>2, <2>3
<1> QED
  BY <1>3, <1>4, QuietAccounts

LEMMA SavingAccounts ==
  ASSUME NEW p, Here(p), Accounting(p, run[p], files),
         WriteTemporary(p) \/ ReplaceLifecycle(p)
  PROVE  Accounts(p)
<1>1. /\ run \in [Runs -> Locals] /\ p \in Runs /\ run[p] \in Locals /\ IsFiles(files)
      /\ run[p].pc \in {"save", "replace"} /\ run[p].exit = NoExit
  BY DEF Here, CliInv, Good, PlaceOK, WriteTemporary, ReplaceLifecycle, At
<1>2. run[p].pc \notin Ended \cup {"write", "charge"}
  BY <1>1 DEF Ended
<1>3. Untouched /\ files'.requests = files.requests
  <2>1. \/ UNCHANGED files
        \/ \E x : Store([files EXCEPT !.tmp = x])
        \/ \E x : Store([files EXCEPT !.lifecycle = x, !.tmp = NoFile])
    BY DEF WriteTemporary, ReplaceLifecycle
  <2> QED
    BY <1>1, <2>1, OtherFile
<1>4. Quiet(run[p], run'[p])
  <2>1. \/ run'[p] = Raised(run[p]) \/ run'[p] = [run[p] EXCEPT !.pc = "replace"]
        \/ run'[p] = AfterSave(p)
    BY <1>1 DEF WriteTemporary, ReplaceLifecycle, SaveFails, Goto, Set
  <2>2. run[p].after \notin {"write", "charge"}
    BY <1>1 DEF Locals, Afters
  <2>3. AfterSave(p) \in {Raised(run[p]), [run[p] EXCEPT !.pc = run[p].after]}
    BY DEF AfterSave
  <2> QED
    BY <1>1, <1>2, <2>1, <2>2, <2>3, RaisedQuiet, PlaceQuiet
<1> QED
  BY <1>3, <1>4, QuietAccounts

LEMMA EndingAccounts ==
  ASSUME NEW p, Here(p), Accounting(p, run[p], files),
         \/ SavePartialSessions(p) \/ MergeAndJudge(p) \/ WriteSessions(p)
         \/ WriteMeta(p) \/ ReadMeta(p) \/ WriteReport(p) \/ EvaluateSlo(p)
  PROVE  Accounts(p)
<1>1. /\ run \in [Runs -> Locals] /\ p \in Runs /\ run[p] \in Locals /\ IsFiles(files)
      /\ run[p].pc \in {"partial", "merge", "sessions", "meta", "readback", "report", "slo"}
      /\ run[p].exit = NoExit /\ Local(run[p])
  BY DEF Here, CliInv, Good, PlaceOK, SavePartialSessions, MergeAndJudge, WriteSessions,
         WriteMeta, ReadMeta, WriteReport, EvaluateSlo, At
<1>2. run[p].pc \notin Ended \cup {"write", "charge"}
  BY <1>1 DEF Ended
<1>3. Untouched /\ files'.requests = files.requests
  <2>1. \/ UNCHANGED files
        \/ \E x : Store([files EXCEPT !.sessions = x])
        \/ \E x : Store([files EXCEPT !.meta = x])
        \/ \E x : Store([files EXCEPT !.report = x])
    BY Appending, AppendingPart
       DEF SavePartialSessions, MergeAndJudge, WriteSessions, WriteMeta, ReadMeta,
           WriteReport, EvaluateSlo
  <2> QED
    BY <1>1, <2>1, OtherFile
<1>4. Quiet(run[p], run'[p])
  <2>1. CASE run'[p] = Raised(run[p])
    BY <1>1, <1>2, <2>1, RaisedQuiet
  <2>2. CASE \E pc \in {"save", "meta", "readback", "slo"} : run'[p] = [run[p] EXCEPT !.pc = pc]
    BY <1>1, <1>2, <2>2, PlaceQuiet
  <2>3. CASE run'[p] = [run[p] EXCEPT !.final = TRUE, !.pc = "sessions"]
    BY <1>1, <1>2, <2>3 DEF Quiet, Locals, Ended, NoExit
  <2>4. CASE \E m : run'[p] = [run[p] EXCEPT !.meta = m, !.pc = "report"]
    BY <1>1, <1>2, <2>4 DEF Quiet, Locals, Ended, NoExit
  <2>5. CASE run[p].pc = "slo" /\ \E exit : run'[p] = [run[p] EXCEPT !.pc = "exited", !.exit = exit]
    <3>1. run[p].after = "merge"
      BY <1>1, <2>5 DEF Local, Generated
    <3> QED
      BY <1>1, <1>2, <2>5, <3>1 DEF Quiet, Locals, Ended
  <2> QED
    <3>1. CASE SavePartialSessions(p)
      BY <1>1, <2>1, <2>2, <3>1 DEF SavePartialSessions, Goto, Set
    <3>2. CASE MergeAndJudge(p)
      BY <1>1, <2>1, <2>3, <3>2 DEF MergeAndJudge, Set
    <3>3. CASE WriteSessions(p)
      BY <1>1, <2>1, <2>2, <3>3 DEF WriteSessions, SessionsNotWritten, Goto, Set
    <3>4. CASE WriteMeta(p)
      BY <1>1, <2>1, <2>2, <3>4 DEF WriteMeta, Goto, Set
    <3>5. CASE ReadMeta(p)
      BY <1>1, <2>1, <2>4, <3>5 DEF ReadMeta, Set
    <3>6. CASE WriteReport(p)
      BY <1>1, <2>1, <2>2, <3>6 DEF WriteReport, Goto, Set
    <3>7. CASE EvaluateSlo(p)
      BY <1>1, <2>5, <3>7 DEF EvaluateSlo, At, Set
    <3> QED
      BY <3>1, <3>2, <3>3, <3>4, <3>5, <3>6, <3>7
<1> QED
  BY <1>3, <1>4, QuietAccounts

\* Load generation: an attempt, its line, its account, in this order.
LEMMA GenerationAccounts ==
  ASSUME NEW p, Here(p), Accounting(p, run[p], files),
         \/ StartLevel(p) \/ AttemptCompletes(p) \/ WriteRecord(p) \/ Charge(p)
         \/ GenerationEnds(p)
  PROVE  Accounts(p)
<1>1. /\ run \in [Runs -> Locals] /\ p \in Runs /\ run[p] \in Locals /\ CliInv
      /\ run[p].pc \in {"generate", "write", "charge"} /\ run[p].exit = NoExit
      /\ run[p].records \in Nat /\ run[p].charged \in Nat
      /\ run[p].after = "generate" /\ run[p].status # "failed"
  BY DEF Here, CliInv, Good, PlaceOK, StartLevel, AttemptCompletes, WriteRecord, Charge,
         GenerationEnds, At, Local, Locals, Accounting
<1>2. ~Broke(run[p])
  BY <1>1 DEF Broke
<1>3. CASE StartLevel(p)
  <2>1. run'[p] = [run[p] EXCEPT !.level = "running"] /\ UNCHANGED files /\ run[p].pc = "generate"
    BY <1>1, <1>3 DEF StartLevel, Set, At
  <2>2. Accounting(p, run'[p], files')
    BY <1>1, <2>1 DEF Accounting, Locals, Ended, NoExit
  <2> QED
    BY <1>2, <2>1, <2>2 DEF Accounts, Untouched
<1>4. CASE AttemptCompletes(p)
  <2>1. /\ run'[p] = [run[p] EXCEPT !.records = run[p].records + 1, !.pc = "write"]
        /\ UNCHANGED files /\ run[p].pc = "generate"
    BY <1>1, <1>4 DEF AttemptCompletes, Set, At
  <2>2. /\ run'[p].records = run[p].records + 1 /\ run'[p].pc = "write"
        /\ run'[p].charged = run[p].charged /\ run'[p].after = "generate"
        /\ run'[p].status = run[p].status /\ run'[p].exit = NoExit
    BY <1>1, <2>1 DEF Locals
  <2>3. run[p].charged = run[p].records
    BY <1>1, <2>1 DEF Accounting, Ended
  <2>4. Accounting(p, run'[p], files')
    BY <1>1, <2>1, <2>2, <2>3 DEF Accounting, Ended, NoExit
  <2> QED
    BY <1>2, <2>1, <2>4 DEF Accounts, Untouched
<1>5. CASE WriteRecord(p)
  <2>1. /\ run'[p] = [run[p] EXCEPT !.pc = "charge"] /\ run[p].pc = "write"
        /\ Store(Flushed(files, p))
    BY <1>1, <1>5 DEF WriteRecord, Goto, Set, At
  <2>2. Wrote(p) /\ files'.unended = {} /\ files'.requests = files.requests \cup {LastLine(p)}
    BY <1>1, <2>1, FlushedWrote
  <2>3. /\ run'[p].records = run[p].records /\ run'[p].pc = "charge"
        /\ run'[p].charged = run[p].charged /\ run'[p].after = "generate"
        /\ run'[p].status = run[p].status /\ run'[p].exit = NoExit
    BY <1>1, <2>1 DEF Locals
  <2>4. Accounting(p, run'[p], files')
    BY <1>1, <2>1, <2>2, <2>3 DEF Accounting, Ended, NoExit, LastLine
  <2> QED
    BY <1>2, <2>1, <2>2, <2>3, <2>4 DEF Accounts
<1>6. CASE Charge(p)
  <2>1. PICK stop :
          run'[p] = [run[p] EXCEPT !.charged = run[p].charged + 1, !.pc = "generate", !.stop = stop]
    BY <1>1, <1>6 DEF Charge, Set
  <2>2. UNCHANGED files /\ run[p].pc = "charge"
    BY <1>6 DEF Charge, At
  <2>3. /\ run'[p].records = run[p].records /\ run'[p].pc = "generate"
        /\ run'[p].charged = run[p].charged + 1 /\ run'[p].after = "generate"
        /\ run'[p].status = run[p].status /\ run'[p].exit = NoExit
    BY <1>1, <2>1 DEF Locals
  <2>4. run[p].charged = run[p].records - 1 /\ <<p, run[p].records>> \in files.requests
    BY <2>2 DEF Accounting
  <2>5. ASSUME NEW n \in 1..run'[p].charged PROVE <<p, n>> \in files.requests
    <3>1. n \in 1..run[p].charged \/ n = run[p].records
      BY <1>1, <2>3, <2>4
    <3> QED
      BY <2>4, <3>1 DEF Accounting
  <2>6. Accounting(p, run'[p], files')
    BY <1>1, <2>2, <2>3, <2>4, <2>5 DEF Accounting, Ended, NoExit
  <2> QED
    BY <1>2, <2>2, <2>6 DEF Accounts, Untouched
<1>7. CASE GenerationEnds(p)
  <2>0. PICK n \in Sessions(p) :
          LET outcome == IF run[p].stop THEN "stopped" ELSE "completed"
          IN Set(p, [run[p] EXCEPT !.status = outcome, !.done = n[1], !.cut = n[2],
                       !.pc = "save", !.after = "merge",
                       !.level = IF @ = "running" THEN outcome ELSE @])
    BY <1>7 DEF GenerationEnds
  <2> DEFINE outcome == IF run[p].stop THEN "stopped" ELSE "completed"
             level == IF run[p].level = "running" THEN outcome ELSE run[p].level
  <2>1. run'[p] = [run[p] EXCEPT !.status = outcome, !.done = n[1], !.cut = n[2],
                     !.pc = "save", !.after = "merge", !.level = level]
    BY <1>1, <2>0 DEF Set
  <2>a. outcome # "failed"
    OBVIOUS
  <2> HIDE DEF outcome, level
  <2>2. UNCHANGED files /\ run[p].pc = "generate"
    BY <1>7 DEF GenerationEnds, At
  <2>3. /\ run'[p].records = run[p].records /\ run'[p].pc = "save"
        /\ run'[p].charged = run[p].charged /\ run'[p].after = "merge"
        /\ run'[p].status = outcome /\ run'[p].exit = NoExit
    BY <1>1, <2>1 DEF Locals
  <2>4. run[p].charged = run[p].records
    BY <1>1, <2>2 DEF Accounting, Ended
  <2>5. Accounting(p, run'[p], files')
    BY <1>1, <2>a, <2>2, <2>3, <2>4 DEF Accounting
  <2> QED
    BY <1>2, <2>2, <2>5 DEF Accounts, Untouched
<1> QED
  BY <1>3, <1>4, <1>5, <1>6, <1>7

\* It breaks off: the last attempt may have a line or a piece of one, or none.
LEMMA LinesLeft ==
  ASSUME NEW p, Here(p), Accounting(p, run[p], files), UNCHANGED files \/ WritePart(p),
         ~Broke(run[p]), run'[p].records = run[p].records,
         run'[p].charged = run[p].charged,
         run'[p].pc = "killed" \/ run'[p].status = "failed",
         Accounting(p, run'[p], files)
  PROVE  Accounts(p)
<1>1. CASE UNCHANGED files
  BY <1>1 DEF Accounts, Untouched
<1>2. CASE WritePart(p)
  <2>1. Wrote(p) /\ run[p].pc = "write" /\ p \in Runs
    BY <1>2, PartWrote DEF Here
  <2>2. run[p].charged = run[p].records - 1 /\ run[p].records \in Nat
    BY <2>1 DEF Accounting, Here, CliInv, Locals
  <2>3. Broke(run'[p])
    BY <2>2 DEF Broke
  <2>4. \A l \in files.requests : l \in files'.requests
    BY <2>1 DEF Wrote
  <2>5. Accounting(p, run'[p], files')
    BY <2>4 DEF Accounting
  <2> QED
    BY <2>1, <2>3, <2>5 DEF Accounts
<1> QED
  BY <1>1, <1>2

LEMMA RaisingAccounts ==
  ASSUME NEW p, Here(p), Accounting(p, run[p], files), GenerationRaises(p)
  PROVE  Accounts(p)
<1>1. /\ run \in [Runs -> Locals] /\ p \in Runs /\ run[p] \in Locals
      /\ run[p].pc \in {"generate", "write", "charge"} /\ run[p].exit = NoExit
      /\ run[p].after = "generate" /\ run[p].status # "failed"
      /\ UNCHANGED files \/ WritePart(p)
  BY DEF Here, CliInv, Good, PlaceOK, GenerationRaises, Local, Accounting
<1>2. PICK n \in Sessions(p), level \in {run[p].level, "failed"} :
        run'[p] = [run[p] EXCEPT !.status = "failed", !.done = n[1], !.cut = n[2],
                                 !.pc = "partial", !.after = "raise", !.level = level]
  BY <1>1 DEF GenerationRaises, Set
<1>3. /\ run'[p].records = run[p].records /\ run'[p].charged = run[p].charged
      /\ run'[p].pc = "partial" /\ run'[p].after = "raise" /\ run'[p].status = "failed"
      /\ run'[p].exit = NoExit
  BY <1>1, <1>2 DEF Locals
<1>4. ~Broke(run[p])
  BY <1>1 DEF Broke
<1>5. Accounting(p, run'[p], files)
  BY <1>3 DEF Accounting, NoExit
<1> QED
  BY <1>1, <1>3, <1>4, <1>5, LinesLeft

LEMMA KillAccounts ==
  ASSUME NEW p, Here(p), Accounting(p, run[p], files), Kill(p)
  PROVE  Accounts(p)
<1>1. /\ run \in [Runs -> Locals] /\ p \in Runs /\ run[p] \in Locals /\ IsFiles(files)
      /\ run[p].pc \notin Ended /\ run[p].exit = NoExit
      /\ run'[p] = [run[p] EXCEPT !.pc = "killed"]
  BY DEF Here, CliInv, Good, PlaceOK, Kill, Goto, Set, Ended
<1>2. /\ run'[p].records = run[p].records /\ run'[p].charged = run[p].charged
      /\ run'[p].pc = "killed" /\ run'[p].after = run[p].after
      /\ run'[p].status = run[p].status /\ run'[p].exit = NoExit
  BY <1>1 DEF Locals
<1>3. CASE UNCHANGED files \/ (run[p].pc \in {"partial", "sessions"} /\ AppendPart(p))
           \/ (At(p, "meta") /\ Store([files EXCEPT !.meta = Torn]))
  <2>1. Untouched /\ files'.requests = files.requests
    <3>1. \/ UNCHANGED files \/ \E x : Store([files EXCEPT !.sessions = x])
          \/ \E x : Store([files EXCEPT !.meta = x])
      BY <1>3, AppendingPart
    <3> QED
      BY <1>1, <3>1, OtherFile
  <2>2. Quiet(run[p], run'[p])
    BY <1>1, <1>2 DEF Quiet, Ended, NoExit
  <2> QED
    BY <2>1, <2>2, QuietAccounts
<1>4. CASE WritePart(p)
  <2>1. run[p].pc = "write" /\ run[p].after = "generate" /\ run[p].status # "failed"
    BY <1>4 DEF WritePart, At, Here, Local, Accounting
  <2>2. ~Broke(run[p])
    BY <2>1 DEF Broke
  <2>3. Accounting(p, run'[p], files)
    BY <1>2, <2>1 DEF Accounting, Ended, NoExit
  <2> QED
    BY <1>2, <1>4, <2>2, <2>3, LinesLeft
<1> QED
  BY <1>3, <1>4 DEF Kill

LEMMA StepAccounts ==
  ASSUME CliInv, CliTold, CliFile, NEW p \in Runs, Step(p) \/ Kill(p)
  PROVE  Accounts(p)
<1>1. Here(p) /\ Accounting(p, run[p], files)
  BY DEF Here, CliTold, CliFile
<1> QED
  BY <1>1, SettingUp, SavingAccounts, EndingAccounts, GenerationAccounts, RaisingAccounts,
     KillAccounts DEF Step

\* A run that broke off stays so, and its last line the last.
LEMMA CutoffStays ==
  ASSUME CliInv, NEW p \in Runs, Advances(p), Accounts(p), NEW l, Cutoff(l)
  PROVE  Cutoff(l)'
<1>1. PICK q \in Runs : run[q].named /\ Broke(run[q]) /\ l = <<q, run[q].records>>
  BY DEF Cutoff
<1>2. /\ run'[q].named /\ Broke(run'[q]) /\ run'[q].records = run[q].records
  <2>1. CASE q = p
    BY <1>1, <2>1 DEF Advances, Accounts
  <2>2. CASE q # p
    BY <1>1, <2>2 DEF Advances
  <2> QED
    BY <2>1, <2>2
<1> QED
  BY <1>1, <1>2 DEF Cutoff, Broke

LEMMA StepFile ==
  CliInv /\ CliTold /\ CliFile /\ [Next]_vars => CliFile'
<1> SUFFICES ASSUME CliInv, CliTold, CliFile, [Next]_vars PROVE CliFile'
  OBVIOUS
<1>1. ASSUME NEW p \in Runs, Step(p) \/ Kill(p) PROVE CliFile'
  <2>1. Advances(p) /\ Accounts(p)
    BY <1>1, StepAdvances, StepAccounts
  <2>2. ASSUME NEW q \in Runs PROVE Accounting(q, run'[q], files')
    <3>1. CASE q = p
      BY <2>1, <3>1 DEF Accounts
    <3>2. CASE q # p
      <4>1. run'[q] = run[q] /\ Accounting(q, run[q], files)
        BY <2>1, <3>2 DEF Advances, CliFile
      <4>2. \A l \in files.requests : l \in files'.requests
        BY <2>1 DEF Advances
      <4> QED
        BY <4>1, <4>2 DEF Accounting
    <3> QED
      BY <3>1, <3>2
  <2>3. \A l : Cutoff(l) => Cutoff(l)'
    BY <2>1, CutoffStays
  <2>4. \A q \in Runs : run[q].named => run'[q].named
    BY <2>1 DEF Advances
  <2>5. ASSUME NEW l \in files.lost PROVE l[1] \in Runs
    BY DEF CliInv, IsFiles, FilesOf
  <2>6. ASSUME Wrote(p), run[p].pc = "write", run'[p].records = run[p].records,
               files'.unended # {} => Broke(run'[p])
        PROVE  CliFile'
    <3>1. run[p].named /\ run'[p].named
      BY <2>4, <2>6 DEF CliTold, Local, Ended
    <3>2. PICK line : line = LastLine(p) /\ line = <<p, run[p].records>> /\ line[1] = p
      <4>1. LastLine(p) = <<p, run[p].records>> /\ LastLine(p)[1] = p
        BY DEF LastLine
      <4> QED
        BY <4>1
    <3>3. files'.unended # {} => Cutoff(line)'
      <4>1. line = <<p, run'[p].records>>
        BY <2>6, <3>2
      <4> QED
        BY <2>6, <3>1, <4>1 DEF Cutoff, Broke
    <3>4. ASSUME NEW l \in files'.unended PROVE Cutoff(l)'
      <4>1. l = line
        BY <3>2, <3>4, <2>6 DEF Wrote
      <4> QED
        BY <3>3, <3>4, <4>1
    <3>5. files'.lost = files.lost \cup Joined(files, p)
      BY <2>6 DEF Wrote
    <3>6. ASSUME NEW l \in files'.lost PROVE Spoilt(l)'
      <4>1. CASE l \in files.lost
        <5>1. PICK k \in files.lost : k[1] # l[1] /\ run[k[1]].named /\ (Cutoff(l) \/ Cutoff(k))
          BY <4>1 DEF CliFile, Spoilt
        <5>2. run[l[1]].named
          BY <4>1 DEF CliFile, Spoilt
        <5>3. run'[l[1]].named /\ run'[k[1]].named /\ k \in files'.lost
          BY <2>4, <2>5, <3>5, <4>1, <5>1, <5>2
        <5>4. Cutoff(l)' \/ Cutoff(k)'
          BY <2>3, <5>1
        <5> QED
          BY <5>1, <5>3, <5>4 DEF Spoilt
      <4>2. CASE l \notin files.lost
        <5>1. files.unended # {} /\ l \in files.unended \cup {line}
          BY <3>2, <3>5, <3>6, <4>2 DEF Joined
        <5>2. files.unended \cup {line} \subseteq files'.lost
          BY <3>2, <3>5, <5>1 DEF Joined
        <5>3. ASSUME NEW k \in files.unended
              PROVE  k[1] \in Runs /\ k[1] # p /\ run'[k[1]].named /\ Cutoff(k)'
          <6>1. PICK q \in Runs : run[q].named /\ Broke(run[q]) /\ k = <<q, run[q].records>>
            BY <5>3 DEF CliFile, Cutoff
          <6>2. ~Broke(run[p])
            BY <2>6 DEF Broke, CliFile, Accounting, CliTold, Local
          <6>3. Cutoff(k)
            BY <5>3 DEF CliFile
          <6> QED
            BY <2>3, <2>4, <6>1, <6>2, <6>3
        <5>4. CASE l \in files.unended
          BY <3>1, <3>2, <5>2, <5>3, <5>4 DEF Spoilt
        <5>5. CASE l = line
          <6>1. PICK k \in files.unended : TRUE
            BY <5>1
          <6> QED
            BY <3>1, <3>2, <5>2, <5>3, <5>5, <6>1 DEF Spoilt
        <5> QED
          BY <5>1, <5>4, <5>5
      <4> QED
        BY <4>1, <4>2
    <3> QED
      BY <2>2, <3>4, <3>6 DEF CliFile
  <2>7. ASSUME Untouched PROVE CliFile'
    <3>1. ASSUME NEW l \in files'.unended PROVE Cutoff(l)'
      BY <2>3, <2>7, <3>1 DEF Untouched, CliFile
    <3>2. ASSUME NEW l \in files'.lost PROVE Spoilt(l)'
      <4>1. l \in files.lost
        BY <2>7, <3>2 DEF Untouched
      <4>2. PICK k \in files.lost : k[1] # l[1] /\ run[k[1]].named /\ (Cutoff(l) \/ Cutoff(k))
        BY <4>1 DEF CliFile, Spoilt
      <4>3. run[l[1]].named
        BY <4>1 DEF CliFile, Spoilt
      <4>4. run'[l[1]].named /\ run'[k[1]].named /\ k \in files'.lost
        BY <2>4, <2>5, <2>7, <4>1, <4>2, <4>3 DEF Untouched
      <4>5. Cutoff(l)' \/ Cutoff(k)'
        BY <2>3, <4>2
      <4> QED
        BY <4>2, <4>4, <4>5 DEF Spoilt
    <3> QED
      BY <2>2, <3>1, <3>2 DEF CliFile
  <2> QED
    BY <2>1, <2>6, <2>7 DEF Accounts
<1>2. CASE Rerender \/ UNCHANGED vars
  <2>1. run' = run /\ Untouched /\ files'.requests = files.requests
    <3>1. IsFiles(files)
      BY DEF CliInv
    <3> QED
      BY <1>2, <3>1, OtherFile DEF Rerender, vars
  <2> QED
    BY <2>1 DEF CliFile, Accounting, Cutoff, Spoilt, Untouched
<1> QED
  BY <1>1, <1>2 DEF Next

LEMMA InitFile ==
  Init => CliFile
<1> SUFFICES ASSUME Init PROVE CliFile
  OBVIOUS
<1>1. files.unended = {} /\ files.lost = {}
  BY DEF Init, NothingOnDisk
<1>2. ASSUME NEW p \in Runs PROVE Accounting(p, run[p], files)
  <2>1. PICK o \in Options :
          run[p] = [pc |-> "options", after |-> "generate", options |-> o, named |-> FALSE,
                    calibrated |-> FALSE, records |-> 0, charged |-> 0,
                    stop |-> o.cap = 0, done |-> 0, cut |-> 0, status |-> "running",
                    level |-> "none", final |-> FALSE, meta |-> NoFile,
                    exit |-> NoExit]
    BY DEF Init
  <2>2. /\ run[p].pc = "options" /\ run[p].status = "running" /\ run[p].charged = 0
        /\ run[p].records = 0
    BY <2>1
  <2> QED
    BY <2>2 DEF Accounting
<1> QED
  BY <1>1, <1>2 DEF CliFile

-----------------------------------------------------------------------------
(* The invariant *)

LEMMA InitGood ==
  Init => CliInv
<1> SUFFICES ASSUME Init PROVE CliInv
  OBVIOUS
<1>1. files \in FilesOf({NoFile}, {NoFile}, {NoFile})
  <2>1. {} \in RequestFiles /\ <<>> \in Seq(Batches) /\ NoFile \in Metas
    BY FS_EmptySet DEF RequestFiles, Metas
  <2> HIDE DEF NoFile
  <2> QED
    BY <2>1 DEF Init, NothingOnDisk, FilesOf
<1>2. IsFiles(files) /\ \A p \in Runs : Written(files, p) = 0
  <2>1. files.requests = {}
    BY DEF Init, NothingOnDisk
  <2>2. ASSUME NEW p \in Runs PROVE Written(files, p) = 0
    <3>1. {line \in files.requests : line[1] = p} = {}
      BY <2>1
    <3> QED
      BY <3>1, FS_EmptySet DEF Written, LinesOf
  <2> QED
    BY <1>1, <2>2 DEF IsFiles
<1> DEFINE Fresh(o) ==
      [pc |-> "options", after |-> "generate", options |-> o, named |-> FALSE,
       calibrated |-> FALSE, records |-> 0, charged |-> 0, stop |-> o.cap = 0, done |-> 0,
       cut |-> 0, status |-> "running", level |-> "none", final |-> FALSE,
       meta |-> NoFile, exit |-> NoExit]
<1>3. run \in [Runs -> {Fresh(o) : o \in Options}]
  BY DEF Init
<1>4. ASSUME NEW o \in Options PROVE Fresh(o) \in Locals
  <2>1. /\ "options" \in Places /\ "generate" \in Afters /\ "running" \in Statuses
        /\ "none" \in Levels /\ NoFile \in Metas /\ NoExit \in Int
    BY DEF Places, Afters, Statuses, Levels, Metas, NoExit
  <2> QED
    BY <2>1 DEF Locals
<1>5. ASSUME NEW p \in Runs PROVE run[p] \in Locals /\ Good(p, run[p], files)
  <2>1. PICK o \in Options : run[p] = Fresh(o)
    BY <1>3
  <2>2. /\ run[p].pc = "options" /\ run[p].exit = NoExit /\ run[p].named = FALSE
        /\ run[p].charged = 0 /\ run[p].records = 0
    BY <2>1
  <2> HIDE DEF Fresh
  <2>3. Good(p, run[p], files)
    BY <1>2, <2>2 DEF Good, RequestsOK, PlaceOK, ExitOK, Generated, NoExit
  <2> QED
    BY <1>4, <2>1, <2>3
<1> QED
  BY <1>2, <1>3, <1>5 DEF CliInv

LEMMA StepGood ==
  CliInv /\ Numbered /\ [Next]_vars => CliInv'
<1> SUFFICES ASSUME CliInv, Numbered, [Next]_vars PROVE CliInv'
  OBVIOUS
<1>1. ASSUME NEW p \in Runs, Step(p) PROVE CliInv'
  BY <1>1, RejectKeeps, NameKeeps, OpenKeeps, TemporaryKeeps, ReplaceKeeps, StartKeeps,
     AttemptKeeps, RecordKeeps, ChargeKeeps, GenerationEndKeeps, GenerationRaiseKeeps,
     PartialKeeps, MergeKeeps, SessionsKeep, MetaKeeps, ReadMetaKeeps, ReportKeeps, SloKeeps
     DEF Step
<1>2. CASE UNCHANGED vars
  BY <1>2 DEF CliInv, vars
<1> QED
  BY <1>1, <1>2, KillKeeps, RerenderKeeps DEF Next

LEMMA InitNumbered ==
  Init => Numbered
BY DEF Init, NothingOnDisk, Numbered

\* What the files hold behind each place a run can be at, by whomever they are
\* written, and of a run that is alone: the invariant the properties below
\* follow from.
THEOREM CliInvariant == Spec => [](CliInv /\ Numbered /\ CliTold /\ CliFile)
BY InitGood, InitNumbered, InitTold, InitFile, StepGood, StepNumbers, StepTold, StepFile, PTL
   DEF Spec

\* The line of an attempt that was accounted for is not the one cut off, so
\* the other one, which spoilt it, is.
LEMMA AccountedLines ==
  ASSUME CliInv, CliFile, NEW p \in Runs, NEW n \in 1..run[p].charged
  PROVE  OnDisk(p, n)
<1>1. Accounting(p, run[p], files) /\ run[p].records \in Nat /\ run[p].charged \in Nat
  BY DEF CliFile, CliInv, Locals
<1>2. <<p, n>> \in files.requests
  BY <1>1 DEF Accounting
<1>3. ASSUME <<p, n>> \in files.lost PROVE \E q \in Runs \ {p} : Interrupted(q)
  <2>1. PICK k \in files.lost : k[1] # p /\ (Cutoff(<<p, n>>) \/ Cutoff(k))
    BY <1>3 DEF CliFile, Spoilt
  <2>2. ~Cutoff(<<p, n>>)
    BY <1>1 DEF Cutoff, Broke
  <2>3. PICK q \in Runs : Broke(run[q]) /\ k = <<q, run[q].records>>
    BY <2>1, <2>2 DEF Cutoff
  <2>4. q # p
    BY <2>1, <2>3
  <2> QED
    BY <2>1, <2>3, <2>4 DEF Interrupted, LastLine, Broke
<1> QED
  BY <1>2, <1>3 DEF OnDisk

\* cli.py's observer, which writes before it accounts: whatever is killed or
\* fails, inside a write too, and however many runs share the file, the record
\* of an attempt that was accounted for is in it, and its line is lost only to
\* another run of the second that broke off inside a line of its own.
THEOREM AccountedOnDisk == Spec => []AccountedIsOnDisk
<1>1. CliInv /\ CliFile => AccountedIsOnDisk
  BY AccountedLines DEF AccountedIsOnDisk
<1> QED
  BY <1>1, CliInvariant, PTL

\* Exit codes 0 and 3 stand for a whole run on disk, but for a line such a run
\* has spoilt, 2 for none.
THEOREM ExitHonest == Spec => []ExitCodeHonest
<1>1. CliInv /\ CliFile => ExitCodeHonest
  <2> SUFFICES ASSUME CliInv, CliFile, NEW p \in Runs
               PROVE  /\ (run[p].exit \in {0, 3}) =>
                           /\ run[p].exit = 3 <=> run[p].stop
                           /\ \A n \in 1..run[p].records : OnDisk(p, n)
                           /\ Exists(files.report) /\ Exists(files.lifecycle)
                           /\ \E k \in DOMAIN files.sessions :
                                files.sessions[k] = Batch(p, Summaries(p), TRUE, FALSE)
                      /\ run[p].exit = 2 => ~run[p].named
    BY DEF ExitCodeHonest
  <2>1. ExitOK(p, run[p], files) /\ Summaries(p) = run[p].done + run[p].cut
    BY SummariesTyped DEF CliInv, Good
  <2>2. run[p].exit \in {0, 3} => \A n \in 1..run[p].records : OnDisk(p, n)
    BY AccountedLines DEF CliFile, Accounting
  <2> QED
    BY <2>1, <2>2 DEF ExitOK, Delivered
<1> QED
  BY <1>1, CliInvariant, PTL
-----------------------------------------------------------------------------
(* What is made of the files afterwards *)

LEMMA LinesAlone ==
  ASSUME CliInv, CliTold, NEW p \in Runs, Alone(p)
  PROVE  /\ Sole(p, run[p], files) /\ run[p].named
         /\ Lines(files) = Written(files, p) /\ Lines(files) \in Nat
<1>1. Sole(p, run[p], files) /\ run[p].named
  BY DEF CliTold, Alone, Named
<1>2. {line \in files.requests : line[1] = p} = files.requests
  BY <1>1 DEF Sole
<1>3. Written(files, p) \in Nat
  BY WrittenTyped DEF CliInv
<1> QED
  BY <1>1, <1>2, <1>3 DEF Lines, Written, LinesOf

\* No record, but a zero cap that says why.
LEMMA EmptyAccepted ==
  ASSUME CliInv, CliTold, NEW p \in Runs, Complete(p, run[p], files),
         files.meta = Meta(p, run[p]), run[p].records = 0
  PROVE  AcceptsEmpty(files)
<1>1. /\ run[p].options.cap = 0 /\ run[p].stop /\ run[p].status = "stopped"
      /\ run[p].done = 0 /\ run[p].cut = 0 /\ ~run[p].calibrated
  BY DEF CliTold, Local, Complete, NoCap
<1>2. run[p].charged = 0
  <2>1. Written(files, p) = 0 /\ run[p].charged <= Written(files, p) /\ run[p].charged \in Nat
    BY DEF CliTold, Told, Complete, CliInv, Good, RequestsOK, Locals
  <2> QED
    BY <2>1
<1>3. IsSavedZeroCapRun(files)
  <2>1. files.meta.cap = 0 /\ files.meta.by = p /\ files.meta # NoFile
    BY <1>1, MetaReadable DEF Readable
  <2>2. /\ files.lifecycle.by = p /\ files.lifecycle.status = "stopped"
        /\ files.lifecycle.stop /\ files.lifecycle.completed = 0
        /\ files.lifecycle.sessions = 0 /\ files.lifecycle.charged = 0
        /\ ~files.lifecycle.calibrated
    BY <1>1, <1>2 DEF Complete, Snap
  <2>3. files.lifecycle # NoFile
    BY <2>2, NoRunAssumption DEF NoFile
  <2> QED
    BY <2>1, <2>2, <2>3 DEF IsSavedZeroCapRun
<1>4. files.sessions # <<>> /\ \A k \in DOMAIN files.sessions : files.sessions[k].lines = 0
  BY <1>1 DEF Complete, Batch
<1> QED
  BY <1>3, <1>4 DEF AcceptsEmpty

\* Nobody else's line to spoil, and none cut off by a run that got so far.
LEMMA LinesReadable ==
  ASSUME CliInv, CliTold, CliFile, NEW p \in Runs, Alone(p), run[p].after = "merge"
  PROVE  ~Unreadable(files)
<1>1. \A q \in Runs : run[q].named => q = p
  BY DEF Alone, Named
<1>2. files.lost = {}
  <2> SUFFICES ASSUME NEW l \in files.lost PROVE FALSE
    OBVIOUS
  <2>1. PICK k \in files.lost : k[1] # l[1] /\ run[l[1]].named /\ run[k[1]].named
    BY DEF CliFile, Spoilt
  <2>2. l[1] \in Runs /\ k[1] \in Runs
    BY DEF CliInv, IsFiles, FilesOf
  <2> QED
    BY <1>1, <2>1, <2>2
<1>3. files.unended = {}
  <2> SUFFICES ASSUME NEW l \in files.unended PROVE FALSE
    OBVIOUS
  <2>1. Broke(run[p])
    BY <1>1 DEF CliFile, Cutoff
  <2>2. run[p].charged = run[p].records
    BY DEF CliFile, Accounting
  <2>3. run[p].records \in Nat
    BY DEF CliInv, Locals
  <2> QED
    BY <2>1, <2>2, <2>3 DEF Broke
<1> QED
  BY <1>2, <1>3 DEF Unreadable

LEMMA Whole ==
  ASSUME CliInv, CliTold, CliFile, NEW p \in Runs, Alone(p), Readable(files.meta)
  PROVE  /\ Complete(p, run[p], files) /\ files.meta = Meta(p, run[p])
         /\ Lines(files) = run[p].records /\ LevelStatus(files) = run[p].level
         /\ Refused(files) = "no"
<1>1. Sole(p, run[p], files) /\ Lines(files) = Written(files, p)
  BY LinesAlone
<1>2. Complete(p, run[p], files) /\ files.meta = Meta(p, run[p])
  BY <1>1 DEF Sole, Readable
<1>3. Lines(files) = run[p].records
  BY <1>1, <1>2 DEF CliTold, Told, Complete
<1>4. LevelStatus(files) = run[p].level
  <2>1. files.meta # NoFile
    BY DEF Readable
  <2>2. CASE run[p].options.old
    <3>1. files.meta.level = NotRecorded
      BY <1>2, <2>2 DEF Meta
    <3>2. Exists(files.lifecycle) /\ files.lifecycle.level = run[p].level
      <4>1. files.lifecycle.by = p /\ files.lifecycle.level = run[p].level
        BY <1>2 DEF Complete, Snap
      <4> QED
        BY <4>1, NoRunAssumption DEF Exists, NoFile
    <3> QED
      BY <3>1, <3>2 DEF LevelStatus
  <2>3. CASE ~run[p].options.old
    <3>1. files.meta.level = run[p].level
      BY <1>2, <2>3 DEF Meta
    <3>2. run[p].level # NotRecorded
      BY DEF CliInv, Locals, Levels, NotRecorded
    <3> QED
      BY <2>1, <3>1, <3>2 DEF LevelStatus
  <2> QED
    BY <2>2, <2>3
<1>5. Refused(files) = "no"
  <2>1. files.opened /\ files.meta # Torn
    BY <1>2 DEF Complete, Readable
  <2>2. ~\E k \in DOMAIN files.sessions : files.sessions[k].torn
    BY <1>2 DEF Complete, Batch
  <2>3. Lines(files) = 0 => AcceptsEmpty(files)
    BY <1>2, <1>3, EmptyAccepted
  <2>4. ~Unreadable(files)
    BY <1>2, LinesReadable DEF Complete
  <2> QED
    BY <2>1, <2>2, <2>3, <2>4 DEF Refused
<1> QED
  BY <1>2, <1>3, <1>4, <1>5

Credited(report, p) == [report EXCEPT !.by = p]

LEMMA ByAnother ==
  ASSUME NEW meta, NEW requests, NEW known \in BOOLEAN, NEW sessions,
         NEW level, NEW y
  PROVE  Credited(ReportOf(meta, requests, known, sessions, level), y) =
           ReportOf([by |-> y], requests, known, sessions, level)
BY DEF ReportOf, Credited

\* rerender.py: what kneepoint report makes of the files of a run, whenever
\* they have metadata, is the report cli.py made or would have made.
THEOREM Rerendered == Spec => []RerenderIsTheReport
<1>1. CliInv /\ CliTold /\ CliFile => RerenderIsTheReport
  <2> SUFFICES ASSUME CliInv, CliTold, CliFile, NEW p \in Runs, Alone(p), Readable(files.meta)
               PROVE  RenderFromFiles(files) = [RunReport(p) EXCEPT !.by = p]
    BY DEF RerenderIsTheReport, Readable
  <2>1. /\ Complete(p, run[p], files) /\ files.meta = Meta(p, run[p])
        /\ Lines(files) = run[p].records /\ LevelStatus(files) = run[p].level
        /\ Refused(files) = "no"
    BY Whole
  <2> DEFINE sessions == <<Batch(p, Summaries(p), TRUE, FALSE)>>
  <2>2. files.sessions = sessions /\ files.sessions # <<>>
    <3>1. Summaries(p) = run[p].done + run[p].cut
      BY SummariesTyped
    <3> QED
      BY <2>1, <3>1 DEF Complete
  <2>3. files.meta.by = p
    BY <2>1, MetaReadable
  <2> HIDE DEF sessions
  <2> DEFINE known == TRUE
  <2>a. known \in BOOLEAN
    OBVIOUS
  <2>4. RenderFromFiles(files) =
          ReportOf([by |-> p], run[p].records, known, sessions, run[p].level)
    BY <2>1, <2>2, <2>3 DEF RenderFromFiles, ReportOf
  <2>5. RunReport(p) = ReportOf(run[p].meta, run[p].records, known, sessions, run[p].level)
    BY DEF RunReport, sessions
  <2> HIDE DEF known
  <2>6. RenderFromFiles(files) = Credited(RunReport(p), p)
    BY <2>a, <2>4, <2>5, ByAnother
  <2> QED
    BY <2>6 DEF Credited
<1> QED
  BY <1>1, CliInvariant, PTL

\* rerender.py on what a failed or killed run left.
THEOREM PartialReported == Spec => []PartialRunsReportedAsSuch
<1>1. CliInv /\ CliTold /\ CliFile => PartialRunsReportedAsSuch
  <2> SUFFICES ASSUME CliInv, CliTold, CliFile, NEW p \in Runs, Alone(p), Refused(files) = "no"
               PROVE  LET report == RenderFromFiles(files) IN
                      /\ report.level = "completed" => run[p].level = "completed"
                      /\ report.by = p => run[p].status # "failed" /\ run[p].final
                      /\ report.requests < run[p].records => report.level # "completed"
    BY DEF PartialRunsReportedAsSuch
  <2> DEFINE report == RenderFromFiles(files)
  <2>1. /\ report.by = files.meta.by /\ report.requests = Lines(files)
        /\ report.level = LevelStatus(files)
    BY DEF RenderFromFiles, ReportOf
  <2> HIDE DEF report
  <2>2. Sole(p, run[p], files) /\ Lines(files) = Written(files, p) /\ Lines(files) \in Nat
    BY LinesAlone
  <2>3. LevelStatus(files) = "completed" => run[p].level = "completed"
    <3>1. CASE Readable(files.meta)
      BY <3>1, Whole
    <3>2. CASE files.meta = NoFile
      <4>1. LevelStatus(files) =
              IF Exists(files.lifecycle) THEN files.lifecycle.level ELSE "none"
        BY <3>2 DEF LevelStatus
      <4> QED
        BY <2>2, <4>1 DEF Sole
    <3>3. CASE files.meta = Torn
      BY <3>3 DEF Refused
    <3> QED
      BY <3>1, <3>2, <3>3 DEF Readable
  <2>4. files.meta.by = p => run[p].status # "failed" /\ run[p].final
    <3>1. files.meta.by = p => Readable(files.meta)
      BY NoRunAssumption DEF Readable, NoFile, Torn
    <3>2. Readable(files.meta) => Complete(p, run[p], files)
      BY Whole
    <3> QED
      BY <3>1, <3>2 DEF Complete, CliTold, Local
  <2>5. run[p].level = "completed" => Lines(files) = run[p].records
    BY <2>2 DEF CliTold, Local, Told
  <2>6. run[p].records \in Nat
    BY DEF CliInv, Locals
  <2> QED
    BY <2>1, <2>2, <2>3, <2>4, <2>5, <2>6 DEF report
<1> QED
  BY <1>1, CliInvariant, PTL

\* rerender.py and _is_saved_zero_cap_run, whatever other runs left beside.
THEOREM EmptyReported == Spec => []EmptyReportIsZeroCap
<1>1. ASSUME CliInv, CliTold, CliFile, Refused(files) = "no", Lines(files) = 0
      PROVE  \E p \in Named : /\ files.meta.by = p /\ run[p].options.cap = 0
                              /\ run[p].records = 0 /\ ~run[p].calibrated
  <2>1. files.meta # Torn /\ files.meta # NoFile /\ files.meta.cap = 0
    BY <1>1 DEF Refused, AcceptsEmpty, IsSavedZeroCapRun
  <2>2. PICK p \in Runs : files.meta.by = p
    BY <1>1, <2>1 DEF CliInv, IsFiles, FilesOf, Metas
  <2>3. /\ run[p].named /\ run[p].options.cap = 0 /\ ~run[p].calibrated
        /\ Written(files, p) = run[p].records
    BY <1>1, <2>1, <2>2 DEF CliTold, Told, Local, Readable, NoCap
  <2>4. Written(files, p) = 0
    <3>1. files.requests \in RequestFiles
      BY <1>1 DEF CliInv, IsFiles, FilesOf
    <3>2. files.requests = {}
      BY <1>1, <3>1, FS_EmptySet DEF Lines, RequestFiles
    <3>3. {line \in files.requests : line[1] = p} = {}
      BY <3>2
    <3> QED
      BY <3>3, FS_EmptySet DEF Written, LinesOf
  <2> QED
    BY <2>2, <2>3, <2>4 DEF Named
<1>2. ASSUME CliInv, CliTold, CliFile, NEW p \in Runs, Alone(p), run[p].exit \in {0, 3}
      PROVE  Refused(files) = "no"
  <2>1. files.meta = Meta(p, run[p])
    BY <1>2, LinesAlone DEF Sole
  <2>2. Readable(files.meta)
    BY <2>1, MetaReadable
  <2> QED
    BY <1>2, <2>2, Whole
<1>3. CliInv /\ CliTold /\ CliFile => EmptyReportIsZeroCap
  BY <1>1, <1>2 DEF EmptyReportIsZeroCap
<1> QED
  BY <1>3, CliInvariant, PTL
=============================================================================
