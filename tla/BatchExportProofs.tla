-------------------------- MODULE BatchExportProofs --------------------------
(***************************************************************************)
(* What a batch leaves on disk, for any stocks, packages, sources, workers *)
(* and attempts, and any number of commands, changes of the task centre    *)
(* and kills.                                                              *)
(*                                                                         *)
(* The three properties of BatchExport rest on one invariant, Good.  A     *)
(* stock whose row says success has no task, so nothing writes its files   *)
(* again: Working and Listed say whose files may change, Written and       *)
(* Earned what a task has on disk when it reports success, Opened that     *)
(* the package of the checkpoint is fixed before the first success, and    *)
(* Reducing what a reduction under way has read.                           *)
(***************************************************************************)
EXTENDS BatchExport, FiniteSetTheorems, TLAPS

Stages == {"none", "queued", "between", "locate", "fetch", "export", "formal", "rest",
           "manifest", "prune", "done"}
Tasks == [at : Stages, row : Rows, home : Homes, source : Facts]
Reductive == {"formal", "rest", "ledgers", "validation", "batch_manifest"}
Procs == [at : {"off", "work", "verdict", "reduce", "reset"} \cup Reductive,
          todo : SUBSET Stocks, expired : BOOLEAN, deferred : SUBSET Stocks,
          package : Packs, authorized : SUBSET Stocks]
Validations == [status : Verdicts \cup {"none"}, successful : Nat, failed : Nat, deferred : Nat]
LedgerFiles == [state : {"missing", "torn", "whole"}, completed : SUBSET Stocks]
Reductions == [formal : [Stocks -> Contents], rest : [Stocks -> Contents], ledgers : LedgerFiles,
               validation : Validations, manifest : Verdicts \cup {"none"}, package : Packs]
Pointers == [state : {"none", "ready", "incomplete"}, source : Facts, job : Homes]
Fetches == [evidence : {"none", "ok", "quote502", "other"},
            reason : {"none", Blank, "groups", "network", "resolution"}]
Checkpoints == [package : Packs, status : Verdicts \cup {"none", "RUNNING"}, rows : [Stocks -> Rows]]

Types ==
    /\ pointer \in [Stocks -> Pointers]
    /\ checkpoint \in Checkpoints
    /\ snapshot \in Packs
    /\ fetched \in [Stocks -> Fetches]
    /\ export \in [Stocks -> Exports]
    /\ reduced \in Reductions
    /\ proc \in Procs
    /\ task \in [Stocks -> Tasks]
    /\ moves \in Nat /\ crashes \in Nat

\* Only a run that is ready names facts.
Pointed == \A s \in Stocks : pointer[s].state = "ready" => pointer[s].source \in SourceIds

\* Before the first run-batch there is no process and no row has changed.
Opened ==
    /\ checkpoint.package \in Valid \cup {NoPackage}
    /\ checkpoint.package = NoPackage =>
         proc.at = "off" /\ \A s \in Stocks : checkpoint.rows[s].status = "PENDING"

\* What is still to be submitted, or was deferred, has not succeeded.
Listed ==
    proc.at \in {"work", "verdict"} =>
        /\ proc.todo \cap proc.deferred = {}
        /\ \A s \in proc.todo \cup proc.deferred : checkpoint.rows[s].status \in RESUMABLE

\* A stock that is worked on is FETCHING in the checkpoint.
Working ==
    \A s \in Stocks : task[s].at # "none" =>
        /\ proc.at = "work" /\ s \notin proc.todo \cup proc.deferred
        /\ checkpoint.rows[s].status = "FETCHING"

\* A task that exports has facts, and the files it has passed are there.
Written ==
    \A s \in Stocks :
        /\ task[s].at \in {"export", "formal", "rest", "manifest"} => task[s].source \in SourceIds
        /\ task[s].at \in {"rest", "manifest"} => export[s].formal.state # "missing"
        /\ task[s].at = "manifest" => export[s].rest.state # "missing"

\* The files of a success.
Backed(s, status) ==
    /\ FilesExist(export[s])
    /\ export[s].manifest.package = checkpoint.package
    /\ status = SuccessStatus(export[s].manifest.status)

\* A task that reports success has written, or found, all its files.
Earned ==
    \A s \in Stocks :
        task[s].at \in {"prune", "done"} /\ task[s].row.status \in TERMINAL_SUCCESS =>
            Backed(s, task[s].row.status)

\* Whole tables are computed from a valid package and facts.
Computed ==
    \A s \in Stocks : export[s].formal.state = "whole" =>
        export[s].formal.package \in Valid /\ export[s].formal.source \in SourceIds

\* No row and no export changes under a reduction: what it has written so far is what the
\* exports have, and a validation that passes has seen every stock succeed.
Reducing ==
    /\ proc.at \in Reductive => SUCCEEDED \cup FAILED \cup DEFERRED = Stocks
    /\ proc.at \in Reductive \ {"formal"} =>
         \A s \in SUCCEEDED : reduced.formal[s] = export[s].formal
    /\ proc.at \in Reductive \ {"formal", "rest"} =>
         \A s \in SUCCEEDED : reduced.rest[s] = export[s].rest
    /\ proc.at \in {"validation", "batch_manifest"} => reduced.ledgers = Ledgers("whole", SUCCEEDED)
    /\ proc.at = "batch_manifest" /\ reduced.validation.status \in PASSES => SUCCEEDED = Stocks

Succeeded ==
    \A s \in Stocks : checkpoint.rows[s].status \in TERMINAL_SUCCESS =>
        Backed(s, checkpoint.rows[s].status)
\* What the batch has under a manifest that passes: all stocks, and of their exports what no
\* kill has torn.
Lasting(m) ==
    m.manifest \in PASSES =>
        /\ \A s \in Stocks : /\ checkpoint.rows[s].status \in TERMINAL_SUCCESS
                             /\ Kept(m.formal[s], export[s].formal)
                             /\ Kept(m.rest[s], export[s].rest)
        /\ \/ m.ledgers = Ledgers("whole", Stocks)
           \/ m.ledgers = Ledgers("torn", {}) /\ crashes > 0
Passed == Lasting(reduced)
Pooled == Cardinality(Busy) <= Workers

Good ==
    /\ Types /\ Pointed /\ Opened /\ Listed /\ Working /\ Written /\ Earned /\ Computed
    /\ Reducing /\ Succeeded /\ Passed /\ Pooled

-----------------------------------------------------------------------------
(* The constants.                                                          *)

LEMMA Constants ==
    /\ IsFiniteSet(Stocks) /\ Workers \in Nat /\ MaxAttempts \in Nat
    /\ 0 \notin PackageIds /\ 0 \notin SourceIds /\ Valid \subseteq PackageIds
    /\ NoPackage = 0 /\ NoSource = 0
    /\ NoRun \in Homes /\ OwnRun \in Homes
BY BatchExportAssumption DEF PackageIds, SourceIds, Valid, NoPackage, NoSource, NoRun, OwnRun, Homes

\* No status of a success is one of the others.
LEMMA Successes ==
    /\ "FETCHING" \notin TERMINAL_SUCCESS /\ "PENDING" \notin TERMINAL_SUCCESS
    /\ \A status \in RESUMABLE : status \notin TERMINAL_SUCCESS
    /\ "FAILED_TERMINAL" \notin TERMINAL_SUCCESS
    /\ \A status : SuccessStatus(status) \in TERMINAL_SUCCESS
    /\ TERMINAL_SUCCESS \subseteq Statuses /\ RESUMABLE \subseteq Statuses
BY DEF TERMINAL_SUCCESS, RESUMABLE, RETRYABLE_STATUSES, SuccessStatus, Statuses

LEMMA RowTyped ==
    ASSUME NEW status \in Statuses, NEW attempts \in 0..MaxAttempts, NEW code \in ErrorCodes
    PROVE  /\ Row(status, attempts, code) \in Rows
           /\ Row(status, attempts, code).status = status
           /\ Row(status, attempts, code).attempts = attempts
BY DEF Row, Rows

LEMMA CodesTyped ==
    {Blank, "F10_FETCH_FAILED", "TIME_BUDGET_REACHED", "INTERRUPTED_IN_FLIGHT", "EXPORT",
     "PROCESSOR_EXCEPTION"} \subseteq ErrorCodes
BY DEF ErrorCodes

LEMMA EmptyTyped ==
    /\ Row("PENDING", 0, Blank) \in Rows
    /\ Fresh \in [Stocks -> Rows] /\ \A s \in Stocks : Fresh[s].status = "PENDING"
    /\ NoTask \in Tasks /\ NoTask.at = "none"
    /\ Missing \in Contents /\ Missing.state = "missing"
    /\ Torn \in Contents /\ Torn.state = "torn"
    /\ NoManifest \in Manifests /\ NoManifest.status = "none"
    /\ NoExport \in Exports /\ NoExport.formal = Missing
    /\ NotFetched \in Fetches
    /\ NoReport \in Validations
    /\ NotReduced \in Reductions /\ NotReduced.manifest = "none"
    /\ Off \in Procs /\ Off.at = "off" /\ Off.todo = {} /\ Off.deferred = {}
<1>1. Row("PENDING", 0, Blank) \in Rows /\ Row("PENDING", 0, Blank).status = "PENDING"
  <2>1. "PENDING" \in Statuses /\ 0 \in 0..MaxAttempts /\ Blank \in ErrorCodes
    BY Constants DEF Statuses, RESUMABLE, ErrorCodes
  <2> QED
    BY ONLY <2>1, RowTyped
<1>2. Fresh \in [Stocks -> Rows] /\ \A s \in Stocks : Fresh[s].status = "PENDING"
  BY <1>1 DEF Fresh
<1>3. NoTask \in Tasks /\ NoTask.at = "none"
  BY <1>1, Constants DEF NoTask, Tasks, Stages, Facts
<1>4. /\ Missing \in Contents /\ Missing.state = "missing"
      /\ Torn \in Contents /\ Torn.state = "torn"
  BY DEF Missing, Torn, Content, Contents, Packs, Facts
<1>5. NoManifest \in Manifests /\ NoManifest.status = "none"
  BY Constants DEF NoManifest, Manifests, Packs, Facts
<1>6. NoExport \in Exports /\ NoExport.formal = Missing
  BY <1>4, <1>5 DEF NoExport, Exports
<1>7. NotFetched \in Fetches
  BY DEF NotFetched, Fetches
<1>8. NoReport \in Validations
  BY DEF NoReport, Validations, Verdicts
<1>9. Everywhere(Missing) \in [Stocks -> Contents] /\ Ledgers("missing", {}) \in LedgerFiles
  BY <1>4 DEF Everywhere, Ledgers, LedgerFiles
<1>10. NotReduced \in Reductions /\ NotReduced.manifest = "none"
  BY <1>8, <1>9 DEF NotReduced, Reductions, Packs, Verdicts
<1>11. Off \in Procs /\ Off.at = "off" /\ Off.todo = {} /\ Off.deferred = {}
  BY DEF Off, Procs, Packs
<1> QED
  BY <1>1, <1>2, <1>3, <1>4, <1>5, <1>6, <1>7, <1>8, <1>10, <1>11

-----------------------------------------------------------------------------
(* The step of a task: it and its files change, nothing else of the batch. *)

LEMMA SameExport ==
    ASSUME NEW s \in Stocks, export \in [Stocks -> Exports]
    PROVE  export = [export EXCEPT ![s] = export[s]]
OBVIOUS

\* The pool takes one more only if there is room.
LEMMA PoolStep ==
    ASSUME Pooled, NEW s \in Stocks, NEW t, task \in [Stocks -> Tasks],
           task' = [task EXCEPT ![s] = t],
           \/ task[s].at \notin {"none", "queued", "done"}
           \/ t.at \in {"none", "queued", "done"}
           \/ Cardinality(Busy) < Workers
    PROVE  Pooled'
<1> DEFINE Taken(u) == u.at \notin {"none", "queued", "done"}
<1>1. IsFiniteSet(Stocks) /\ Workers \in Nat
  BY Constants
<1>2. Busy \subseteq Stocks /\ IsFiniteSet(Busy) /\ Cardinality(Busy) \in Nat
  BY <1>1, FS_Subset, FS_CardinalityType DEF Busy
<1>3. \A r \in Stocks : task'[r] = IF r = s THEN t ELSE task[r]
  OBVIOUS
<1>4. Busy' = {r \in Stocks : task'[r].at \notin {"none", "queued", "done"}}
  BY DEF Busy
<1>5. CASE task[s].at \notin {"none", "queued", "done"} \/ t.at \in {"none", "queued", "done"}
  <2>1. Busy' \subseteq Busy
    BY <1>3, <1>4, <1>5 DEF Busy
  <2>2. IsFiniteSet(Busy') /\ Cardinality(Busy') <= Cardinality(Busy)
    BY <2>1, <1>2, FS_Subset
  <2>3. Cardinality(Busy') \in Nat
    BY <2>2, FS_CardinalityType
  <2> QED
    BY <2>2, <2>3, <1>1, <1>2 DEF Pooled
<1>6. CASE Cardinality(Busy) < Workers
  <2>1. Busy' \subseteq Busy \cup {s}
    BY <1>3, <1>4 DEF Busy
  <2>2. /\ IsFiniteSet(Busy \cup {s})
        /\ Cardinality(Busy \cup {s}) =
             IF s \in Busy THEN Cardinality(Busy) ELSE Cardinality(Busy) + 1
    BY <1>2, FS_AddElement
  <2>3. IsFiniteSet(Busy') /\ Cardinality(Busy') <= Cardinality(Busy \cup {s})
    BY <2>1, <2>2, FS_Subset
  <2>4. Cardinality(Busy') \in Nat /\ Cardinality(Busy \cup {s}) \in Nat
    BY <2>2, <2>3, FS_CardinalityType
  <2> QED
    BY <2>2, <2>3, <2>4, <1>1, <1>2, <1>6 DEF Pooled
<1> QED
  BY <1>5, <1>6

LEMMA TaskStep ==
    ASSUME Good, NEW s \in Stocks, NEW t \in Tasks, NEW e \in Exports,
           task[s].at # "none", t.at # "none",
           task' = [task EXCEPT ![s] = t],
           export' = [export EXCEPT ![s] = e],
           fetched' \in [Stocks -> Fetches],
           UNCHANGED <<pointer, checkpoint, snapshot, reduced, proc, moves, crashes>>,
           t.at \in {"export", "formal", "rest", "manifest"} => t.source \in SourceIds,
           t.at \in {"rest", "manifest"} => e.formal.state # "missing",
           t.at = "manifest" => e.rest.state # "missing",
           t.at \in {"prune", "done"} /\ t.row.status \in TERMINAL_SUCCESS =>
             /\ FilesExist(e) /\ e.manifest.package = checkpoint.package
             /\ t.row.status = SuccessStatus(e.manifest.status),
           e.formal.state = "whole" => e.formal.package \in Valid /\ e.formal.source \in SourceIds,
           \/ task[s].at \notin {"none", "queued", "done"}
           \/ t.at \in {"none", "queued", "done"}
           \/ Cardinality(Busy) < Workers
    PROVE  Good'
<1>1. /\ task \in [Stocks -> Tasks] /\ export \in [Stocks -> Exports]
  BY DEF Good, Types
<1>2. /\ \A r \in Stocks : task'[r] = IF r = s THEN t ELSE task[r]
      /\ \A r \in Stocks : export'[r] = IF r = s THEN e ELSE export[r]
      /\ task' \in [Stocks -> Tasks] /\ export' \in [Stocks -> Exports]
  BY <1>1
<1>3. checkpoint.rows[s].status = "FETCHING" /\ proc.at = "work"
  BY DEF Good, Working
<1>4. checkpoint.rows[s].status \notin TERMINAL_SUCCESS
  BY <1>3, Successes
<1>5. Types'
  BY <1>2 DEF Good, Types
<1>6. Pointed' /\ Opened' /\ Listed'
  BY DEF Good, Pointed, Opened, Listed
<1>7. Working'
  BY <1>2, <1>3 DEF Good, Working
<1>8. Written'
  BY <1>2 DEF Good, Written
<1>9. Earned'
  BY <1>2 DEF Good, Earned, Backed, FilesExist
<1>10. Computed'
  BY <1>2 DEF Good, Computed
<1>11. Reducing'
  BY <1>3 DEF Reducing, Reductive
<1>12. Succeeded'
  BY <1>2, <1>4 DEF Good, Succeeded, Backed, FilesExist
<1>13. Passed'
  BY <1>2, <1>4 DEF Good, Passed, Lasting, Kept
<1>14. Pooled'
  BY <1>1, PoolStep DEF Good
<1> QED
  BY <1>5, <1>6, <1>7, <1>8, <1>9, <1>10, <1>11, <1>12, <1>13, <1>14 DEF Good

\* The step of a task that leaves the files alone.
LEMMA QuietStep ==
    ASSUME Good, NEW s \in Stocks, NEW t \in Tasks,
           task[s].at # "none", t.at \notin {"none", "rest", "manifest"},
           task' = [task EXCEPT ![s] = t],
           fetched' \in [Stocks -> Fetches],
           UNCHANGED <<pointer, checkpoint, snapshot, export, reduced, proc, moves, crashes>>,
           t.at \in {"export", "formal"} => t.source \in SourceIds,
           t.at \in {"prune", "done"} /\ t.row.status \in TERMINAL_SUCCESS => Backed(s, t.row.status),
           \/ task[s].at \notin {"none", "queued", "done"}
           \/ t.at \in {"none", "queued", "done"}
           \/ Cardinality(Busy) < Workers
    PROVE  Good'
<1>1. export \in [Stocks -> Exports] /\ export[s] \in Exports
  BY DEF Good, Types
<1>2. export' = [export EXCEPT ![s] = export[s]]
  BY <1>1, SameExport
<1>3. export[s].formal.state = "whole" =>
        export[s].formal.package \in Valid /\ export[s].formal.source \in SourceIds
  BY DEF Good, Computed
<1>4. t.at \in {"prune", "done"} /\ t.row.status \in TERMINAL_SUCCESS =>
        /\ FilesExist(export[s]) /\ export[s].manifest.package = checkpoint.package
        /\ t.row.status = SuccessStatus(export[s].manifest.status)
  BY DEF Backed
<1> QED
  BY <1>1, <1>2, <1>3, <1>4, TaskStep

\* The fields of a task.
LEMMA TaskTyped ==
    ASSUME Good, NEW s \in Stocks
    PROVE  /\ task[s] \in Tasks /\ task[s].row \in Rows /\ task[s].at \in Stages
           /\ task[s].row.attempts \in 0..MaxAttempts /\ task[s].row.code \in ErrorCodes
           /\ task[s].row.status \in Statuses
           /\ task[s].home \in Homes /\ task[s].source \in Facts
           /\ fetched \in [Stocks -> Fetches] /\ fetched[s] \in Fetches
BY DEF Good, Types, Tasks, Rows

LEMMA FinishStep ==
    ASSUME Good, NEW s \in Stocks, NEW status \in Statuses \ TERMINAL_SUCCESS, NEW code \in ErrorCodes,
           task[s].at # "none", Finish(s, status, code),
           fetched' \in [Stocks -> Fetches],
           UNCHANGED <<pointer, checkpoint, snapshot, export, reduced, proc, moves, crashes>>
    PROVE  Good'
<1>1. PICK row : row = Row(status, task[s].row.attempts, code)
  OBVIOUS
<1>2. row \in Rows /\ row.status = status
  BY <1>1, TaskTyped, RowTyped
<1>3. PICK t : t = [NoTask EXCEPT !.at = "done", !.row = row]
  OBVIOUS
<1>4. t \in Tasks /\ t.at = "done" /\ t.row = row
  BY <1>2, <1>3, EmptyTyped DEF Tasks, Stages
<1>5. task' = [task EXCEPT ![s] = t]
  BY <1>1, <1>3 DEF Finish, Put
<1> QED
  BY <1>2, <1>4, <1>5, QuietStep

LEMMA AttemptStep ==
    ASSUME Good, NEW s \in Stocks, Attempt(s)
    PROVE  Good'
<1>1. task[s].at \in {"queued", "between"}
  BY DEF Attempt
<1>2. fetched' \in [Stocks -> Fetches]
  BY TaskTyped DEF Attempt, diskVars, boundVars
<1>3. UNCHANGED <<pointer, checkpoint, snapshot, export, reduced, proc, moves, crashes>>
  BY DEF Attempt, diskVars, boundVars
<1>4. CASE Finish(s, "FAILED_RETRYABLE", task[s].row.code)
  <2>1. "FAILED_RETRYABLE" \in Statuses \ TERMINAL_SUCCESS
    BY Successes DEF RESUMABLE, RETRYABLE_STATUSES
  <2> QED
    BY <1>1, <1>2, <1>3, <1>4, <2>1, TaskTyped, FinishStep
<1>5. CASE Finish(s, "DEFERRED_TIME_BUDGET", "TIME_BUDGET_REACHED")
  <2>1. "DEFERRED_TIME_BUDGET" \in Statuses \ TERMINAL_SUCCESS
    BY Successes DEF RESUMABLE, RETRYABLE_STATUSES
  <2> QED
    BY <1>1, <1>2, <1>3, <1>5, <2>1, CodesTyped, FinishStep
<1>6. CASE /\ task[s].row.attempts < MaxAttempts
           /\ Put(s, [task[s] EXCEPT !.at = "locate", !.row.attempts = @ + 1])
  <2>1. PICK row : row = [task[s].row EXCEPT !.attempts = task[s].row.attempts + 1]
    OBVIOUS
  <2>2. task[s].row.attempts + 1 \in 0..MaxAttempts
    BY <1>6, TaskTyped, Constants
  <2>3. row \in Rows
    BY <2>1, <2>2, TaskTyped DEF Rows
  <2>4. PICK t : t = [task[s] EXCEPT !.at = "locate", !.row = row]
    OBVIOUS
  <2>5. t \in Tasks /\ t.at = "locate"
    BY <2>3, <2>4, TaskTyped DEF Tasks, Stages
  <2>6. t = [task[s] EXCEPT !.at = "locate", !.row.attempts = @ + 1]
    BY <2>1, <2>4, TaskTyped DEF Tasks
  <2>7. task' = [task EXCEPT ![s] = t]
    BY <1>6, <2>6 DEF Put
  <2>8. task[s].at \notin {"none", "queued", "done"} \/ Cardinality(Busy) < Workers
    BY <1>1 DEF Attempt
  <2> QED
    BY <1>1, <1>2, <1>3, <2>5, <2>7, <2>8, QuietStep
<1>7. \/ Finish(s, "FAILED_RETRYABLE", task[s].row.code)
      \/ Finish(s, "DEFERRED_TIME_BUDGET", "TIME_BUDGET_REACHED")
      \/ /\ task[s].row.attempts < MaxAttempts
         /\ Put(s, [task[s] EXCEPT !.at = "locate", !.row.attempts = @ + 1])
  <2>1. task[s].row.attempts >= MaxAttempts \/ task[s].row.attempts < MaxAttempts
    BY TaskTyped, Constants
  <2> QED
    BY <2>1 DEF Attempt
<1> QED
  BY <1>4, <1>5, <1>6, <1>7

LEMMA LocateStep ==
    ASSUME Good, NEW s \in Stocks, Locate(s)
    PROVE  Good'
<1>1. task[s].at = "locate"
  BY DEF Locate
<1>2. fetched' \in [Stocks -> Fetches]
  BY TaskTyped DEF Locate, diskVars, boundVars
<1>3. UNCHANGED <<pointer, checkpoint, snapshot, export, reduced, proc, moves, crashes>>
  BY DEF Locate, diskVars, boundVars
<1>4. CASE Put(s, [task[s] EXCEPT !.at = "fetch"])
  <2>1. PICK t : t = [task[s] EXCEPT !.at = "fetch"]
    OBVIOUS
  <2>2. t \in Tasks /\ t.at = "fetch"
    BY <2>1, TaskTyped DEF Tasks, Stages
  <2> QED
    BY <1>1, <1>2, <1>3, <1>4, <2>1, <2>2, QuietStep DEF Put
<1>5. CASE Finish(s, "FAILED_TERMINAL", "EXPORT")
  <2>1. "FAILED_TERMINAL" \in Statuses \ TERMINAL_SUCCESS
    BY Successes DEF Statuses
  <2> QED
    BY <1>1, <1>2, <1>3, <1>5, <2>1, CodesTyped, FinishStep
<1>6. CASE /\ pointer[s].state \notin {"none", "incomplete"}
           /\ Put(s, [task[s] EXCEPT !.at = "export", !.home = pointer[s].job, !.source = pointer[s].source])
  <2>1. pointer[s].source \in SourceIds /\ pointer[s].job \in Homes
    BY <1>6 DEF Good, Types, Pointers, Pointed
  <2>2. PICK t : t = [task[s] EXCEPT !.at = "export", !.home = pointer[s].job, !.source = pointer[s].source]
    OBVIOUS
  <2>3. t \in Tasks /\ t.at = "export" /\ t.source = pointer[s].source
    BY <2>1, <2>2, TaskTyped DEF Tasks, Stages, Facts
  <2> QED
    BY <1>1, <1>2, <1>3, <1>6, <2>1, <2>2, <2>3, QuietStep DEF Put
<1>7. \/ Put(s, [task[s] EXCEPT !.at = "fetch"])
      \/ Finish(s, "FAILED_TERMINAL", "EXPORT")
      \/ /\ pointer[s].state \notin {"none", "incomplete"}
         /\ Put(s, [task[s] EXCEPT !.at = "export", !.home = pointer[s].job, !.source = pointer[s].source])
  BY DEF Locate
<1> QED
  BY <1>4, <1>5, <1>6, <1>7

\* A failed fetch is another attempt or the end of the stock.
LEMMA FetchFailedStep ==
    ASSUME Good, NEW s \in Stocks, NEW reason, task[s].at = "fetch", FetchFailed(s, reason),
           fetched' \in [Stocks -> Fetches],
           UNCHANGED <<pointer, checkpoint, snapshot, export, reduced, proc, moves, crashes>>
    PROVE  Good'
<1>1. CASE Put(s, [task[s] EXCEPT !.at = "between",
                     !.row = Row("FAILED_RETRYABLE", @.attempts, "F10_FETCH_FAILED")])
  <2>1. PICK row : row = Row("FAILED_RETRYABLE", task[s].row.attempts, "F10_FETCH_FAILED")
    OBVIOUS
  <2>2. row \in Rows
    BY <2>1, TaskTyped, RowTyped, CodesTyped, Successes DEF RESUMABLE, RETRYABLE_STATUSES
  <2>3. PICK t : t = [task[s] EXCEPT !.at = "between", !.row = row]
    OBVIOUS
  <2>4. t \in Tasks /\ t.at = "between"
    BY <2>2, <2>3, TaskTyped DEF Tasks, Stages
  <2>5. t = [task[s] EXCEPT !.at = "between",
               !.row = Row("FAILED_RETRYABLE", @.attempts, "F10_FETCH_FAILED")]
    BY <2>1, <2>3, TaskTyped DEF Tasks
  <2>6. task' = [task EXCEPT ![s] = t]
    BY <1>1, <2>5 DEF Put
  <2> QED
    BY <2>4, <2>6, QuietStep
<1>2. CASE Finish(s, "FAILED_TERMINAL", "F10_FETCH_FAILED")
  <2>1. "FAILED_TERMINAL" \in Statuses \ TERMINAL_SUCCESS
    BY Successes DEF Statuses
  <2> QED
    BY <1>2, <2>1, CodesTyped, FinishStep
<1> QED
  BY <1>1, <1>2 DEF FetchFailed

LEMMA FetchPassesStep ==
    ASSUME Good, NEW s \in Stocks, FetchPasses(s)
    PROVE  Good'
<1>1. PICK source \in SourceIds :
        /\ fetched' = [fetched EXCEPT ![s] = [evidence |-> "ok", reason |-> Blank]]
        /\ Put(s, [task[s] EXCEPT !.at = "export", !.home = OwnRun, !.source = source])
  BY DEF FetchPasses, boundVars
<1>2. task[s].at = "fetch"
  BY DEF FetchPasses, boundVars
<1>3. [evidence |-> "ok", reason |-> Blank] \in Fetches
  BY DEF Fetches
<1>4. fetched' \in [Stocks -> Fetches]
  BY <1>1, <1>3, TaskTyped
<1>5. PICK t : t = [task[s] EXCEPT !.at = "export", !.home = OwnRun, !.source = source]
  OBVIOUS
<1>6. t \in Tasks /\ t.at = "export" /\ t.source = source
  BY <1>5, TaskTyped, Constants DEF Tasks, Stages, Facts
<1>7. task' = [task EXCEPT ![s] = t]
  BY <1>1, <1>5 DEF Put
<1>8. UNCHANGED <<pointer, checkpoint, snapshot, export, reduced, proc, moves, crashes>>
  BY DEF FetchPasses, boundVars
<1> QED
  BY <1>2, <1>4, <1>6, <1>7, <1>8, QuietStep

LEMMA FetchFailsStep ==
    ASSUME Good, NEW s \in Stocks, FetchFails(s)
    PROVE  Good'
<1>1. task[s].at = "fetch" /\ UNCHANGED <<pointer, checkpoint, snapshot, export, reduced, proc, moves, crashes>>
  BY DEF FetchFails, boundVars
<1>2. CASE \E evidence \in {"quote502", "other"} :
             /\ fetched' = [fetched EXCEPT ![s] = [evidence |-> evidence, reason |-> "groups"]]
             /\ FetchFailed(s, "groups")
  <2>1. PICK evidence \in {"quote502", "other"} :
          /\ fetched' = [fetched EXCEPT ![s] = [evidence |-> evidence, reason |-> "groups"]]
          /\ FetchFailed(s, "groups")
    BY <1>2
  <2>2. [evidence |-> evidence, reason |-> "groups"] \in Fetches
    BY DEF Fetches
  <2>3. fetched' \in [Stocks -> Fetches]
    BY <2>1, <2>2, TaskTyped
  <2> QED
    BY <1>1, <2>1, <2>3, FetchFailedStep
<1>3. CASE \E reason \in {"network", "resolution"} :
             /\ fetched' = [fetched EXCEPT ![s].reason = reason]
             /\ FetchFailed(s, reason)
  <2>1. PICK reason \in {"network", "resolution"} :
          /\ fetched' = [fetched EXCEPT ![s].reason = reason]
          /\ FetchFailed(s, reason)
    BY <1>3
  <2>2. PICK f : f = [fetched[s] EXCEPT !.reason = reason]
    OBVIOUS
  <2>3. f \in Fetches
    BY <2>2, TaskTyped DEF Fetches
  <2>4. fetched' = [fetched EXCEPT ![s] = f]
    BY <2>1, <2>2
  <2>5. fetched' \in [Stocks -> Fetches]
    BY <2>3, <2>4, TaskTyped
  <2> QED
    BY <1>1, <2>1, <2>5, FetchFailedStep
<1> QED
  BY <1>2, <1>3 DEF FetchFails, boundVars

LEMMA FetchKilledStep ==
    ASSUME Good, NEW s \in Stocks, FetchKilled(s)
    PROVE  Good'
<1>1. task[s].at = "fetch" /\ FetchFailed(s, fetched[s].reason)
  BY DEF FetchKilled
<1>2. fetched' = fetched /\ UNCHANGED <<pointer, checkpoint, snapshot, export, reduced, proc, moves, crashes>>
  BY DEF FetchKilled, diskVars, boundVars
<1>3. fetched' \in [Stocks -> Fetches]
  BY <1>2, TaskTyped
<1> QED
  BY <1>1, <1>2, <1>3, FetchFailedStep

\* The task of a finished export.
LEMMA ExportedTyped ==
    ASSUME Good, NEW s \in Stocks, NEW status, Exported(s, status)
    PROVE  \E t \in Tasks :
             /\ t.at \in {"prune", "done"} /\ t.row.status = SuccessStatus(status)
             /\ task' = [task EXCEPT ![s] = t]
<1>1. PICK row : row = Row(SuccessStatus(status), task[s].row.attempts, Blank)
  OBVIOUS
<1>2. SuccessStatus(status) \in Statuses
  BY Successes
<1>3. row \in Rows /\ row.status = SuccessStatus(status)
  BY <1>1, <1>2, TaskTyped, RowTyped, CodesTyped
<1>4. PICK at : at = IF task[s].home = OwnRun THEN "prune" ELSE "done"
  OBVIOUS
<1>5. PICK t : t = [task[s] EXCEPT !.row = row, !.at = at]
  OBVIOUS
<1>6. t \in Tasks /\ t.at = at /\ t.row = row
  BY <1>3, <1>4, <1>5, TaskTyped DEF Tasks, Stages
<1>7. task' = [task EXCEPT ![s] = t]
  BY <1>1, <1>4, <1>5 DEF Exported, Put
<1> QED
  BY <1>3, <1>4, <1>6, <1>7

LEMMA ExportBeginStep ==
    ASSUME Good, NEW s \in Stocks, ExportBegin(s)
    PROVE  Good'
<1>1. task[s].at = "export" /\ task[s].source \in SourceIds
  BY DEF ExportBegin, Good, Written
<1>2. fetched' \in [Stocks -> Fetches]
  BY TaskTyped DEF ExportBegin, diskVars, boundVars
<1>3. UNCHANGED <<pointer, checkpoint, snapshot, export, reduced, proc, moves, crashes>>
  BY DEF ExportBegin, diskVars, boundVars
<1>4. CASE Cached(s) /\ Exported(s, export[s].manifest.status)
  <2>1. PICK t \in Tasks :
          /\ t.at \in {"prune", "done"} /\ t.row.status = SuccessStatus(export[s].manifest.status)
          /\ task' = [task EXCEPT ![s] = t]
    BY <1>4, ExportedTyped
  <2>2. Backed(s, t.row.status)
    BY <1>4, <2>1 DEF Cached, Decision, DecisionOf, Backed
  <2> QED
    BY <1>1, <1>2, <1>3, <2>1, <2>2, QuietStep
<1>5. CASE Finish(s, "FAILED_TERMINAL", "EXPORT")
  <2>1. "FAILED_TERMINAL" \in Statuses \ TERMINAL_SUCCESS
    BY Successes DEF Statuses
  <2> QED
    BY <1>1, <1>2, <1>3, <1>5, <2>1, CodesTyped, FinishStep
<1>6. CASE Put(s, [task[s] EXCEPT !.at = "formal"])
  <2>1. PICK t : t = [task[s] EXCEPT !.at = "formal"]
    OBVIOUS
  <2>2. t \in Tasks /\ t.at = "formal" /\ t.source = task[s].source
    BY <2>1, TaskTyped DEF Tasks, Stages
  <2>3. task' = [task EXCEPT ![s] = t]
    BY <1>6, <2>1 DEF Put
  <2> QED
    BY <1>1, <1>2, <1>3, <2>2, <2>3, QuietStep
<1> QED
  BY <1>4, <1>5, <1>6 DEF ExportBegin

\* The place of the files about to be written, by a process with a package and facts.
LEMMA WholeTyped ==
    ASSUME Good, NEW s \in Stocks, task[s].at \in {"formal", "rest", "manifest"}
    PROVE  /\ Whole(s) \in Contents /\ Whole(s).state = "whole"
           /\ Whole(s).package \in Valid /\ Whole(s).source \in SourceIds
           /\ export \in [Stocks -> Exports] /\ export[s] \in Exports
           /\ export[s].formal \in Contents /\ export[s].rest \in Contents
           /\ checkpoint.package \in Valid /\ task[s].source \in SourceIds
<1>1. proc.at = "work" /\ task[s].source \in SourceIds
  BY DEF Good, Working, Written
<1>2. checkpoint.package \in Valid
  BY <1>1 DEF Good, Opened
<1>3. checkpoint.package \in Packs /\ task[s].source \in Facts
  BY <1>1, <1>2, Constants DEF Packs, Facts
<1>4. export \in [Stocks -> Exports] /\ export[s] \in Exports
  BY DEF Good, Types
<1>5. export[s].formal \in Contents /\ export[s].rest \in Contents
  BY <1>4 DEF Exports
<1> QED
  BY <1>1, <1>2, <1>3, <1>4, <1>5 DEF Whole, Content, Contents

LEMMA WriteFormalStep ==
    ASSUME Good, NEW s \in Stocks, WriteFormal(s)
    PROVE  Good'
<1>1. /\ task[s].at = "formal" /\ export' = [export EXCEPT ![s].formal = Whole(s)]
      /\ Put(s, [task[s] EXCEPT !.at = "rest"])
      /\ UNCHANGED <<pointer, checkpoint, snapshot, reduced, proc, moves, crashes>> /\ fetched' = fetched
  BY DEF WriteFormal, boundVars
<1>2. fetched' \in [Stocks -> Fetches]
  BY <1>1, TaskTyped
<1>3. PICK e : e = [export[s] EXCEPT !.formal = Whole(s)]
  OBVIOUS
<1>4. /\ e \in Exports /\ e.formal = Whole(s)
      /\ export' = [export EXCEPT ![s] = e]
  BY <1>1, <1>3, WholeTyped DEF Exports
<1>5. e.formal.state = "whole" /\ e.formal.package \in Valid /\ e.formal.source \in SourceIds
  BY <1>1, <1>4, WholeTyped
<1>6. PICK t : t = [task[s] EXCEPT !.at = "rest"]
  OBVIOUS
<1>7. t \in Tasks /\ t.at = "rest" /\ t.source = task[s].source
  BY <1>6, TaskTyped DEF Tasks, Stages
<1>8. task' = [task EXCEPT ![s] = t]
  BY <1>1, <1>6 DEF Put
<1>9. task[s].source \in SourceIds
  BY <1>1, WholeTyped
<1> QED
  BY <1>1, <1>2, <1>4, <1>5, <1>7, <1>8, <1>9, TaskStep

LEMMA WriteRestStep ==
    ASSUME Good, NEW s \in Stocks, WriteRest(s)
    PROVE  Good'
<1>1. /\ task[s].at = "rest" /\ export' = [export EXCEPT ![s].rest = Whole(s)]
      /\ Put(s, [task[s] EXCEPT !.at = "manifest"])
      /\ UNCHANGED <<pointer, checkpoint, snapshot, reduced, proc, moves, crashes>> /\ fetched' = fetched
  BY DEF WriteRest, boundVars
<1>2. fetched' \in [Stocks -> Fetches]
  BY <1>1, TaskTyped
<1>3. PICK e : e = [export[s] EXCEPT !.rest = Whole(s)]
  OBVIOUS
<1>4. /\ e \in Exports /\ e.rest = Whole(s) /\ e.formal = export[s].formal
      /\ export' = [export EXCEPT ![s] = e]
  BY <1>1, <1>3, WholeTyped DEF Exports
<1>5. /\ e.rest.state = "whole" /\ e.formal.state # "missing"
      /\ e.formal.state = "whole" => e.formal.package \in Valid /\ e.formal.source \in SourceIds
  BY <1>1, <1>4, WholeTyped DEF Good, Written, Computed
<1>6. PICK t : t = [task[s] EXCEPT !.at = "manifest"]
  OBVIOUS
<1>7. t \in Tasks /\ t.at = "manifest" /\ t.source = task[s].source
  BY <1>6, TaskTyped DEF Tasks, Stages
<1>8. task' = [task EXCEPT ![s] = t]
  BY <1>1, <1>6 DEF Put
<1>9. task[s].source \in SourceIds
  BY <1>1, WholeTyped
<1> QED
  BY <1>1, <1>2, <1>4, <1>5, <1>7, <1>8, <1>9, TaskStep

LEMMA WriteManifestStep ==
    ASSUME Good, NEW s \in Stocks, WriteManifest(s)
    PROVE  Good'
<1>1. PICK status : status = ExportStatus(Mapped(s))
  OBVIOUS
<1>2. status \in {"PASS", "PASS_WITH_GAPS"}
  BY <1>1 DEF ExportStatus
<1>3. PICK m : m = [status |-> status, package |-> checkpoint.package,
                    source |-> task[s].source, home |-> task[s].home]
  OBVIOUS
<1>4. /\ task[s].at = "manifest" /\ export' = [export EXCEPT ![s].manifest = m]
      /\ Exported(s, status)
      /\ UNCHANGED <<pointer, checkpoint, snapshot, reduced, proc, moves, crashes>> /\ fetched' = fetched
  BY <1>1, <1>3 DEF WriteManifest, Decision, boundVars
<1>5. fetched' \in [Stocks -> Fetches]
  BY <1>4, TaskTyped
<1>6. m \in Manifests /\ m.status = status /\ m.package = checkpoint.package
  <2>1. checkpoint.package \in Packs
    BY <1>4, WholeTyped, Constants DEF Packs
  <2> QED
    BY <2>1, <1>2, <1>3, TaskTyped DEF Manifests
<1>7. PICK e : e = [export[s] EXCEPT !.manifest = m]
  OBVIOUS
<1>8. /\ e \in Exports /\ e.manifest = m
      /\ e.formal = export[s].formal /\ e.rest = export[s].rest
      /\ export' = [export EXCEPT ![s] = e]
  BY <1>4, <1>6, <1>7, WholeTyped DEF Exports
<1>9. FilesExist(e)
  BY <1>2, <1>4, <1>6, <1>8 DEF FilesExist, Good, Written
<1>10. e.formal.state = "whole" => e.formal.package \in Valid /\ e.formal.source \in SourceIds
  BY <1>8 DEF Good, Computed
<1>11. PICK t \in Tasks :
         /\ t.at \in {"prune", "done"} /\ t.row.status = SuccessStatus(status)
         /\ task' = [task EXCEPT ![s] = t]
  BY <1>4, ExportedTyped
<1> QED
  BY <1>4, <1>5, <1>6, <1>8, <1>9, <1>10, <1>11, TaskStep

LEMMA PruneStep ==
    ASSUME Good, NEW s \in Stocks, Prune(s)
    PROVE  Good'
<1>1. task[s].at = "prune" /\ UNCHANGED <<pointer, checkpoint, snapshot, export, reduced, proc, moves, crashes>>
  BY DEF Prune, boundVars
<1>2. CASE /\ fetched' = [fetched EXCEPT ![s] = NotFetched]
           /\ Put(s, [NoTask EXCEPT !.at = "done", !.row = task[s].row])
  <2>1. fetched' \in [Stocks -> Fetches]
    BY <1>2, EmptyTyped, TaskTyped
  <2>2. PICK t : t = [NoTask EXCEPT !.at = "done", !.row = task[s].row]
    OBVIOUS
  <2>3. t \in Tasks /\ t.at = "done" /\ t.row = task[s].row
    BY <2>2, EmptyTyped, TaskTyped DEF Tasks, Stages
  <2>4. task' = [task EXCEPT ![s] = t]
    BY <1>2, <2>2 DEF Put
  <2>5. t.row.status \in TERMINAL_SUCCESS => Backed(s, t.row.status)
    BY <1>1, <2>3 DEF Good, Earned
  <2> QED
    BY <1>1, <2>1, <2>3, <2>4, <2>5, QuietStep
<1>3. CASE UNCHANGED fetched /\ Finish(s, "FAILED_TERMINAL", "PROCESSOR_EXCEPTION")
  <2>1. "FAILED_TERMINAL" \in Statuses \ TERMINAL_SUCCESS /\ fetched' \in [Stocks -> Fetches]
    BY <1>3, Successes, TaskTyped DEF Statuses
  <2> QED
    BY <1>1, <1>3, <2>1, CodesTyped, FinishStep
<1> QED
  BY <1>2, <1>3 DEF Prune, boundVars

LEMMA ProcessStep ==
    ASSUME Good, NEW s \in Stocks, Process(s)
    PROVE  Good'
BY AttemptStep, LocateStep, FetchPassesStep, FetchFailsStep, FetchKilledStep, ExportBeginStep,
   WriteFormalStep, WriteRestStep, WriteManifestStep, PruneStep DEF Process

-----------------------------------------------------------------------------
(* The steps of the batch: rows, process and tasks change, no file of a    *)
(* stock does.                                                             *)

LEMMA BatchTyped ==
    ASSUME Good
    PROVE  /\ checkpoint \in Checkpoints /\ checkpoint.rows \in [Stocks -> Rows]
           /\ \A r \in Stocks : checkpoint.rows[r] \in Rows /\ checkpoint.rows[r].status \in Statuses
                                /\ checkpoint.rows[r].attempts \in 0..MaxAttempts
           /\ proc \in Procs /\ proc.todo \subseteq Stocks /\ proc.deferred \subseteq Stocks
           /\ proc.authorized \subseteq Stocks /\ proc.package \in Packs
           /\ snapshot \in Packs /\ task \in [Stocks -> Tasks] /\ reduced \in Reductions
BY DEF Good, Types, Checkpoints, Procs, Rows

LEMMA BatchStep ==
    ASSUME Good, NEW c \in Checkpoints, NEW p \in Procs,
           checkpoint' = c, proc' = p, snapshot' \in Packs,
           UNCHANGED <<pointer, fetched, export, reduced, moves, crashes>>,
           task' \in [Stocks -> Tasks], Pooled',
           \A r \in Stocks : task'[r] = task[r] \/ task'[r].at \in {"none", "queued"},
           \A r \in Stocks : task'[r].at # "none" =>
             /\ p.at = "work" /\ r \notin p.todo \cup p.deferred
             /\ c.rows[r].status = "FETCHING",
           p.at \in {"work", "verdict"} =>
             /\ p.todo \cap p.deferred = {}
             /\ \A r \in p.todo \cup p.deferred : c.rows[r].status \in RESUMABLE,
           p.at \in {"off", "work", "verdict", "reduce", "reset"},
           c.package \in Valid \cup {NoPackage},
           c.package = checkpoint.package \/ checkpoint.package = NoPackage,
           c.package = NoPackage => p.at = "off" /\ \A r \in Stocks : c.rows[r].status = "PENDING",
           \A r \in Stocks : c.rows[r].status \in TERMINAL_SUCCESS =>
             \/ c.rows[r].status = checkpoint.rows[r].status
             \/ c.package = checkpoint.package /\ Backed(r, c.rows[r].status),
           \A r \in Stocks : checkpoint.rows[r].status \in TERMINAL_SUCCESS =>
             c.rows[r].status \in TERMINAL_SUCCESS
    PROVE  Good'
<1>1. Types' /\ Pointed' /\ Computed'
  BY DEF Good, Types, Pointed, Computed
<1>2. Opened' /\ Listed' /\ Working'
  BY DEF Opened, Listed, Working
<1>3. Written'
  BY DEF Good, Written
<1>4. ASSUME c.package = checkpoint.package
      PROVE  Earned' /\ Succeeded'
  <2>1. Earned'
    BY <1>4 DEF Good, Earned, Backed
  <2>2. Succeeded'
    BY <1>4 DEF Good, Succeeded, Backed
  <2> QED
    BY <2>1, <2>2
<1>5. ASSUME checkpoint.package = NoPackage
      PROVE  Earned' /\ Succeeded'
  <2>1. \A r \in Stocks : task[r].at = "none" /\ checkpoint.rows[r].status = "PENDING"
    BY <1>5 DEF Good, Opened, Working
  <2>2. Earned'
    BY <2>1 DEF Earned
  <2>3. \A r \in Stocks : c.rows[r].status \in TERMINAL_SUCCESS =>
          c.package = checkpoint.package
    BY <2>1, Successes
  <2>4. Succeeded'
    BY <2>1, <2>3, <1>5, Successes DEF Succeeded, Backed
  <2> QED
    BY <2>2, <2>4
<1>6. Reducing'
  <2>1. /\ proc' = p /\ p.at \notin Reductive
        /\ p.at \notin {"validation", "batch_manifest"} /\ p.at # "batch_manifest"
    BY DEF Reductive
  <2> QED
    BY <2>1 DEF Reducing
<1>7. Passed'
  BY DEF Good, Passed, Lasting, Kept
<1> QED
  BY <1>1, <1>2, <1>3, <1>4, <1>5, <1>6, <1>7 DEF Good

\* Where no task changes the pool does not.
LEMMA PoolSame ==
    ASSUME Pooled, UNCHANGED task
    PROVE  Pooled'
BY DEF Pooled, Busy

\* Without a process, or in one that does not work on stocks, there are no tasks.
LEMMA Quiet ==
    ASSUME Good, proc.at # "work"
    PROVE  \A r \in Stocks : task[r].at = "none"
BY DEF Good, Working

LEMMA OffEverywhere ==
    ASSUME Good, Launch
    PROVE  proc.at = "off" /\ \A r \in Stocks : task[r].at = "none"
BY Quiet DEF Launch

LEMMA InitGood ==
    ASSUME Init
    PROVE  Good
<1>1. Types
  <2>1. pointer \in [Stocks -> Pointers] /\ moves \in Nat /\ crashes \in Nat
    BY Constants DEF Init, Pointers, Facts
  <2>2. checkpoint \in Checkpoints
    BY EmptyTyped DEF Init, Checkpoints, Packs
  <2>3. snapshot \in Packs
    BY DEF Init, Packs
  <2>4. /\ fetched \in [Stocks -> Fetches] /\ export \in [Stocks -> Exports]
        /\ reduced \in Reductions /\ proc \in Procs /\ task \in [Stocks -> Tasks]
    BY EmptyTyped DEF Init
  <2> QED
    BY <2>1, <2>2, <2>3, <2>4 DEF Types
<1>2. Pointed
  BY DEF Init, Pointed
<1>3. Opened /\ Listed
  BY EmptyTyped DEF Init, Opened, Listed
<1>4. Working /\ Written /\ Earned
  BY EmptyTyped DEF Init, Working, Written, Earned
<1>5. Computed
  BY EmptyTyped DEF Init, Computed
<1>6. Reducing /\ Passed
  BY EmptyTyped DEF Init, Reducing, Reductive, Passed, Lasting, PASSES
<1>7. Succeeded
  BY EmptyTyped, Successes DEF Init, Succeeded
<1>8. Pooled
  <2>1. Busy = {}
    BY EmptyTyped DEF Init, Busy
  <2> QED
    BY <2>1, FS_EmptySet, BatchExportAssumption DEF Pooled
<1> QED
  BY <1>1, <1>2, <1>3, <1>4, <1>5, <1>6, <1>7, <1>8 DEF Good

\* Loading a checkpoint never takes back or makes a success.
LEMMA LoadedTyped ==
    ASSUME NEW row \in Rows, NEW force \in BOOLEAN
    PROVE  /\ Loaded(row, force) \in Rows
           /\ row.status \in TERMINAL_SUCCESS => Loaded(row, force) = row
           /\ Loaded(row, force).status \in TERMINAL_SUCCESS => Loaded(row, force) = row
           /\ row.status = "PENDING" => Loaded(row, force).status = "PENDING"
<1>1. row.status \in Statuses /\ row.attempts \in 0..MaxAttempts /\ row.code \in ErrorCodes
  BY DEF Rows
<1>2. PICK read : read = IF row.status = "FETCHING"
                         THEN Row("FAILED_RETRYABLE", row.attempts, "INTERRUPTED_IN_FLIGHT") ELSE row
  OBVIOUS
<1>3. Loaded(row, force) = IF force /\ read.status \in RETRYABLE_STATUSES
                           THEN [read EXCEPT !.status = "PENDING"] ELSE read
  BY <1>2 DEF Loaded
<1>4. "FAILED_RETRYABLE" \in Statuses \ TERMINAL_SUCCESS /\ "PENDING" \in Statuses \ TERMINAL_SUCCESS
  BY Successes DEF RESUMABLE, RETRYABLE_STATUSES
<1>5. read \in Rows
  BY <1>1, <1>2, <1>4, RowTyped, CodesTyped
<1>6. read # row => row.status = "FETCHING" /\ read.status = "FAILED_RETRYABLE"
  BY <1>1, <1>2, <1>4, RowTyped, CodesTyped
<1>7. [read EXCEPT !.status = "PENDING"] \in Rows /\ [read EXCEPT !.status = "PENDING"].status = "PENDING"
  BY <1>4, <1>5 DEF Rows
<1>8. \A status \in RETRYABLE_STATUSES : status \notin TERMINAL_SUCCESS /\ status # "PENDING"
  BY DEF RETRYABLE_STATUSES, TERMINAL_SUCCESS
<1>9. "FETCHING" \notin TERMINAL_SUCCESS /\ "FETCHING" # "PENDING"
  BY Successes
<1> QED
  BY <1>3, <1>4, <1>5, <1>6, <1>7, <1>8, <1>9

LEMMA StartStep ==
    ASSUME Good, NEW package \in PackageIds, NEW force \in BOOLEAN, Start(package, force)
    PROVE  Good'
<1> PICK rows : rows = [s \in Stocks |-> Loaded(checkpoint.rows[s], force)]
  OBVIOUS
<1>1. /\ proc.at = "off" /\ \A r \in Stocks : task[r].at = "none"
      /\ package \in Valid /\ package \in Packs /\ package # NoPackage
  BY OffEverywhere, Constants DEF Start, Packs
<1>2. /\ snapshot' \in Packs /\ task' = task /\ task' \in [Stocks -> Tasks]
      /\ UNCHANGED <<pointer, fetched, export, reduced, moves, crashes>>
  BY <1>1, BatchTyped DEF Start, boundVars
<1>3. Pooled'
  BY <1>2, PoolSame DEF Good
<1>4. \A r \in Stocks : /\ rows[r] \in Rows
                        /\ checkpoint.rows[r].status \in TERMINAL_SUCCESS => rows[r] = checkpoint.rows[r]
                        /\ rows[r].status \in TERMINAL_SUCCESS => rows[r] = checkpoint.rows[r]
  BY BatchTyped, LoadedTyped
<1>5. CASE checkpoint.package \in {NoPackage, package}
  <2>1. PICK c : c = [package |-> package, status |-> "RUNNING", rows |-> rows]
    OBVIOUS
  <2>2. rows \in [Stocks -> Rows]
    BY <1>4
  <2>3. c \in Checkpoints /\ c.package = package /\ c.rows = rows
    BY <2>1, <2>2, <1>1 DEF Checkpoints
  <2>4. PICK todo : todo = {s \in Stocks : rows[s].status \in RESUMABLE}
    OBVIOUS
  <2>5. PICK p : p = [Off EXCEPT !.at = "work", !.package = package, !.todo = todo]
    OBVIOUS
  <2>6. p \in Procs /\ p.at = "work" /\ p.todo = todo /\ p.deferred = {}
    BY <2>4, <2>5, <1>1, EmptyTyped DEF Procs
  <2>7. checkpoint' = c /\ proc' = p
    BY <1>5, <2>1, <2>4, <2>5 DEF Start, boundVars
  <2>8. \A r \in p.todo \cup p.deferred : c.rows[r].status \in RESUMABLE
    BY <2>3, <2>4, <2>6
  <2>9. \A r \in Stocks : task'[r] = task[r] /\ task'[r].at = "none"
    BY <1>1, <1>2
  <2>10. p.todo \cap p.deferred = {}
    BY <2>6
  <2>11. c.package \in Valid \cup {NoPackage} /\ c.package # NoPackage
         /\ (c.package = checkpoint.package \/ checkpoint.package = NoPackage)
    BY <1>1, <1>5, <2>3
  <2>12. \A r \in Stocks :
           /\ c.rows[r].status \in TERMINAL_SUCCESS => c.rows[r].status = checkpoint.rows[r].status
           /\ checkpoint.rows[r].status \in TERMINAL_SUCCESS => c.rows[r].status \in TERMINAL_SUCCESS
    BY <1>4, <2>3
  <2>13. p.at \in {"off", "work", "verdict", "reduce", "reset"} /\ Good
    BY <2>6
  <2> QED
    BY ONLY <1>2, <1>3, <2>3, <2>6, <2>7, <2>8, <2>9, <2>10, <2>11, <2>12, <2>13, BatchStep
<1>6. CASE checkpoint.package \notin {NoPackage, package}
  <2>1. checkpoint' = checkpoint /\ proc' = proc
    BY <1>6 DEF Start, boundVars
  <2>2. checkpoint.package \in Valid
    BY <1>6 DEF Good, Opened
  <2> QED
    BY <1>1, <1>2, <1>3, <1>6, <2>1, <2>2, BatchTyped, BatchStep
<1> QED
  BY <1>5, <1>6

\* A process at work has a package.
LEMMA AtWork ==
    ASSUME Good, proc.at # "off"
    PROVE  checkpoint.package # NoPackage /\ checkpoint.package \in Valid
BY DEF Good, Opened

LEMMA ExpireStep ==
    ASSUME Good, Expire
    PROVE  Good'
<1>1. proc.at = "work" /\ UNCHANGED <<pointer, checkpoint, snapshot, fetched, export, reduced, task, moves, crashes>>
  BY DEF Expire, diskVars, boundVars
<1>2. PICK p : p = [proc EXCEPT !.expired = TRUE]
  OBVIOUS
<1>3. /\ p \in Procs /\ p.at = "work" /\ p.todo = proc.todo /\ p.deferred = proc.deferred
      /\ proc' = p
  BY <1>1, <1>2, BatchTyped DEF Expire, Procs
<1>4. Pooled' /\ snapshot' \in Packs /\ task' \in [Stocks -> Tasks] /\ checkpoint' = checkpoint
  BY <1>1, PoolSame, BatchTyped DEF Good
<1>5. checkpoint.package # NoPackage /\ checkpoint.package \in Valid
  BY <1>1, AtWork
<1>6. Working /\ Listed
  BY DEF Good
<1> QED
  BY <1>1, <1>3, <1>4, <1>5, <1>6, BatchTyped, BatchStep DEF Working, Listed

LEMMA ClaimStep ==
    ASSUME Good, NEW s \in Stocks, Claim(s)
    PROVE  Good'
<1> PICK row : row = [checkpoint.rows[s] EXCEPT !.status = "FETCHING"]
  OBVIOUS
<1>1. /\ proc.at = "work" /\ s \in proc.todo
      /\ UNCHANGED <<pointer, snapshot, fetched, export, reduced, moves, crashes>>
  BY DEF Claim, boundVars
<1>2. checkpoint.package # NoPackage /\ checkpoint.package \in Valid
  BY <1>1, AtWork
<1>3. Working /\ Listed
  BY DEF Good
<1>4. snapshot' \in Packs
  BY <1>1, BatchTyped
<1>5. s \notin proc.deferred /\ task[s].at = "none" /\ checkpoint.rows[s].status \in RESUMABLE
  BY <1>1, <1>3 DEF Working, Listed
<1>6. CASE proc.expired
  <2>1. PICK p : p = [proc EXCEPT !.todo = proc.todo \ {s}, !.deferred = proc.deferred \cup {s}]
    OBVIOUS
  <2>2. /\ p \in Procs /\ p.at = "work"
        /\ p.todo = proc.todo \ {s} /\ p.deferred = proc.deferred \cup {s}
    BY <1>1, <2>1, BatchTyped DEF Procs
  <2>3. proc' = p /\ checkpoint' = checkpoint /\ task' = task
    BY <1>6, <2>1 DEF Claim, boundVars
  <2>4. Pooled' /\ task' \in [Stocks -> Tasks]
    BY <2>3, PoolSame, BatchTyped DEF Good
  <2>5. \A r \in Stocks : task'[r].at # "none" =>
          /\ p.at = "work" /\ r \notin p.todo \cup p.deferred
          /\ checkpoint.rows[r].status = "FETCHING"
    BY <1>3, <1>5, <2>2, <2>3 DEF Working
  <2>6. /\ p.todo \cap p.deferred = {}
        /\ \A r \in p.todo \cup p.deferred : checkpoint.rows[r].status \in RESUMABLE
    BY <1>1, <1>3, <2>2 DEF Listed
  <2> QED
    BY <1>1, <1>2, <1>4, <2>2, <2>3, <2>4, <2>5, <2>6, BatchTyped, BatchStep
<1>7. CASE ~proc.expired
  <2>1. PICK p : p = [proc EXCEPT !.todo = proc.todo \ {s}]
    OBVIOUS
  <2>2. p \in Procs /\ p.at = "work" /\ p.todo = proc.todo \ {s} /\ p.deferred = proc.deferred
    BY <1>1, <2>1, BatchTyped DEF Procs
  <2>3. row \in Rows /\ row.status = "FETCHING"
    BY BatchTyped, Successes DEF Rows, RESUMABLE
  <2>4. PICK rows : rows = [checkpoint.rows EXCEPT ![s] = row]
    OBVIOUS
  <2>5. rows \in [Stocks -> Rows] /\ \A r \in Stocks : rows[r] = IF r = s THEN row ELSE checkpoint.rows[r]
    BY <2>3, <2>4, BatchTyped
  <2>6. PICK c : c = [checkpoint EXCEPT !.rows = rows]
    OBVIOUS
  <2>7. c \in Checkpoints /\ c.rows = rows /\ c.package = checkpoint.package
    BY <2>5, <2>6, BatchTyped DEF Checkpoints
  <2>8. PICK t : t = [NoTask EXCEPT !.at = "queued", !.row = row]
    OBVIOUS
  <2>9. t \in Tasks /\ t.at = "queued"
    BY <2>3, <2>8, EmptyTyped DEF Tasks, Stages
  <2>10. proc' = p /\ checkpoint' = c /\ task' = [task EXCEPT ![s] = t]
    BY <1>7, <2>1, <2>4, <2>6, <2>8 DEF Claim, SaveRow, Put
  <2>11. Pooled'
    BY <2>9, <2>10, BatchTyped, PoolStep DEF Good
  <2>12. /\ task' \in [Stocks -> Tasks]
         /\ \A r \in Stocks : task'[r] = IF r = s THEN t ELSE task[r]
    BY <2>9, <2>10, BatchTyped
  <2>13. \A r \in Stocks : task'[r].at # "none" =>
           /\ p.at = "work" /\ r \notin p.todo \cup p.deferred
           /\ c.rows[r].status = "FETCHING"
    BY <1>3, <1>5, <2>2, <2>3, <2>5, <2>7, <2>12 DEF Working
  <2>14. /\ p.todo \cap p.deferred = {}
         /\ \A r \in p.todo \cup p.deferred : c.rows[r].status \in RESUMABLE
    BY <1>1, <1>3, <1>5, <2>2, <2>5, <2>7, BatchTyped DEF Listed
  <2>15. \A r \in Stocks : /\ c.rows[r].status \in TERMINAL_SUCCESS =>
                                c.rows[r].status = checkpoint.rows[r].status
                           /\ checkpoint.rows[r].status \in TERMINAL_SUCCESS =>
                                c.rows[r].status \in TERMINAL_SUCCESS
    BY <1>5, <2>3, <2>5, <2>7, Successes
  <2> QED
    BY <1>1, <1>2, <1>4, <2>2, <2>7, <2>9, <2>10, <2>11, <2>12, <2>13, <2>14, <2>15, BatchStep
<1> QED
  BY <1>6, <1>7

\* The rows in memory are those of the checkpoint, but for the stocks that are deferred.
LEMMA MemoryTyped ==
    ASSUME Good
    PROVE  /\ InMemory \in [Stocks -> Rows]
           /\ \A r \in Stocks : r \notin proc.deferred => InMemory[r] = checkpoint.rows[r]
           /\ \A r \in proc.deferred : InMemory[r].status = "DEFERRED_TIME_BUDGET"
           /\ "DEFERRED_TIME_BUDGET" \in RESUMABLE
           /\ proc.at \in {"work", "verdict"} =>
                \A r \in Stocks : /\ InMemory[r].status \in TERMINAL_SUCCESS =>
                                       InMemory[r].status = checkpoint.rows[r].status
                                  /\ checkpoint.rows[r].status \in TERMINAL_SUCCESS =>
                                       InMemory[r] = checkpoint.rows[r]
<1>1. "DEFERRED_TIME_BUDGET" \in Statuses \ TERMINAL_SUCCESS /\ "DEFERRED_TIME_BUDGET" \in RESUMABLE
  BY Successes DEF RESUMABLE, RETRYABLE_STATUSES
<1>2. \A r \in Stocks :
        /\ InMemory[r] \in Rows
        /\ r \notin proc.deferred => InMemory[r] = checkpoint.rows[r]
        /\ r \in proc.deferred => InMemory[r].status = "DEFERRED_TIME_BUDGET"
  <2> TAKE r \in Stocks
  <2>1. PICK row : row = Row("DEFERRED_TIME_BUDGET", checkpoint.rows[r].attempts, "TIME_BUDGET_REACHED")
    OBVIOUS
  <2>2. row \in Rows /\ row.status = "DEFERRED_TIME_BUDGET"
    BY <1>1, <2>1, RowTyped, CodesTyped, BatchTyped
  <2>3. InMemory[r] = IF r \in proc.deferred THEN row ELSE checkpoint.rows[r]
    BY <2>1 DEF InMemory
  <2> QED
    BY <2>2, <2>3, BatchTyped
<1>3. InMemory \in [Stocks -> Rows]
  <2>1. PICK rows : rows = InMemory
    OBVIOUS
  <2>2. rows = [r \in Stocks |-> rows[r]]
    BY <2>1 DEF InMemory
  <2> QED
    BY <1>2, <2>1, <2>2
<1>4. proc.at \in {"work", "verdict"} =>
        \A r \in proc.deferred : checkpoint.rows[r].status \notin TERMINAL_SUCCESS
  BY Successes DEF Good, Listed
<1>5. proc.deferred \subseteq Stocks
  BY BatchTyped
<1> QED
  BY <1>1, <1>2, <1>3, <1>4, <1>5

LEMMA CollectStep ==
    ASSUME Good, NEW s \in Stocks, Collect(s)
    PROVE  Good'
<1>1. /\ proc.at = "work" /\ proc.todo = {} /\ task[s].at = "done"
      /\ UNCHANGED <<pointer, snapshot, fetched, export, reduced, proc, moves, crashes>>
  BY DEF Collect, boundVars
<1>2. checkpoint.package # NoPackage /\ checkpoint.package \in Valid
  BY <1>1, AtWork
<1>3. Working /\ Listed /\ Earned
  BY DEF Good
<1>4. PICK row : row = task[s].row
  OBVIOUS
<1>5. row \in Rows /\ row.status \in TERMINAL_SUCCESS => Backed(s, row.status)
  BY <1>1, <1>3, <1>4 DEF Earned
<1>6. row \in Rows
  BY <1>4, TaskTyped
<1>7. PICK rows : rows = [InMemory EXCEPT ![s] = row]
  OBVIOUS
<1>8. rows \in [Stocks -> Rows] /\ \A r \in Stocks : rows[r] = IF r = s THEN row ELSE InMemory[r]
  BY <1>6, <1>7, MemoryTyped
<1>9. PICK c : c = [checkpoint EXCEPT !.rows = rows]
  OBVIOUS
<1>10. c \in Checkpoints /\ c.rows = rows /\ c.package = checkpoint.package
  BY <1>8, <1>9, BatchTyped DEF Checkpoints
<1>11. checkpoint' = c /\ task' = [task EXCEPT ![s] = NoTask]
  BY <1>4, <1>7, <1>9 DEF Collect, Put
<1>12. /\ task' \in [Stocks -> Tasks] /\ NoTask.at = "none"
       /\ \A r \in Stocks : task'[r] = IF r = s THEN NoTask ELSE task[r]
  BY <1>11, EmptyTyped, BatchTyped
<1>13. Pooled'
  BY <1>11, EmptyTyped, BatchTyped, PoolStep DEF Good
<1>14. s \notin proc.deferred /\ checkpoint.rows[s].status = "FETCHING"
  BY <1>1, <1>3 DEF Working
<1>15. \A r \in Stocks : task'[r].at # "none" =>
         /\ proc.at = "work" /\ r \notin proc.todo \cup proc.deferred
         /\ c.rows[r].status = "FETCHING"
  BY <1>3, <1>8, <1>10, <1>12, MemoryTyped DEF Working
<1>16. /\ proc.todo \cap proc.deferred = {}
       /\ \A r \in proc.todo \cup proc.deferred : c.rows[r].status \in RESUMABLE
  BY <1>1, <1>3, <1>8, <1>10, <1>14, BatchTyped, MemoryTyped DEF Listed
<1>17. \A r \in Stocks : /\ c.rows[r].status \in TERMINAL_SUCCESS =>
                              \/ c.rows[r].status = checkpoint.rows[r].status
                              \/ c.package = checkpoint.package /\ Backed(r, c.rows[r].status)
                         /\ checkpoint.rows[r].status \in TERMINAL_SUCCESS =>
                              c.rows[r].status \in TERMINAL_SUCCESS
  BY <1>1, <1>5, <1>6, <1>8, <1>10, <1>14, Successes, MemoryTyped
<1>18. proc' = proc /\ snapshot' \in Packs /\ proc \in Procs
  BY <1>1, BatchTyped
<1>19. proc.at \in {"off", "work", "verdict", "reduce", "reset"}
  BY <1>1 DEF Reductive
<1> QED
  BY <1>1, <1>2, <1>10, <1>11, <1>12, <1>13, <1>15, <1>16, <1>17, <1>18, <1>19, BatchStep

LEMMA VerdictStep ==
    ASSUME Good, Verdict
    PROVE  Good'
<1>1. /\ proc.at = "verdict"
      /\ UNCHANGED <<pointer, snapshot, fetched, export, reduced, task, moves, crashes>>
  BY DEF Verdict, boundVars
<1>2. checkpoint.package # NoPackage /\ checkpoint.package \in Valid
  BY <1>1, AtWork
<1>3. \A r \in Stocks : task[r].at = "none"
  BY <1>1, Quiet
<1>4. PICK status : status = BatchStatus(InMemory)
  OBVIOUS
<1>5. status \in Verdicts
  BY <1>4 DEF BatchStatus, Verdicts
<1>6. PICK rows \in [Stocks -> Rows] : rows = InMemory
  BY MemoryTyped
<1>7. PICK c : c = [checkpoint EXCEPT !.rows = rows, !.status = status]
  OBVIOUS
<1>8. c \in Checkpoints /\ c.rows = rows /\ c.package = checkpoint.package
  BY <1>5, <1>7, BatchTyped DEF Checkpoints
<1>9. PICK p : p = [proc EXCEPT !.at = "reduce", !.deferred = {}]
  OBVIOUS
<1>10. p \in Procs /\ p.at = "reduce" /\ p.at \notin Reductive
  BY <1>9, BatchTyped DEF Procs, Reductive
<1>11. checkpoint' = c /\ proc' = p
  BY <1>4, <1>6, <1>7, <1>9 DEF Verdict
<1>12. Pooled' /\ snapshot' \in Packs /\ task' = task /\ task' \in [Stocks -> Tasks]
  BY <1>1, PoolSame, BatchTyped DEF Good
<1>13. \A r \in Stocks : /\ c.rows[r].status \in TERMINAL_SUCCESS =>
                              c.rows[r].status = checkpoint.rows[r].status
                         /\ checkpoint.rows[r].status \in TERMINAL_SUCCESS =>
                              c.rows[r].status \in TERMINAL_SUCCESS
  BY <1>1, <1>6, <1>8, MemoryTyped
<1> QED
  BY <1>1, <1>2, <1>3, <1>8, <1>10, <1>11, <1>12, <1>13, BatchStep

\* A command that only starts a process, or that ends one.
LEMMA ProcStep ==
    ASSUME Good, NEW p \in Procs, proc' = p, proc.at # "work",
           p.at \in {"off", "reduce", "reset"},
           p.at # "off" => checkpoint.package # NoPackage,
           UNCHANGED <<pointer, checkpoint, snapshot, fetched, export, reduced, task, moves, crashes>>
    PROVE  Good'
<1>1. \A r \in Stocks : task[r].at = "none"
  BY Quiet
<1>2. Pooled' /\ snapshot' \in Packs /\ task' \in [Stocks -> Tasks] /\ checkpoint' = checkpoint
  BY PoolSame, BatchTyped DEF Good
<1>3. Opened
  BY DEF Good
<1> QED
  BY <1>1, <1>2, <1>3, BatchTyped, BatchStep DEF Opened

LEMMA ReduceCommandStep ==
    ASSUME Good, NEW package \in PackageIds, ReduceCommand(package)
    PROVE  Good'
<1>1. /\ proc.at = "off" /\ checkpoint.package # NoPackage /\ package \in Packs
      /\ UNCHANGED <<pointer, checkpoint, snapshot, fetched, export, reduced, task, moves, crashes>>
  BY OffEverywhere DEF ReduceCommand, diskVars, boundVars, Packs
<1>2. PICK p : p = [Off EXCEPT !.at = "reduce", !.package = package]
  OBVIOUS
<1>3. p \in Procs /\ p.at = "reduce"
  BY <1>1, <1>2, EmptyTyped DEF Procs
<1>4. proc' = p
  BY <1>2 DEF ReduceCommand
<1> QED
  BY <1>1, <1>3, <1>4, ProcStep

\* What can be retried has been tried, so there is a checkpoint.
LEMMA OpenedRows ==
    ASSUME Good, NEW s \in Stocks, checkpoint.rows[s].status # "PENDING"
    PROVE  checkpoint.package # NoPackage /\ checkpoint.package \in Valid
BY DEF Good, Opened

LEMMA VerifyStep ==
    ASSUME Good, Verify
    PROVE  Good'
<1> PICK open : open = Of(RETRYABLE_STATUSES)
  OBVIOUS
<1>1. /\ proc.at = "off" /\ open # {} /\ open \subseteq Stocks
      /\ UNCHANGED <<pointer, checkpoint, snapshot, fetched, export, reduced, task, moves, crashes>>
  BY OffEverywhere DEF Verify, diskVars, boundVars, Of
<1>2. PICK s \in open : TRUE
  BY <1>1
<1>3. s \in Stocks /\ checkpoint.rows[s].status # "PENDING"
  BY <1>2 DEF Of, Is, RETRYABLE_STATUSES
<1>4. checkpoint.package # NoPackage
  BY <1>3, OpenedRows
<1>5. PICK p : p = [Off EXCEPT !.at = "reset", !.authorized = open]
  OBVIOUS
<1>6. p \in Procs /\ p.at = "reset"
  BY <1>1, <1>5, EmptyTyped DEF Procs
<1>7. proc' = p
  BY <1>5 DEF Verify
<1> QED
  BY <1>1, <1>4, <1>6, <1>7, ProcStep

\* Rows that have not succeeded are taken back.
LEMMA ClearedStep ==
    ASSUME Good, NEW ids, \A s \in ids \cap Stocks : checkpoint.rows[s].status \notin TERMINAL_SUCCESS,
           NEW p \in Procs, proc' = p, p.at = "off",
           proc.at # "work", checkpoint.package # NoPackage,
           checkpoint' = [checkpoint EXCEPT !.rows = Cleared(ids), !.status = "RUNNING"],
           UNCHANGED <<pointer, snapshot, fetched, export, reduced, task, moves, crashes>>
    PROVE  Good'
<1>1. \A r \in Stocks : task[r].at = "none"
  BY Quiet
<1>2. Pooled' /\ snapshot' \in Packs /\ task' = task /\ task' \in [Stocks -> Tasks]
  BY PoolSame, BatchTyped DEF Good
<1>3. checkpoint.package \in Valid
  BY DEF Good, Opened
<1>4. PICK pending : pending = Row("PENDING", 0, Blank)
  OBVIOUS
<1>5. pending \in Rows /\ pending.status = "PENDING" /\ "PENDING" \notin TERMINAL_SUCCESS
  BY <1>4, Successes, Constants, CodesTyped, RowTyped DEF RESUMABLE
<1>6. PICK rows : rows = [s \in Stocks |-> IF s \in ids THEN pending ELSE checkpoint.rows[s]]
  OBVIOUS
<1>7. rows \in [Stocks -> Rows] /\ Cleared(ids) = rows
  BY <1>4, <1>5, <1>6, BatchTyped DEF Cleared
<1>8. PICK c : c = [checkpoint EXCEPT !.rows = rows, !.status = "RUNNING"]
  OBVIOUS
<1>9. c \in Checkpoints /\ c.rows = rows /\ c.package = checkpoint.package /\ checkpoint' = c
  BY <1>7, <1>8, BatchTyped DEF Checkpoints
<1>10. \A r \in Stocks : /\ c.rows[r].status \in TERMINAL_SUCCESS =>
                              c.rows[r].status = checkpoint.rows[r].status
                         /\ checkpoint.rows[r].status \in TERMINAL_SUCCESS =>
                              c.rows[r].status \in TERMINAL_SUCCESS
  BY <1>5, <1>6, <1>9
<1> QED
  BY <1>1, <1>2, <1>3, <1>9, <1>10, BatchStep

LEMMA ResetStep ==
    ASSUME Good, Reset
    PROVE  Good'
<1>1. /\ proc.at = "reset" /\ proc' = Off
      /\ UNCHANGED <<pointer, snapshot, fetched, export, reduced, task, moves, crashes>>
  BY DEF Reset, boundVars
<1>2. checkpoint.package # NoPackage
  BY <1>1, AtWork
<1>3. CASE checkpoint' = checkpoint
  BY <1>1, <1>3, EmptyTyped, ProcStep
<1>4. CASE /\ Of(RETRYABLE_STATUSES) = proc.authorized
           /\ checkpoint' = [checkpoint EXCEPT !.rows = Cleared(proc.authorized), !.status = "RUNNING"]
  <2>1. \A s \in proc.authorized \cap Stocks : checkpoint.rows[s].status \notin TERMINAL_SUCCESS
    BY <1>4 DEF Of, Is, RETRYABLE_STATUSES, TERMINAL_SUCCESS
  <2> QED
    BY <1>1, <1>2, <1>4, <2>1, EmptyTyped, ClearedStep
<1>5. \/ checkpoint' = checkpoint
      \/ /\ Of(RETRYABLE_STATUSES) = proc.authorized
         /\ checkpoint' = [checkpoint EXCEPT !.rows = Cleared(proc.authorized), !.status = "RUNNING"]
  BY DEF Reset
<1> QED
  BY <1>3, <1>4, <1>5

LEMMA ResetTerminalStep ==
    ASSUME Good, NEW code, ResetTerminal(code)
    PROVE  Good'
<1> PICK ids : ids = Of({"FAILED_TERMINAL"})
  OBVIOUS
<1>1. /\ proc.at = "off" /\ proc' = proc /\ ids # {}
      /\ checkpoint' = [checkpoint EXCEPT !.rows = Cleared(ids), !.status = "RUNNING"]
      /\ UNCHANGED <<pointer, snapshot, fetched, export, reduced, task, moves, crashes>>
  BY OffEverywhere DEF ResetTerminal
<1>2. \A s \in ids : s \in Stocks /\ checkpoint.rows[s].status = "FAILED_TERMINAL"
  BY DEF Of, Is
<1>3. \A s \in ids \cap Stocks : checkpoint.rows[s].status \notin TERMINAL_SUCCESS
  BY <1>2, Successes
<1>4. checkpoint.package # NoPackage
  <2>1. PICK s \in ids : TRUE
    BY <1>1
  <2> QED
    BY <1>2, <2>1, OpenedRows
<1> QED
  BY <1>1, <1>3, <1>4, BatchTyped, ClearedStep

-----------------------------------------------------------------------------
(* The task centre, the reduction and the kill.                            *)

LEMMA MoveStep ==
    ASSUME Good, NEW s \in Stocks, Move(s)
    PROVE  Good'
<1>1. PICK state \in {"none", "ready", "incomplete"} : \E named \in Named(state) :
        pointer' = [pointer EXCEPT ![s] = named]
  BY DEF Move
<1>2. moves' = moves + 1 /\ UNCHANGED <<checkpoint, snapshot, fetched, export, reduced, proc, task, crashes>>
  BY DEF Move
<1>3. PICK where \in Named(state) : pointer' = [pointer EXCEPT ![s] = where]
  BY <1>1
<1>4. 1..moves + 1 \subseteq Homes
  BY BatchExportAssumption DEF Good, Types, Move, Homes
<1>5. where \in Pointers /\ (where.state = "ready" => where.source \in SourceIds)
  BY <1>3, <1>4, Constants DEF Named, Pointers, Facts
<1>6. /\ pointer' \in [Stocks -> Pointers]
      /\ \A r \in Stocks : pointer'[r] = IF r = s THEN where ELSE pointer[r]
  BY <1>3, <1>5 DEF Good, Types
<1>7. Types'
  BY <1>2, <1>6 DEF Good, Types
<1>8. Pointed'
  BY <1>5, <1>6 DEF Good, Pointed
<1>9. Opened' /\ Listed' /\ Working'
  BY <1>2 DEF Good, Opened, Listed, Working
<1>10. Written' /\ Earned' /\ Computed'
  BY <1>2 DEF Good, Written, Earned, Computed, Backed
<1>11. Reducing'
  BY <1>2 DEF Good, Reducing, SUCCEEDED, FAILED, DEFERRED, Of, Is
<1>12. Succeeded' /\ Passed'
  BY <1>2 DEF Good, Succeeded, Passed, Lasting, Kept, Backed
<1>13. Pooled'
  BY <1>2, PoolSame DEF Good
<1> QED
  BY <1>7, <1>8, <1>9, <1>10, <1>11, <1>12, <1>13 DEF Good

LEMMA ReducedTyped ==
    ASSUME Good
    PROVE  /\ reduced \in Reductions /\ reduced.ledgers \in LedgerFiles
           /\ reduced.formal \in [Stocks -> Contents] /\ reduced.rest \in [Stocks -> Contents]
           /\ reduced.validation \in Validations /\ reduced.manifest \in Verdicts \cup {"none"}
           /\ reduced.package \in Packs
BY DEF Good, Types, Reductions

\* A step that writes files of the batch: what the reduction has written is what it has
\* read, and what lies under a manifest that passes is kept.
LEMMA ReductionStep ==
    ASSUME Good, NEW m \in Reductions, NEW p \in Procs, reduced' = m, proc' = p,
           proc.at # "off", \A r \in Stocks : task[r].at = "none",
           UNCHANGED <<pointer, checkpoint, snapshot, fetched, export, task, moves, crashes>>,
           p.at # "work",
           p.at = "verdict" => proc.at = "work" /\ p.todo = proc.todo /\ p.deferred = proc.deferred,
           p.at \in Reductive => SUCCEEDED \cup FAILED \cup DEFERRED = Stocks,
           p.at \in Reductive \ {"formal"} => \A s \in SUCCEEDED : m.formal[s] = export[s].formal,
           p.at \in Reductive \ {"formal", "rest"} => \A s \in SUCCEEDED : m.rest[s] = export[s].rest,
           p.at \in {"validation", "batch_manifest"} => m.ledgers = Ledgers("whole", SUCCEEDED),
           p.at = "batch_manifest" /\ m.validation.status \in PASSES => SUCCEEDED = Stocks,
           Lasting(m)
    PROVE  Good'
<1>1. checkpoint.package # NoPackage
  BY AtWork
<1>2. Types'
  BY DEF Good, Types
<1>3. Pointed' /\ Written' /\ Earned' /\ Computed'
  BY DEF Good, Pointed, Written, Earned, Computed, Backed
<1>4. Opened' /\ Listed' /\ Working'
  BY <1>1 DEF Good, Opened, Listed, Working
<1>5. SUCCEEDED' = SUCCEEDED /\ FAILED' = FAILED /\ DEFERRED' = DEFERRED
  BY DEF SUCCEEDED, FAILED, DEFERRED, Of, Is
<1>6. Reducing'
  BY <1>5 DEF Reducing
<1>7. Succeeded' /\ Passed'
  BY DEF Good, Succeeded, Passed, Lasting, Kept, Backed
<1>8. Pooled'
  BY PoolSame DEF Good
<1> QED
  BY <1>2, <1>3, <1>4, <1>6, <1>7, <1>8 DEF Good

\* A row is of one of the sets the reduction counts.
LEMMA Sets ==
    /\ SUCCEEDED = {s \in Stocks : checkpoint.rows[s].status \in TERMINAL_SUCCESS}
    /\ FAILED \subseteq Stocks /\ DEFERRED \subseteq Stocks
BY DEF SUCCEEDED, FAILED, DEFERRED, Of, Is

\* Under a manifest that passes every stock has succeeded.
LEMMA AllSucceeded ==
    ASSUME Good, reduced.manifest \in PASSES
    PROVE  SUCCEEDED = Stocks
BY Sets DEF Good, Passed, Lasting

\* The next place of the process.
LEMMA StepTyped ==
    ASSUME Good, NEW at, NEW next \in {"verdict"} \cup Reductive,
           proc' = [proc EXCEPT !.at = next]
    PROVE  /\ proc' \in Procs /\ proc'.at = next
           /\ proc'.todo = proc.todo /\ proc'.deferred = proc.deferred
BY BatchTyped DEF Procs

LEMMA WriteLedgersStep ==
    ASSUME Good, WriteLedgers
    PROVE  Good'
<1>1. /\ proc.at = "work" /\ \A r \in Stocks : task[r].at = "none"
      /\ UNCHANGED <<pointer, checkpoint, snapshot, fetched, export, task, moves, crashes>>
      /\ proc' = [proc EXCEPT !.at = "verdict"]
  BY DEF WriteLedgers, Idle, boundVars
<1>2. PICK done : done = Succeeding(InMemory)
  OBVIOUS
<1>3. done \subseteq Stocks
  BY <1>2 DEF Succeeding
<1>4. PICK m : m = [reduced EXCEPT !.ledgers = Ledgers("whole", done)]
  OBVIOUS
<1>5. /\ m \in Reductions /\ m.ledgers = Ledgers("whole", done)
      /\ m.formal = reduced.formal /\ m.rest = reduced.rest /\ m.manifest = reduced.manifest
  BY <1>3, <1>4, ReducedTyped DEF Reductions, Ledgers, LedgerFiles
<1>6. reduced' = m
  BY <1>2, <1>4 DEF WriteLedgers
<1>7. m.manifest \in PASSES => done = Stocks
  BY <1>1, <1>2, <1>5, AllSucceeded, Sets, MemoryTyped DEF Succeeding
<1>8. Lasting(m)
  BY <1>5, <1>7 DEF Good, Passed, Lasting
<1>9. proc'.at \notin Reductive /\ proc'.at = "verdict" /\ proc' \in Procs
      /\ proc'.todo = proc.todo /\ proc'.deferred = proc.deferred
  BY <1>1, StepTyped DEF Reductive
<1> QED
  BY <1>1, <1>5, <1>6, <1>8, <1>9, ReductionStep DEF Reductive

LEMMA ReduceStep ==
    ASSUME Good, Reduce
    PROVE  Good'
<1>1. /\ proc.at = "reduce"
      /\ UNCHANGED <<pointer, checkpoint, snapshot, fetched, export, reduced, task, moves, crashes>>
  BY DEF Reduce, diskVars, boundVars
<1>2. (\A r \in Stocks : task[r].at = "none") /\ reduced' = reduced /\ reduced \in Reductions
  BY <1>1, Quiet, ReducedTyped
<1>3. Lasting(reduced)
  BY DEF Good, Passed
<1>4. CASE SUCCEEDED \cup FAILED \cup DEFERRED = Stocks /\ proc' = [proc EXCEPT !.at = "formal"]
  <2>1. proc' \in Procs /\ proc'.at = "formal"
    BY <1>4, StepTyped DEF Reductive
  <2> QED
    BY <1>1, <1>2, <1>3, <1>4, <2>1, ReductionStep
<1>5. CASE proc' = Off
  <2>1. proc' \in Procs /\ proc'.at = "off" /\ proc'.at \notin Reductive
    BY <1>5, EmptyTyped DEF Reductive
  <2> QED
    BY <1>1, <1>2, <1>3, <2>1, ReductionStep DEF Reductive
<1> QED
  BY <1>4, <1>5 DEF Reduce

\* What the three writes of tables have in common.
LEMMA Writing ==
    ASSUME Good, proc.at \in Reductive
    PROVE  /\ \A r \in Stocks : task[r].at = "none"
           /\ SUCCEEDED \cup FAILED \cup DEFERRED = Stocks
           /\ reduced.manifest \in PASSES => SUCCEEDED = Stocks
           /\ export \in [Stocks -> Exports] /\ Missing \in Contents
           /\ \A s \in Stocks : export[s].formal \in Contents /\ export[s].rest \in Contents
<1>1. \A r \in Stocks : task[r].at = "none"
  BY Quiet DEF Reductive
<1>2. SUCCEEDED \cup FAILED \cup DEFERRED = Stocks
  BY DEF Good, Reducing
<1>3. export \in [Stocks -> Exports]
  BY DEF Good, Types
<1>4. \A s \in Stocks : export[s].formal \in Contents /\ export[s].rest \in Contents
  BY <1>3 DEF Exports
<1> QED
  BY <1>1, <1>2, <1>3, <1>4, AllSucceeded, EmptyTyped

LEMMA WriteReducedFormalStep ==
    ASSUME Good, WriteReducedFormal
    PROVE  Good'
<1>1. /\ proc.at = "formal" /\ proc' = [proc EXCEPT !.at = "rest"]
      /\ UNCHANGED <<pointer, checkpoint, snapshot, fetched, export, task, moves, crashes>>
  BY DEF WriteReducedFormal, Step, boundVars
<1>2. proc.at \in Reductive /\ "rest" \in Reductive
  BY <1>1 DEF Reductive
<1>3. proc' \in Procs /\ proc'.at = "rest"
  BY <1>1, <1>2, StepTyped
<1>4. PICK tables : tables = [s \in Stocks |-> IF s \in SUCCEEDED THEN export[s].formal ELSE Missing]
  OBVIOUS
<1>5. tables \in [Stocks -> Contents] /\ \A s \in SUCCEEDED : tables[s] = export[s].formal
  BY <1>2, <1>4, Writing, Sets
<1>6. PICK m : m = [reduced EXCEPT !.formal = tables]
  OBVIOUS
<1>7. /\ m \in Reductions /\ m.formal = tables
      /\ m.rest = reduced.rest /\ m.ledgers = reduced.ledgers /\ m.manifest = reduced.manifest
  BY <1>5, <1>6, ReducedTyped DEF Reductions
<1>8. reduced' = m
  BY <1>4, <1>6 DEF WriteReducedFormal
<1>9. Lasting(m)
  BY <1>2, <1>5, <1>7, Writing DEF Good, Passed, Lasting, Kept
<1> QED
  BY <1>1, <1>2, <1>3, <1>5, <1>7, <1>8, <1>9, Writing, ReductionStep

LEMMA WriteReducedRestStep ==
    ASSUME Good, WriteReducedRest
    PROVE  Good'
<1>1. /\ proc.at = "rest" /\ proc' = [proc EXCEPT !.at = "ledgers"]
      /\ UNCHANGED <<pointer, checkpoint, snapshot, fetched, export, task, moves, crashes>>
  BY DEF WriteReducedRest, Step, boundVars
<1>2. proc.at \in Reductive /\ "ledgers" \in Reductive
  BY <1>1 DEF Reductive
<1>3. proc' \in Procs /\ proc'.at = "ledgers"
  BY <1>1, <1>2, StepTyped
<1>4. PICK tables : tables = [s \in Stocks |-> IF s \in SUCCEEDED THEN export[s].rest ELSE Missing]
  OBVIOUS
<1>5. tables \in [Stocks -> Contents] /\ \A s \in SUCCEEDED : tables[s] = export[s].rest
  BY <1>2, <1>4, Writing, Sets
<1>6. PICK m : m = [reduced EXCEPT !.rest = tables]
  OBVIOUS
<1>7. /\ m \in Reductions /\ m.rest = tables
      /\ m.formal = reduced.formal /\ m.ledgers = reduced.ledgers /\ m.manifest = reduced.manifest
  BY <1>5, <1>6, ReducedTyped DEF Reductions
<1>8. reduced' = m
  BY <1>4, <1>6 DEF WriteReducedRest
<1>9. Lasting(m)
  BY <1>2, <1>5, <1>7, Writing DEF Good, Passed, Lasting, Kept
<1>10. \A s \in SUCCEEDED : m.formal[s] = export[s].formal
  BY <1>1, <1>2, <1>7 DEF Good, Reducing
<1> QED
  BY <1>1, <1>2, <1>3, <1>5, <1>7, <1>8, <1>9, <1>10, Writing, ReductionStep

LEMMA WriteReducedLedgersStep ==
    ASSUME Good, WriteReducedLedgers
    PROVE  Good'
<1>1. /\ proc.at = "ledgers" /\ proc' = [proc EXCEPT !.at = "validation"]
      /\ UNCHANGED <<pointer, checkpoint, snapshot, fetched, export, task, moves, crashes>>
  BY DEF WriteReducedLedgers, Step, boundVars
<1>2. proc.at \in Reductive /\ "validation" \in Reductive
  BY <1>1 DEF Reductive
<1>3. proc' \in Procs /\ proc'.at = "validation"
  BY <1>1, <1>2, StepTyped
<1>4. PICK m : m = [reduced EXCEPT !.ledgers = Ledgers("whole", SUCCEEDED)]
  OBVIOUS
<1>5. /\ m \in Reductions /\ m.ledgers = Ledgers("whole", SUCCEEDED)
      /\ m.formal = reduced.formal /\ m.rest = reduced.rest /\ m.manifest = reduced.manifest
  BY <1>4, Sets, ReducedTyped DEF Reductions, Ledgers, LedgerFiles
<1>6. reduced' = m
  BY <1>4 DEF WriteReducedLedgers
<1>7. Lasting(m)
  BY <1>2, <1>5, Writing DEF Good, Passed, Lasting, Kept
<1>8. \A s \in SUCCEEDED : m.formal[s] = export[s].formal /\ m.rest[s] = export[s].rest
  BY <1>1, <1>2, <1>5 DEF Good, Reducing
<1> QED
  BY <1>1, <1>2, <1>3, <1>5, <1>6, <1>7, <1>8, Writing, ReductionStep

LEMMA WriteValidationStep ==
    ASSUME Good, WriteValidation
    PROVE  Good'
<1>1. /\ proc.at = "validation" /\ proc' = [proc EXCEPT !.at = "batch_manifest"]
      /\ UNCHANGED <<pointer, checkpoint, snapshot, fetched, export, task, moves, crashes>>
  BY DEF WriteValidation, Step, boundVars
<1>2. proc.at \in Reductive /\ "batch_manifest" \in Reductive
  BY <1>1 DEF Reductive
<1>3. proc' \in Procs /\ proc'.at = "batch_manifest"
  BY <1>1, <1>2, StepTyped
<1>4. PICK a, b, c :
        a = Cardinality(SUCCEEDED) /\ b = Cardinality(FAILED) /\ c = Cardinality(DEFERRED)
  OBVIOUS
<1>5. a \in Nat /\ b \in Nat /\ c \in Nat
  BY <1>4, Sets, Constants, FS_Subset, FS_CardinalityType
<1>6. PICK status \in ReducedStatuses :
        reduced' = [reduced EXCEPT !.validation =
                     [status |-> status, successful |-> a, failed |-> b, deferred |-> c]]
  BY <1>4 DEF WriteValidation
<1>7. status \in Verdicts /\ (status \in PASSES => FAILED \cup DEFERRED = {})
  BY <1>6 DEF ReducedStatuses, Verdicts, PASSES
<1>8. PICK v : v = [status |-> status, successful |-> a, failed |-> b, deferred |-> c]
  OBVIOUS
<1>9. v \in Validations /\ v.status = status
  BY <1>5, <1>7, <1>8 DEF Validations
<1>10. PICK m : m = [reduced EXCEPT !.validation = v]
  OBVIOUS
<1>11. /\ m \in Reductions /\ m.validation = v /\ m.ledgers = reduced.ledgers
       /\ m.formal = reduced.formal /\ m.rest = reduced.rest /\ m.manifest = reduced.manifest
  BY <1>9, <1>10, ReducedTyped DEF Reductions
<1>12. reduced' = m
  BY <1>6, <1>8, <1>10
<1>13. Lasting(m)
  BY <1>11 DEF Good, Passed, Lasting
<1>14. /\ \A s \in SUCCEEDED : m.formal[s] = export[s].formal /\ m.rest[s] = export[s].rest
       /\ m.ledgers = Ledgers("whole", SUCCEEDED)
  BY <1>1, <1>2, <1>11 DEF Good, Reducing
<1>15. m.validation.status \in PASSES => SUCCEEDED = Stocks
  BY <1>2, <1>7, <1>9, <1>11, Writing
<1> QED
  BY <1>1, <1>2, <1>3, <1>11, <1>12, <1>13, <1>14, <1>15, Writing, ReductionStep

LEMMA WriteBatchManifestStep ==
    ASSUME Good, WriteBatchManifest
    PROVE  Good'
<1>1. /\ proc.at = "batch_manifest" /\ proc' = Off
      /\ UNCHANGED <<pointer, checkpoint, snapshot, fetched, export, task, moves, crashes>>
  BY DEF WriteBatchManifest, boundVars
<1>2. proc.at \in Reductive
  BY <1>1 DEF Reductive
<1>3. proc' \in Procs /\ proc'.at = "off" /\ proc'.at \notin Reductive
  BY <1>1, EmptyTyped DEF Reductive
<1>4. PICK status : status = reduced.validation.status
  OBVIOUS
<1>5. status \in Verdicts \cup {"none"}
  BY <1>4, ReducedTyped DEF Validations
<1>6. PICK m : m = [reduced EXCEPT !.manifest = status, !.package = proc.package]
  OBVIOUS
<1>7. /\ m \in Reductions /\ m.manifest = status /\ m.ledgers = reduced.ledgers
      /\ m.formal = reduced.formal /\ m.rest = reduced.rest
  BY <1>5, <1>6, ReducedTyped, BatchTyped DEF Reductions
<1>8. reduced' = m
  BY <1>4, <1>6 DEF WriteBatchManifest
<1>9. /\ \A s \in SUCCEEDED : m.formal[s] = export[s].formal /\ m.rest[s] = export[s].rest
      /\ m.ledgers = Ledgers("whole", SUCCEEDED)
      /\ status \in PASSES => SUCCEEDED = Stocks
  BY <1>1, <1>2, <1>4, <1>7 DEF Good, Reducing
<1>10. Lasting(m)
  BY <1>7, <1>9, Sets DEF Lasting, Kept
<1> QED
  BY <1>1, <1>2, <1>3, <1>7, <1>8, <1>10, Writing, ReductionStep DEF Reductive

\* What a kill may leave of an export.
LEMMA CutOffTyped ==
    ASSUME Good, NEW s \in Stocks, NEW e \in CutOff(s)
    PROVE  /\ e \in Exports
           /\ task[s].at = "none" => e = export[s]
           /\ e.formal.state = "whole" => e.formal = export[s].formal
<1>1. export[s] \in Exports
  BY DEF Good, Types
<1>2. CASE e = export[s]
  BY <1>1, <1>2
<1>3. CASE task[s].at = "formal" /\ e = [export[s] EXCEPT !.formal = Torn]
  <2>1. e \in Exports /\ e.formal = Torn
    BY <1>1, <1>3, EmptyTyped DEF Exports
  <2> QED
    BY <1>3, <2>1, EmptyTyped
<1>4. CASE task[s].at = "rest" /\ e = [export[s] EXCEPT !.rest = Torn]
  <2>1. e \in Exports /\ e.formal = export[s].formal
    BY <1>1, <1>4, EmptyTyped DEF Exports
  <2> QED
    BY <1>4, <2>1
<1>5. CASE task[s].at = "manifest" /\ e = [export[s] EXCEPT !.manifest = NoManifest]
  <2>1. e \in Exports /\ e.formal = export[s].formal
    BY <1>1, <1>5, EmptyTyped DEF Exports
  <2> QED
    BY <1>5, <2>1
<1> QED
  BY <1>2, <1>3, <1>4, <1>5 DEF CutOff

\* What a kill may leave of the files of the batch.
LEMMA CutShortTyped ==
    ASSUME Good, NEW m \in CutShort
    PROVE  /\ m \in Reductions
           /\ m.formal = reduced.formal \/ m.formal = Everywhere(Torn)
           /\ m.rest = reduced.rest \/ m.rest = Everywhere(Torn)
           /\ m.ledgers = reduced.ledgers \/ m.ledgers = Ledgers("torn", {})
           /\ m.manifest = reduced.manifest \/ m.manifest = "none"
<1>1. /\ Everywhere(Torn) \in [Stocks -> Contents] /\ Ledgers("torn", {}) \in LedgerFiles
      /\ NoReport \in Validations
  BY EmptyTyped DEF Everywhere, Ledgers, LedgerFiles
<1>2. CASE m = reduced
  BY <1>2, ReducedTyped
<1>3. CASE m = [reduced EXCEPT !.formal = Everywhere(Torn)]
  BY <1>1, <1>3, ReducedTyped DEF Reductions
<1>4. CASE m = [reduced EXCEPT !.rest = Everywhere(Torn)]
  BY <1>1, <1>4, ReducedTyped DEF Reductions
<1>5. CASE m = [reduced EXCEPT !.ledgers = Ledgers("torn", {})]
  BY <1>1, <1>5, ReducedTyped DEF Reductions
<1>6. CASE m = [reduced EXCEPT !.validation = NoReport]
  BY <1>1, <1>6, ReducedTyped DEF Reductions
<1>7. CASE m = [reduced EXCEPT !.manifest = "none"]
  BY <1>7, ReducedTyped DEF Reductions
<1> QED
  BY <1>2, <1>3, <1>4, <1>5, <1>6, <1>7 DEF CutShort

LEMMA CrashStep ==
    ASSUME Good, Crash
    PROVE  Good'
<1> PICK e \in [Stocks -> UNION {CutOff(s) : s \in Stocks}] :
      (\A s \in Stocks : e[s] \in CutOff(s)) /\ export' = e
  BY DEF Crash
<1> PICK m \in CutShort : reduced' = m
  BY DEF Crash
<1>1. /\ proc' = Off /\ task' = [s \in Stocks |-> NoTask] /\ crashes' = crashes + 1
      /\ UNCHANGED <<pointer, checkpoint, snapshot, fetched, moves>>
  BY DEF Crash
<1>2. \A s \in Stocks : /\ export'[s] \in Exports
                        /\ task[s].at = "none" => export'[s] = export[s]
                        /\ export'[s].formal.state = "whole" => export'[s].formal = export[s].formal
  BY CutOffTyped
<1>3. export' \in [Stocks -> Exports]
  BY <1>2
<1>4. task' \in [Stocks -> Tasks] /\ \A s \in Stocks : task'[s] = NoTask /\ task'[s].at = "none"
  BY <1>1, EmptyTyped
<1>5. crashes \in Nat /\ crashes' \in Nat /\ crashes' > 0 /\ reduced' \in Reductions
  BY <1>1, CutShortTyped DEF Good, Types
<1>6. Types'
  BY <1>1, <1>3, <1>4, <1>5, EmptyTyped DEF Good, Types
<1>7. Pointed' /\ Opened' /\ Listed'
  BY <1>1, EmptyTyped DEF Good, Pointed, Opened, Listed
<1>8. Working' /\ Written' /\ Earned'
  BY <1>4 DEF Working, Written, Earned
<1>9. Computed'
  BY <1>2 DEF Good, Computed
<1>10. Reducing'
  BY <1>1, EmptyTyped DEF Reducing, Reductive
<1>11. \A s \in Stocks : checkpoint.rows[s].status \in TERMINAL_SUCCESS => export'[s] = export[s]
  BY <1>2, Successes DEF Good, Working
<1>12. Succeeded'
  BY <1>1, <1>11 DEF Good, Succeeded, Backed
<1>13. Passed'
  <2> SUFFICES ASSUME m.manifest \in PASSES
               PROVE  /\ \A s \in Stocks : /\ checkpoint.rows[s].status \in TERMINAL_SUCCESS
                                           /\ m.formal[s] = export'[s].formal \/ m.formal[s] = Torn
                                           /\ m.rest[s] = export'[s].rest \/ m.rest[s] = Torn
                      /\ \/ m.ledgers = Ledgers("whole", Stocks)
                         \/ m.ledgers = Ledgers("torn", {})
    BY <1>1, <1>5 DEF Passed, Lasting, Kept
  <2>1. reduced.manifest \in PASSES
    BY CutShortTyped DEF PASSES
  <2>2. \A s \in Stocks : /\ checkpoint.rows[s].status \in TERMINAL_SUCCESS
                          /\ reduced.formal[s] = export[s].formal \/ reduced.formal[s] = Torn
                          /\ reduced.rest[s] = export[s].rest \/ reduced.rest[s] = Torn
    BY <2>1 DEF Good, Passed, Lasting, Kept
  <2>3. reduced.ledgers \in {Ledgers("whole", Stocks), Ledgers("torn", {})}
    BY <2>1 DEF Good, Passed, Lasting
  <2>4. \A s \in Stocks : Everywhere(Torn)[s] = Torn
    BY DEF Everywhere
  <2> QED
    BY <1>11, <2>2, <2>3, <2>4, CutShortTyped
<1>14. Pooled'
  <2>1. Busy' = {}
    BY <1>4 DEF Busy
  <2> QED
    BY <2>1, FS_EmptySet, BatchExportAssumption DEF Pooled
<1> QED
  BY <1>6, <1>7, <1>8, <1>9, <1>10, <1>12, <1>13, <1>14 DEF Good

-----------------------------------------------------------------------------
(* The theorems.                                                           *)

LEMMA Stutter ==
    ASSUME Good, UNCHANGED vars
    PROVE  Good'
<1>1. UNCHANGED <<pointer, checkpoint, snapshot, fetched, export, reduced, proc, task, moves, crashes>>
  BY DEF vars, diskVars, boundVars
<1>2. Types' /\ Pointed' /\ Opened' /\ Listed' /\ Working'
  BY <1>1 DEF Good, Types, Pointed, Opened, Listed, Working
<1>3. Written' /\ Earned' /\ Computed' /\ Succeeded' /\ Passed'
  BY <1>1 DEF Good, Written, Earned, Computed, Succeeded, Passed, Lasting, Kept, Backed
<1>4. Reducing'
  BY <1>1 DEF Good, Reducing, SUCCEEDED, FAILED, DEFERRED, Of, Is
<1>5. Pooled'
  BY <1>1, PoolSame DEF Good
<1> QED
  BY <1>2, <1>3, <1>4, <1>5 DEF Good

LEMMA NextGood ==
    ASSUME Good, Next
    PROVE  Good'
<1>1. CASE \E s \in Stocks : Move(s) \/ Claim(s) \/ Collect(s) \/ Process(s)
  BY <1>1, MoveStep, ClaimStep, CollectStep, ProcessStep
<1>2. CASE \E package \in PackageIds :
             ReduceCommand(package) \/ \E force \in BOOLEAN : Start(package, force)
  BY <1>2, ReduceCommandStep, StartStep
<1>3. CASE \/ Expire \/ WriteLedgers \/ Verdict \/ Reduce
          \/ WriteReducedFormal \/ WriteReducedRest \/ WriteReducedLedgers
          \/ WriteValidation \/ WriteBatchManifest
  BY <1>3, ExpireStep, WriteLedgersStep, VerdictStep, ReduceStep, WriteReducedFormalStep,
     WriteReducedRestStep, WriteReducedLedgersStep, WriteValidationStep, WriteBatchManifestStep
<1>4. CASE Verify \/ Reset \/ Crash
  BY <1>4, VerifyStep, ResetStep, CrashStep
<1>5. CASE \E code \in {"F10_FETCH_FAILED", "EXPORT", "PROCESSOR_EXCEPTION"} : ResetTerminal(code)
  BY <1>5, ResetTerminalStep
<1> QED
  BY <1>1, <1>2, <1>3, <1>4, <1>5 DEF Next

\* Good is an invariant: whatever commands, deadlines, recoveries and kills come, each
\* part of it holds of every state of the batch.
THEOREM GoodHolds == Spec => []Good
<1>1. Init => Good
  BY InitGood
<1>2. Good /\ [Next]_vars => Good'
  BY NextGood, Stutter
<1> QED
  BY <1>1, <1>2, PTL DEF Spec

\* Every variable keeps its type, no more stocks are worked on at a time than there are
\* workers (max_stock_workers), and none has more attempts than max_attempts.
THEOREM TypeHolds == Spec => []TypeOK
<1>1. Good => TypeOK
  <2> SUFFICES ASSUME Good PROVE TypeOK
    OBVIOUS
  <2>1. /\ pointer \in [Stocks -> [state : {"none", "ready", "incomplete"}, source : Facts, job : Homes]]
        /\ checkpoint \in [package : Packs, status : Verdicts \cup {"none", "RUNNING"},
                           rows : [Stocks -> Rows]]
        /\ snapshot \in Packs /\ export \in [Stocks -> Exports]
    BY DEF Good, Types, Pointers, Checkpoints
  <2>2. fetched \in [Stocks -> [evidence : {"none", "ok", "quote502", "other"},
                                reason : {"none", Blank, "groups", "network", "resolution"}]]
    BY DEF Good, Types, Fetches
  <2>3. /\ reduced.formal \in [Stocks -> Contents] /\ reduced.rest \in [Stocks -> Contents]
        /\ reduced.ledgers \in [state : {"missing", "torn", "whole"}, completed : SUBSET Stocks]
        /\ reduced.validation.status \in Verdicts \cup {"none"}
        /\ reduced.manifest \in Verdicts \cup {"none"}
    BY ReducedTyped DEF Validations, LedgerFiles
  <2>4. /\ proc.at \in {"off", "work", "verdict", "reduce", "formal", "rest", "ledgers", "validation",
                       "batch_manifest", "reset"}
        /\ proc.todo \cup proc.deferred \cup proc.authorized \subseteq Stocks
    BY BatchTyped DEF Procs, Reductive
  <2>5. \A s \in Stocks : task[s].row \in Rows /\ task[s].source \in Facts
    BY TaskTyped
  <2>6. Cardinality(Busy) <= Workers
    BY DEF Good, Pooled
  <2> QED
    BY <2>1, <2>2, <2>3, <2>4, <2>5, <2>6 DEF TypeOK
<1> QED
  BY <1>1, GoodHolds, PTL

\* A row that says success stands on files, whatever was killed, resumed, recovered or
\* exported again: what the checkpoint calls COMPLETED can be reduced.
THEOREM SuccessHolds == Spec => []SuccessIsExported
<1>1. Good => SuccessIsExported
  BY Sets DEF Good, Succeeded, Backed, SuccessIsExported
<1> QED
  BY <1>1, GoodHolds, PTL

\* Under a batch_manifest.json that says PASS the stocks stay as they were reduced, and the
\* rewriting of the tables in place by later commands takes nothing away that no kill has torn.
THEOREM PassHolds == Spec => []PassIsFinal
<1>1. Good => PassIsFinal
  BY Sets DEF Good, Passed, Lasting, PassIsFinal
<1> QED
  BY <1>1, GoodHolds, PTL

\* Leaving out what came after the cutoff leaves the candidates of the mapper as they are.
LEMMA CandidatesAsOf ==
    ASSUME NEW facts, NEW cutoff \in Nat, \A f \in facts : f.available \in Nat
    PROVE  Candidates({f \in facts : f.available \in 1..cutoff}, cutoff) = Candidates(facts, cutoff)
<1> PICK known : known = {f \in facts : f.available \in 1..cutoff}
  OBVIOUS
<1>1. \A f \in facts : f \in known <=> f.available # 0 /\ f.available <= cutoff
  OBVIOUS
<1>2. Canonical(known) = {f \in Canonical(facts) : f.available # 0 /\ f.available <= cutoff}
  BY <1>1 DEF Canonical
<1>3. Candidates(known, cutoff) = Candidates(facts, cutoff)
  BY <1>2 DEF Candidates
<1> QED
  BY <1>3

LEMMA TablesAsOf ==
    ASSUME NEW facts, \A f \in facts : f.available \in Nat, NEW p, NEW s
    PROVE  LET known == {f \in facts : f.available \in 1..Cutoff}
           IN  /\ TablesOf(p, s, known).annual = TablesOf(p, s, facts).annual
               /\ TablesOf(p, s, known).quarterly = TablesOf(p, s, facts).quarterly
<1> DEFINE known == {f \in facts : f.available \in 1..Cutoff}
           cells(cands) == ReportsOf(cands, RowAt(p, s).name = "bank")
<1>1. Candidates(known, Cutoff) = Candidates(facts, Cutoff)
  BY CandidatesAsOf, BatchExportAssumption
<1>2. ASSUME NEW given
      PROVE  LET cands == Candidates(given, Cutoff)
             IN  /\ TablesOf(p, s, given).annual = AnnualTable(cells(cands), RequestOf(p, s))
                 /\ TablesOf(p, s, given).quarterly =
                      QuarterTable(cells(cands), QuartersOf(cands, cells(cands)), RequestOf(p, s))
  BY DEF TablesOf, Tables
<1> HIDE DEF cells
<1>3. /\ TablesOf(p, s, known).annual = AnnualTable(cells(Candidates(known, Cutoff)), RequestOf(p, s))
      /\ TablesOf(p, s, known).quarterly =
           QuarterTable(cells(Candidates(known, Cutoff)),
                        QuartersOf(Candidates(known, Cutoff), cells(Candidates(known, Cutoff))),
                        RequestOf(p, s))
  BY <1>2
<1>4. /\ TablesOf(p, s, facts).annual = AnnualTable(cells(Candidates(facts, Cutoff)), RequestOf(p, s))
      /\ TablesOf(p, s, facts).quarterly =
           QuarterTable(cells(Candidates(facts, Cutoff)),
                        QuartersOf(Candidates(facts, Cutoff), cells(Candidates(facts, Cutoff))),
                        RequestOf(p, s))
  BY <1>2
<1> QED
  BY <1>1, <1>3, <1>4

\* No fact from after the cutoff, and none of unknown date, shows in a table on disk: not
\* in a row, in a difference of quarters, nor in a choice between revisions.
THEOREM PointInTimeHolds == Spec => []PointInTime
<1>1. Good => PointInTime
  <2> SUFFICES ASSUME Good, NEW s \in Stocks, export[s].formal.state = "whole"
               PROVE  LET content == export[s].formal
                          built == Built[content.package][s][content.source]
                          then == Then[content.package][s][content.source]
                      IN  built.annual = then.annual /\ built.quarterly = then.quarterly
    BY DEF PointInTime
  <2>1. PICK p \in Valid : p = export[s].formal.package
    BY DEF Good, Computed
  <2>2. PICK x \in SourceIds : x = export[s].formal.source
    BY DEF Good, Computed
  <2>3. Built[p][s][x] = TablesOf(p, s, Sources[x])
    BY DEF Built
  <2>4. Then[p][s][x] = TablesOf(p, s, {f \in Sources[x] : f.available \in 1..Cutoff})
    BY DEF Then
  <2>5. \A f \in Sources[x] : f.available \in Nat
    BY BatchExportAssumption DEF SourceIds
  <2>6. PICK facts : facts = Sources[x]
    OBVIOUS
  <2>7. PICK known : known = {f \in facts : f.available \in 1..Cutoff}
    OBVIOUS
  <2>8. /\ TablesOf(p, s, known).annual = TablesOf(p, s, facts).annual
        /\ TablesOf(p, s, known).quarterly = TablesOf(p, s, facts).quarterly
    BY ONLY <2>5, <2>6, <2>7, TablesAsOf
  <2>9. Built[p][s][x] = TablesOf(p, s, facts) /\ Then[p][s][x] = TablesOf(p, s, known)
    BY ONLY <2>3, <2>4, <2>6, <2>7
  <2> QED BY ONLY <2>1, <2>2, <2>8, <2>9
<1> QED
  BY <1>1, GoodHolds, PTL

=============================================================================
