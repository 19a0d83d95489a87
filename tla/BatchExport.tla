----------------------------- MODULE BatchExport -----------------------------
(***************************************************************************)
(* What a batch of A-SCOPE leaves on disk: the processor of a stock        *)
(* (production_processor.py with single_stock.py), the reduction of the    *)
(* batch (reducer.py), the commands (cli.py), and the recovery of failed   *)
(* stocks (recovery/).  BatchRun has the pool and the reports of a run in  *)
(* detail; here one process at a time works in the directory of the batch, *)
(* and may be killed between any two files it writes or while it writes    *)
(* one: but for checkpoint.json and the request, every file is rewritten   *)
(* in place.                                                               *)
(*                                                                         *)
(* A table is named by what it is computed from, the request package and   *)
(* the facts of a run (their places in Packages and Sources), and          *)
(* FinanceTables says what is in it.                                       *)
(***************************************************************************)
EXTENDS FinanceTables, RequestPackage

CONSTANTS
    Stocks,      \* securities of the batch, named by their row in it
    Packages,    \* sequence of request packages, all of them for the same batch
    Sources,     \* sequence of what a run of F10 may find: sets of facts
    Batch, Cutoff,
    Workers,     \* max_stock_workers
    MaxAttempts, \* max_attempts
    MaxRuns,     \* bound on the commands started
    MaxMoves,    \* bound on the changes of the task centre
    MaxCrashes   \* bound on the processes killed

ASSUME BatchExportAssumption ==
    /\ Stocks \subseteq Nat \ {0} /\ IsFiniteSet(Stocks)
    /\ DOMAIN Packages \subseteq Nat \ {0} /\ DOMAIN Sources \subseteq Nat \ {0}
    /\ \A x \in DOMAIN Sources : \A f \in Sources[x] : f.available \in Nat
    /\ Workers \in 1..2 /\ MaxAttempts \in 1..2
    /\ MaxRuns \in Nat /\ MaxMoves \in Nat /\ MaxCrashes \in Nat
    /\ Cutoff \in Nat \ {0}

VARIABLES
    pointer,     \* {stock}/latest.json of the task centre and the job and facts it names
    checkpoint,  \* checkpoint.json
    snapshot,    \* request/: the package resolved last
    fetched,     \* _f10_runs/{stock}: combined.json and the report of the fetch
    export,      \* stocks/{stock}: the formal tables, the other tables, the manifest
    reduced,     \* the tables and ledgers of the batch, validation_report.json, batch_manifest.json
    proc,        \* the process in the batch's directory
    task,        \* its work on each stock
    runs, moves, crashes

diskVars == <<pointer, checkpoint, snapshot, fetched, export, reduced>>
boundVars == <<runs, moves, crashes>>
vars == <<diskVars, proc, task, boundVars>>

-----------------------------------------------------------------------------
TERMINAL_SUCCESS == {"COMPLETED", "COMPLETED_WITH_GAPS"}
RETRYABLE_STATUSES == {"FAILED_RETRYABLE", "DEFERRED_TIME_BUDGET"}
RESUMABLE == RETRYABLE_STATUSES \cup {"PENDING", "FETCHING"}
Statuses == TERMINAL_SUCCESS \cup RESUMABLE \cup {"FAILED_TERMINAL"}
Verdicts == {"PASS", "PASS_WITH_GAPS", "FAILED_TERMINAL", "FAILED_RECOVERABLE"}

\* EXPORT stands for the codes of SingleStockExportError.
Blank == ""
ErrorCodes == {Blank, "F10_FETCH_FAILED", "TIME_BUDGET_REACHED", "INTERRUPTED_IN_FLIGHT", "EXPORT",
               "PROCESSOR_EXCEPTION"}
Row(status, attempts, code) == [status |-> status, attempts |-> attempts, code |-> code]
Fresh == [s \in Stocks |-> Row("PENDING", 0, Blank)]

NoSource == 0
NoPackage == 0
PackageIds == DOMAIN Packages
SourceIds == DOMAIN Sources
\* The run that facts are from: a job of the task centre, by number, or the stock's own fetch.
NoRun == 0
OwnRun == MaxMoves + 1
\* Tables written one after the other: missing, whole, or torn, that is cut off or mixed with
\* older ones by a crash.
Content(state, package, source) == [state |-> state, package |-> package, source |-> source]
Missing == Content("missing", NoPackage, NoSource)
Torn == Content("torn", NoPackage, NoSource)
NoManifest == [status |-> "none", package |-> NoPackage, source |-> NoSource, home |-> NoRun]
NoExport == [formal |-> Missing, rest |-> Missing, manifest |-> NoManifest]
NotFetched == [evidence |-> "none", reason |-> "none"]
NoReport == [status |-> "none", successful |-> 0, failed |-> 0, deferred |-> 0]
Everywhere(content) == [s \in Stocks |-> content]
\* completed_securities.csv; failed_securities.csv and deferred_securities.csv have the rest.
Ledgers(state, completed) == [state |-> state, completed |-> completed]
NotReduced == [formal |-> Everywhere(Missing), rest |-> Everywhere(Missing),
               ledgers |-> Ledgers("missing", {}), validation |-> NoReport,
               manifest |-> "none", package |-> NoPackage]
NoTask == [at |-> "none", row |-> Row("PENDING", 0, Blank), home |-> NoRun, source |-> NoSource]
Off == [at |-> "off", todo |-> {}, expired |-> FALSE, deferred |-> {}, package |-> NoPackage,
        authorized |-> {}]

Init ==
    /\ pointer = [s \in Stocks |-> [state |-> "none", source |-> NoSource, job |-> NoRun]]
    /\ checkpoint = [package |-> NoPackage, status |-> "none", rows |-> Fresh]
    /\ snapshot = NoPackage
    /\ fetched = [s \in Stocks |-> NotFetched]
    /\ export = [s \in Stocks |-> NoExport]
    /\ reduced = NotReduced
    /\ proc = Off
    /\ task = [s \in Stocks |-> NoTask]
    /\ runs = 0 /\ moves = 0 /\ crashes = 0

-----------------------------------------------------------------------------
(* The task centre and its data root.                                      *)

\* A job, new or one that was retried, completes and becomes current, is found incomplete, or
\* its run is deleted.
Named(state) ==
    IF state = "ready" THEN [state : {state}, source : SourceIds, job : 1..moves + 1]
    ELSE {[state |-> state, source |-> NoSource, job |-> NoRun]}
Move(s) ==
    /\ moves < MaxMoves
    /\ \E state \in {"none", "ready", "incomplete"} : \E named \in Named(state) \ {pointer[s]} :
         pointer' = [pointer EXCEPT ![s] = named]
    /\ moves' = moves + 1
    /\ UNCHANGED <<checkpoint, snapshot, fetched, export, reduced, proc, task, runs, crashes>>

-----------------------------------------------------------------------------
(* The rows of the batch.                                                  *)

RowAt(package, s) == Resolved(Packages[package], Batch, 0)[s]
RequestOf(package, s) ==
    LET row == RowAt(package, s)
    IN  [annual |-> row.annual, quarterly |-> row.quarterly, through |-> row.through]

\* What mapping the facts gives, for each package, stock and source.
Valid == {p \in PackageIds : Resolvable(Packages[p], Batch, Cutoff)}
TablesOf(p, s, facts) == Tables(facts, Cutoff, RequestOf(p, s), RowAt(p, s).name = "bank")
Built == [p \in Valid |-> [s \in Stocks |-> [x \in SourceIds |-> TablesOf(p, s, Sources[x])]]]
ExportStatus(tables) == IF tables.gaps = {} THEN "PASS" ELSE "PASS_WITH_GAPS"
SuccessStatus(status) == IF status = "PASS_WITH_GAPS" THEN "COMPLETED_WITH_GAPS" ELSE "COMPLETED"

Is(s, statuses) == checkpoint.rows[s].status \in statuses
Of(statuses) == {s \in Stocks : Is(s, statuses)}

\* Variant: force_retry takes every row back.
LoadedAny(row, force) == IF force THEN [row EXCEPT !.status = "PENDING"] ELSE row

\* _load_checkpoint and force_retry.
Loaded(row, force) ==
    LET read == IF row.status = "FETCHING"
                THEN Row("FAILED_RETRYABLE", row.attempts, "INTERRUPTED_IN_FLIGHT") ELSE row
    IN  IF force /\ read.status \in RETRYABLE_STATUSES THEN [read EXCEPT !.status = "PENDING"] ELSE read

Launch == proc.at = "off" /\ runs < MaxRuns /\ runs' = runs + 1

\* run-batch: the request is written; a checkpoint of another package stops it.
Start(package, force) ==
    LET rows == [s \in Stocks |-> Loaded(checkpoint.rows[s], force)]
    IN  /\ Launch
        /\ package \in Valid
        /\ snapshot' = package
        /\ IF checkpoint.package \in {NoPackage, package}
           THEN /\ checkpoint' = [package |-> package, status |-> "RUNNING", rows |-> rows]
                /\ proc' = [Off EXCEPT !.at = "work", !.package = package,
                              !.todo = {s \in Stocks : rows[s].status \in RESUMABLE}]
           ELSE UNCHANGED <<checkpoint, proc>>
        /\ UNCHANGED <<pointer, fetched, export, reduced, task, moves, crashes>>

\* The soft deadline passes; what is not looked at again need not see it.
Expire ==
    /\ proc.at = "work" /\ ~proc.expired
    /\ proc.todo # {} \/ \E s \in Stocks : task[s].at \in {"queued", "between"}
    /\ proc' = [proc EXCEPT !.expired = TRUE]
    /\ UNCHANGED <<diskVars, task, boundVars>>

Put(s, t) == task' = [task EXCEPT ![s] = t]
SaveRow(s, row) == checkpoint' = [checkpoint EXCEPT !.rows[s] = row]

\* A stock is submitted, in the order of the rows, or deferred in memory once the deadline has passed.
Claim(s) ==
    LET row == [checkpoint.rows[s] EXCEPT !.status = "FETCHING"]
    IN  /\ proc.at = "work" /\ s \in proc.todo /\ \A other \in proc.todo : s <= other
        /\ IF proc.expired
           THEN /\ proc' = [proc EXCEPT !.todo = @ \ {s}, !.deferred = @ \cup {s}]
                /\ UNCHANGED <<checkpoint, task>>
           ELSE /\ proc' = [proc EXCEPT !.todo = @ \ {s}]
                /\ SaveRow(s, row)
                /\ Put(s, [NoTask EXCEPT !.at = "queued", !.row = row])
        /\ UNCHANGED <<pointer, snapshot, fetched, export, reduced, boundVars>>

Busy == {s \in Stocks : task[s].at \notin {"none", "queued", "done"}}
Finish(s, status, code) ==
    Put(s, [NoTask EXCEPT !.at = "done", !.row = Row(status, task[s].row.attempts, code)])

\* The top of the loop over the attempts that are left.
Attempt(s) ==
    LET row == task[s].row
    IN  /\ \/ /\ task[s].at = "queued" /\ Cardinality(Busy) < Workers
             /\ \A other \in Stocks : task[other].at = "queued" => s <= other
           \/ task[s].at = "between"
        /\ CASE row.attempts >= MaxAttempts -> Finish(s, "FAILED_RETRYABLE", row.code)
             [] row.attempts < MaxAttempts /\ proc.expired ->
                  Finish(s, "DEFERRED_TIME_BUDGET", "TIME_BUDGET_REACHED")
             [] OTHER -> Put(s, [task[s] EXCEPT !.at = "locate", !.row.attempts = @ + 1])
        /\ UNCHANGED <<diskVars, proc, boundVars>>

\* The rows in the memory of the main thread, the deferred ones among them.
InMemory ==
    [s \in Stocks |->
       IF s \in proc.deferred
       THEN Row("DEFERRED_TIME_BUDGET", checkpoint.rows[s].attempts, "TIME_BUDGET_REACHED")
       ELSE checkpoint.rows[s]]

\* A result is saved as it comes, with all the rows in memory.
Collect(s) ==
    /\ proc.at = "work" /\ proc.todo = {} /\ task[s].at = "done"
    /\ checkpoint' = [checkpoint EXCEPT !.rows = [InMemory EXCEPT ![s] = task[s].row]]
    /\ Put(s, NoTask)
    /\ UNCHANGED <<pointer, snapshot, fetched, export, reduced, proc, boundVars>>

BatchStatus(rows) ==
    LET seen == {rows[s].status : s \in Stocks}
    IN  IF seen \subseteq {"COMPLETED"} THEN "PASS"
        ELSE IF seen \subseteq TERMINAL_SUCCESS THEN "PASS_WITH_GAPS"
        ELSE IF "FAILED_TERMINAL" \in seen THEN "FAILED_TERMINAL" ELSE "FAILED_RECOVERABLE"

Succeeding(rows) == {s \in Stocks : rows[s].status \in TERMINAL_SUCCESS}

\* All are done: the ledgers are written ...
Idle == proc.at = "work" /\ proc.todo = {} /\ \A s \in Stocks : task[s].at = "none"
WriteLedgers ==
    /\ Idle
    /\ reduced' = [reduced EXCEPT !.ledgers = Ledgers("whole", Succeeding(InMemory))]
    /\ proc' = [proc EXCEPT !.at = "verdict"]
    /\ UNCHANGED <<pointer, checkpoint, snapshot, fetched, export, task, boundVars>>

\* ... then the verdict is saved; --reduce is the default.
Verdict ==
    /\ proc.at = "verdict"
    /\ checkpoint' = [checkpoint EXCEPT !.rows = InMemory, !.status = BatchStatus(InMemory)]
    /\ proc' = [proc EXCEPT !.at = "reduce", !.deferred = {}]
    /\ UNCHANGED <<pointer, snapshot, fetched, export, reduced, task, boundVars>>

-----------------------------------------------------------------------------
(* canonical_stock_processor.                                              *)

\* _retryable_text on the reason of the failed fetch.
RetryableText(reason) == reason \in {"groups", "network"}
\* error F10_FETCH_FAILED: another attempt, or the end of the stock.
FetchFailed(s, reason) ==
    IF RetryableText(reason)
    THEN Put(s, [task[s] EXCEPT !.at = "between",
                   !.row = Row("FAILED_RETRYABLE", @.attempts, "F10_FETCH_FAILED")])
    ELSE Finish(s, "FAILED_TERMINAL", "F10_FETCH_FAILED")

\* locate_current_run: only a missing run is fetched.
Locate(s) ==
    /\ task[s].at = "locate"
    /\ CASE pointer[s].state = "none" -> Put(s, [task[s] EXCEPT !.at = "fetch"])
         [] pointer[s].state = "incomplete" -> Finish(s, "FAILED_TERMINAL", "EXPORT")
         [] OTHER -> Put(s, [task[s] EXCEPT !.at = "export", !.home = pointer[s].job,
                               !.source = pointer[s].source])
    /\ UNCHANGED <<diskVars, proc, boundVars>>

\* The fetch gets all groups.
FetchPasses(s) ==
    /\ task[s].at = "fetch"
    /\ \E source \in SourceIds :
         /\ fetched' = [fetched EXCEPT ![s] = [evidence |-> "ok", reason |-> Blank]]
         /\ Put(s, [task[s] EXCEPT !.at = "export", !.home = OwnRun, !.source = source])
    /\ UNCHANGED <<pointer, checkpoint, snapshot, export, reduced, proc, boundVars>>

\* It ends with failed groups, which combined.json lists, or before it has written that
\* file.  What it prints names an error the processor knows ("network"), one that only
\* run_resilient_fetch.py takes for transient, such as a failed name resolution, or one
\* that nobody retries.
FetchFails(s) ==
    /\ task[s].at = "fetch"
    /\ \/ \E evidence \in {"quote502", "other"} :
            /\ fetched' = [fetched EXCEPT ![s] =
                             [evidence |-> evidence, reason |-> "groups"]]
            /\ FetchFailed(s, "groups")
       \/ \E reason \in {"network", "resolution"} :
            /\ fetched' = [fetched EXCEPT ![s].reason = reason]
            /\ FetchFailed(s, reason)
    /\ UNCHANGED <<pointer, checkpoint, snapshot, export, reduced, proc, boundVars>>

\* It is killed before it reports: the report of an earlier fetch is read.
FetchKilled(s) ==
    /\ task[s].at = "fetch"
    /\ FetchFailed(s, fetched[s].reason)
    /\ UNCHANGED <<diskVars, proc, boundVars>>

-----------------------------------------------------------------------------
(* export_single_stock.                                                    *)

Decision(s) == [package |-> checkpoint.package, source |-> task[s].source, home |-> task[s].home]
DecisionOf(manifest) ==
    [package |-> manifest.package, source |-> manifest.source, home |-> manifest.home]
FilesExist(e) ==
    e.formal.state # "missing" /\ e.rest.state # "missing" /\ e.manifest.status # "none"

\* Variant: only the first file is looked for.
CachedFormal(s) == export[s].formal.state # "missing"

Cached(s) == FilesExist(export[s]) /\ DecisionOf(export[s].manifest) = Decision(s)

Mapped(s) == Built[checkpoint.package][s][task[s].source]
\* _validate_formal_output: what the mapper returns has no duplicate and nothing late.
FormalValid(tables) == \A row \in tables.annual \cup tables.quarterly : row.available # 0

\* The export is done; what a fetch left behind is removed.
Exported(s, status) ==
    LET row == Row(SuccessStatus(status), task[s].row.attempts, Blank)
    IN  Put(s, [task[s] EXCEPT !.row = row, !.at = IF task[s].home = OwnRun THEN "prune" ELSE "done"])

ExportBegin(s) ==
    /\ task[s].at = "export"
    /\ CASE Cached(s) -> Exported(s, export[s].manifest.status)
         [] ~Cached(s) /\ (Sources[task[s].source] = {} \/ ~FormalValid(Mapped(s))) ->
              Finish(s, "FAILED_TERMINAL", "EXPORT")
         [] OTHER -> Put(s, [task[s] EXCEPT !.at = "formal"])
    /\ UNCHANGED <<diskVars, proc, boundVars>>

Whole(s) == Content("whole", checkpoint.package, task[s].source)

\* financial_annual.csv and financial_quarterly.csv ...
WriteFormal(s) ==
    /\ task[s].at = "formal"
    /\ export' = [export EXCEPT ![s].formal = Whole(s)]
    /\ Put(s, [task[s] EXCEPT !.at = "rest"])
    /\ UNCHANGED <<pointer, checkpoint, snapshot, fetched, reduced, proc, boundVars>>

\* ... then the status, gap, future and duplicate tables ...
WriteRest(s) ==
    /\ task[s].at = "rest"
    /\ export' = [export EXCEPT ![s].rest = Whole(s)]
    /\ Put(s, [task[s] EXCEPT !.at = "manifest"])
    /\ UNCHANGED <<pointer, checkpoint, snapshot, fetched, reduced, proc, boundVars>>

\* ... then the manifest.
WriteManifest(s) ==
    LET status == ExportStatus(Mapped(s))
        d == Decision(s)
    IN  /\ task[s].at = "manifest"
        /\ export' = [export EXCEPT ![s].manifest =
                        [status |-> status, package |-> d.package, source |-> d.source, home |-> d.home]]
        /\ Exported(s, status)
        /\ UNCHANGED <<pointer, checkpoint, snapshot, fetched, reduced, proc, boundVars>>

\* _preserve_fetch_report_and_prune; a directory that cannot be removed raises.
Prune(s) ==
    /\ task[s].at = "prune"
    /\ \/ fetched' = [fetched EXCEPT ![s] = NotFetched] /\ Put(s, [NoTask EXCEPT !.at = "done", !.row = task[s].row])
       \/ UNCHANGED fetched /\ Finish(s, "FAILED_TERMINAL", "PROCESSOR_EXCEPTION")
    /\ UNCHANGED <<pointer, checkpoint, snapshot, export, reduced, proc, boundVars>>

-----------------------------------------------------------------------------
(* reduce_batch.                                                           *)

SUCCEEDED == Of(TERMINAL_SUCCESS)
FAILED == Of({"FAILED_RETRYABLE", "FAILED_TERMINAL"})
DEFERRED == Of({"DEFERRED_TIME_BUDGET"})

InWindow(package, s, row, from) ==
    row.date \in from..RequestOf(package, s).through
\* The files of a stock are there, and its formal rows valid for the package.
Reducible(package, s) ==
    LET e == export[s]
        built == Built[e.formal.package][s][e.formal.source]
    IN  /\ FilesExist(e)
        /\ e.formal.state = "whole" =>
             /\ \A row \in built.annual : InWindow(package, s, row, RequestOf(package, s).annual)
             /\ \A row \in built.quarterly : InWindow(package, s, row, RequestOf(package, s).quarterly)
TornAt(s) == "torn" \in {export[s].formal.state, export[s].rest.state}

GapRows(s) ==
    export[s].rest.state = "whole" /\ Built[export[s].rest.package][s][export[s].rest.source].gaps # {}

\* Whether a torn data_gaps.csv still has a row is open.
ReducedStatuses ==
    IF Of({"FAILED_TERMINAL"}) # {} THEN {"FAILED_TERMINAL"}
    ELSE IF FAILED \cup DEFERRED # {} THEN {"FAILED_RECOVERABLE"}
    ELSE IF \E s \in Stocks : Is(s, {"COMPLETED_WITH_GAPS"}) \/ GapRows(s) THEN {"PASS_WITH_GAPS"}
    ELSE IF \E s \in Stocks : export[s].rest.state = "torn" THEN {"PASS", "PASS_WITH_GAPS"}
    ELSE {"PASS"}

\* reduce-batch: the package is resolved again; only the batch and its stocks are compared.
ReduceCommand(package) ==
    /\ Launch
    /\ package \in Valid /\ checkpoint.package # NoPackage
    /\ proc' = [Off EXCEPT !.at = "reduce", !.package = package]
    /\ UNCHANGED <<diskVars, task, moves, crashes>>

\* The checkpoint and the exports are read; an invalid one ends the command, and a torn one
\* is read as far as it goes or ends it too.
Reduce ==
    LET valid == /\ SUCCEEDED \cup FAILED \cup DEFERRED = Stocks
                 /\ \A s \in SUCCEEDED : Reducible(proc.package, s)
    IN  /\ proc.at = "reduce"
        /\ \/ valid /\ proc' = [proc EXCEPT !.at = "formal"]
           \/ (~valid \/ \E s \in SUCCEEDED : TornAt(s)) /\ proc' = Off
        /\ UNCHANGED <<diskVars, task, boundVars>>

\* What was read is written over the tables of an earlier reduction: the formal tables,
\* field status, gaps and the like, and the ledgers.  No export changes meanwhile.
Step(at, next) == proc.at = at /\ proc' = [proc EXCEPT !.at = next]
WriteReducedFormal ==
    /\ Step("formal", "rest")
    /\ reduced' = [reduced EXCEPT !.formal =
                     [s \in Stocks |-> IF s \in SUCCEEDED THEN export[s].formal ELSE Missing]]
    /\ UNCHANGED <<pointer, checkpoint, snapshot, fetched, export, task, boundVars>>

WriteReducedRest ==
    /\ Step("rest", "ledgers")
    /\ reduced' = [reduced EXCEPT !.rest =
                     [s \in Stocks |-> IF s \in SUCCEEDED THEN export[s].rest ELSE Missing]]
    /\ UNCHANGED <<pointer, checkpoint, snapshot, fetched, export, task, boundVars>>

WriteReducedLedgers ==
    /\ Step("ledgers", "validation")
    /\ reduced' = [reduced EXCEPT !.ledgers = Ledgers("whole", SUCCEEDED)]
    /\ UNCHANGED <<pointer, checkpoint, snapshot, fetched, export, task, boundVars>>

WriteValidation ==
    /\ Step("validation", "batch_manifest")
    /\ \E status \in ReducedStatuses :
         reduced' = [reduced EXCEPT !.validation =
                      [status |-> status, successful |-> Cardinality(SUCCEEDED),
                       failed |-> Cardinality(FAILED), deferred |-> Cardinality(DEFERRED)]]
    /\ UNCHANGED <<pointer, checkpoint, snapshot, fetched, export, task, boundVars>>

\* The manifest has the status of the validation.
WriteBatchManifest ==
    /\ proc.at = "batch_manifest"
    /\ reduced' = [reduced EXCEPT !.manifest = reduced.validation.status, !.package = proc.package]
    /\ proc' = Off
    /\ UNCHANGED <<pointer, checkpoint, snapshot, fetched, export, task, boundVars>>

-----------------------------------------------------------------------------
(* Recovery.                                                               *)

\* verify_recoverable_batch on one row.
Authorizable(s) ==
    LET row == checkpoint.rows[s]
    IN  \/ /\ row.status = "FAILED_RETRYABLE" /\ row.code = "F10_FETCH_FAILED"
           /\ row.attempts >= 1
           /\ fetched[s].evidence = "quote502"
        \/ /\ row.status = "DEFERRED_TIME_BUDGET" /\ row.code = "TIME_BUDGET_REACHED"
           /\ row.attempts \in {0, 1}

Verify ==
    LET open == Of(RETRYABLE_STATUSES)
    IN  /\ Launch
        /\ reduced.validation = [status |-> "FAILED_RECOVERABLE", successful |-> Cardinality(SUCCEEDED),
                                 failed |-> Cardinality(FAILED), deferred |-> Cardinality(DEFERRED)]
        /\ SUCCEEDED \cup open = Stocks /\ open # {}
        /\ \A s \in open : Authorizable(s)
        /\ proc' = [Off EXCEPT !.at = "reset", !.authorized = open]
        /\ UNCHANGED <<diskVars, task, moves, crashes>>

Cleared(ids) == [s \in Stocks |-> IF s \in ids THEN Row("PENDING", 0, Blank) ELSE checkpoint.rows[s]]

STATUS_ERROR_CODES == [FAILED_RETRYABLE |-> "F10_FETCH_FAILED", DEFERRED_TIME_BUDGET |-> "TIME_BUDGET_REACHED"]
\* reset_retryable_failures: the authorized stocks, if they are all that can be retried.
Reset ==
    /\ proc.at = "reset"
    /\ IF /\ Of(RETRYABLE_STATUSES) = proc.authorized
          /\ \A s \in proc.authorized : checkpoint.rows[s].code = STATUS_ERROR_CODES[checkpoint.rows[s].status]
       THEN checkpoint' = [checkpoint EXCEPT !.rows = Cleared(proc.authorized), !.status = "RUNNING"]
       ELSE UNCHANGED checkpoint
    /\ proc' = Off
    /\ UNCHANGED <<pointer, snapshot, fetched, export, reduced, task, boundVars>>

\* reset_terminal_failures: an operator names the stocks and the error that was fixed.
ResetTerminal(code) ==
    LET ids == Of({"FAILED_TERMINAL"})
    IN  /\ Launch
        /\ ids # {} /\ \A s \in ids : checkpoint.rows[s].code = code
        /\ checkpoint' = [checkpoint EXCEPT !.rows = Cleared(ids), !.status = "RUNNING"]
        /\ UNCHANGED <<pointer, snapshot, fetched, export, reduced, proc, task, moves, crashes>>

-----------------------------------------------------------------------------
\* The process is killed; the file a stock was writing may be cut off ...
CutOff(s) ==
    CASE task[s].at = "formal" -> {export[s], [export[s] EXCEPT !.formal = Torn]}
      [] task[s].at = "rest" -> {export[s], [export[s] EXCEPT !.rest = Torn]}
      [] task[s].at = "manifest" -> {export[s], [export[s] EXCEPT !.manifest = NoManifest]}
      [] OTHER -> {export[s]}

\* ... and so may the one that the batch or its reduction was writing.
CutShort ==
    {reduced} \cup
    CASE proc.at = "formal" -> {[reduced EXCEPT !.formal = Everywhere(Torn)]}
      [] proc.at = "rest" -> {[reduced EXCEPT !.rest = Everywhere(Torn)]}
      [] Idle \/ proc.at = "ledgers" -> {[reduced EXCEPT !.ledgers = Ledgers("torn", {})]}
      [] proc.at = "validation" -> {[reduced EXCEPT !.validation = NoReport]}
      [] proc.at = "batch_manifest" -> {[reduced EXCEPT !.manifest = "none"]}
      [] OTHER -> {}

Crash ==
    /\ proc.at # "off" /\ crashes < MaxCrashes
    /\ crashes' = crashes + 1
    /\ \E e \in [Stocks -> UNION {CutOff(s) : s \in Stocks}] :
         /\ \A s \in Stocks : e[s] \in CutOff(s)
         /\ export' = e
    /\ reduced' \in CutShort
    /\ proc' = Off
    /\ task' = [s \in Stocks |-> NoTask]
    /\ UNCHANGED <<pointer, checkpoint, snapshot, fetched, runs, moves>>

Process(s) ==
    \/ Attempt(s) \/ Locate(s) \/ FetchPasses(s) \/ FetchFails(s) \/ FetchKilled(s)
    \/ ExportBegin(s) \/ WriteFormal(s) \/ WriteRest(s) \/ WriteManifest(s) \/ Prune(s)

Next ==
    \/ \E s \in Stocks : Move(s) \/ Claim(s) \/ Collect(s) \/ Process(s)
    \/ \E package \in PackageIds : ReduceCommand(package) \/ \E force \in BOOLEAN : Start(package, force)
    \/ Expire \/ WriteLedgers \/ Verdict
    \/ Reduce \/ WriteReducedFormal \/ WriteReducedRest \/ WriteReducedLedgers
    \/ WriteValidation \/ WriteBatchManifest
    \/ Verify \/ Reset
    \/ \E code \in {"F10_FETCH_FAILED", "EXPORT", "PROCESSOR_EXCEPTION"} : ResetTerminal(code)
    \/ Crash

Spec == Init /\ [][Next]_vars

-----------------------------------------------------------------------------
(* Properties.                                                             *)

Packs == {NoPackage} \cup PackageIds
Facts == {NoSource} \cup SourceIds
Contents == [state : {"missing", "torn", "whole"}, package : Packs, source : Facts]
Homes == 0..MaxMoves + 1
Manifests == [status : {"none", "PASS", "PASS_WITH_GAPS"}, package : Packs, source : Facts,
              home : Homes]
Exports == [formal : Contents, rest : Contents, manifest : Manifests]
Rows == [status : Statuses, attempts : 0..MaxAttempts, code : ErrorCodes]

\* Every variable keeps its type, no more stocks are worked on at a time than
\* there are workers, and no stock has more attempts than allowed.
TypeOK ==
    /\ pointer \in [Stocks -> [state : {"none", "ready", "incomplete"}, source : Facts, job : Homes]]
    /\ checkpoint \in [package : Packs, status : Verdicts \cup {"none", "RUNNING"}, rows : [Stocks -> Rows]]
    /\ snapshot \in Packs
    /\ fetched \in [Stocks -> [evidence : {"none", "ok", "quote502", "other"},
                              reason : {"none", Blank, "groups", "network", "resolution"}]]
    /\ export \in [Stocks -> Exports]
    /\ reduced.formal \in [Stocks -> Contents] /\ reduced.rest \in [Stocks -> Contents]
    /\ reduced.ledgers \in [state : {"missing", "torn", "whole"}, completed : SUBSET Stocks]
    /\ reduced.validation.status \in Verdicts \cup {"none"}
    /\ reduced.manifest \in Verdicts \cup {"none"}
    /\ proc.at \in {"off", "work", "verdict", "reduce", "formal", "rest", "ledgers", "validation",
                   "batch_manifest", "reset"}
    /\ proc.todo \cup proc.deferred \cup proc.authorized \subseteq Stocks
    /\ \A s \in Stocks : task[s].row \in Rows /\ task[s].source \in Facts
    /\ Cardinality(Busy) <= Workers

\* A row that says success stands on files: all tables of the stock are there, the
\* manifest is the one of the batch's package, and its status is the row's.
SuccessIsExported ==
    \A s \in SUCCEEDED :
        /\ FilesExist(export[s])
        /\ export[s].manifest.package = checkpoint.package
        /\ checkpoint.rows[s].status = SuccessStatus(export[s].manifest.status)

PASSES == {"PASS", "PASS_WITH_GAPS"}

\* Tables that were there stay as they were written, unless a kill tore them.
Kept(tables, written) == tables = written \/ (tables = Torn /\ crashes > 0)

\* Once batch_manifest.json says PASS, every stock of the batch has succeeded and the tables
\* of the batch are those of its export, whatever runs, resumes, recoveries and reductions
\* come after, but for files that a kill has cut off: nothing else ever takes one back.
PassIsFinal ==
    reduced.manifest \in PASSES =>
        /\ \A s \in Stocks : /\ s \in SUCCEEDED
                             /\ Kept(reduced.formal[s], export[s].formal)
                             /\ Kept(reduced.rest[s], export[s].rest)
        /\ \/ reduced.ledgers = Ledgers("whole", Stocks)
           \/ reduced.ledgers = Ledgers("torn", {}) /\ crashes > 0

\* The tables under a manifest that says PASS are whole: completed batches are immutable
\* inputs (01_master_plan.md:68).  (Refuted with two commands and a kill: see README.)
PassTablesWhole ==
    reduced.manifest \in PASSES =>
        /\ \A s \in Stocks : reduced.formal[s] = export[s].formal /\ reduced.rest[s] = export[s].rest
        /\ reduced.ledgers.state = "whole"

\* The tables, had the facts ended at the cutoff.
Then == [p \in Valid |-> [s \in Stocks |-> [x \in SourceIds |->
           TablesOf(p, s, {f \in Sources[x] : f.available \in 1..Cutoff})]]]

\* Nothing that was published after the cutoff is in a table, not even by way of a
\* difference or of a choice between revisions: without it the rows are the same.
PointInTime ==
    \A s \in Stocks : export[s].formal.state = "whole" =>
        LET content == export[s].formal
            built == Built[content.package][s][content.source]
            then == Then[content.package][s][content.source]
        IN  built.annual = then.annual /\ built.quarterly = then.quarterly

\* A field that applies and is missing from a quarter has a gap.  (Refuted: see README.)
MissingHasGap ==
    \A s \in Stocks : export[s].formal.state = "whole" =>
        LET built == Built[export[s].formal.package][s][export[s].formal.source]
            bank == RowAt(export[s].formal.package, s).name = "bank"
        IN  \A row \in built.quarterly : \A t \in DOMAIN row.values :
                row.values[t] \in {NoValue, NaN} /\ ~(bank /\ SpecOf(t).industrial) =>
                    \E gap \in built.gaps : gap.date = row.date /\ gap.field = t

\* The tables of a success come from one set of facts.  (Refuted with two crashes.)
OneSource ==
    \A s \in SUCCEEDED : export[s].formal = export[s].rest

\* What is authorized has failed for the reason that combined.json shows. (Refuted.)
EvidenceIsFresh ==
    \A s \in proc.authorized : Is(s, {"FAILED_RETRYABLE"}) => fetched[s].reason = "groups"
=============================================================================
