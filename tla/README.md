# Verification of the A-share F10 collector

TLA+ models, TLC runs and TLAPS proofs about the program in this repository: a service
that collects 113 F10 interfaces per A-share security, keeps each collection as a *job*,
publishes one job per stock as the current data version, and runs large *batches* of
stocks for the A-SCOPE bridge. Paths below are relative to `src/` of the Python package
(`src/ashare_f10/...`) unless they start with `docs/`, `scripts/`, `tests/` or `web/`.

## 1. The system

| Component | State it keeps | Operations | Interacts with |
|---|---|---|---|
| Task centre, `api/jobs.py`, `api/jobs_v2.py` | SQLite tables `jobs` and `job_groups`; `latest.json` per stock; run directories; in memory `_active_jobs`, `cancel_events`, a thread pool | create/rerun, run, retry, delete, set_current, cancel, latest, get, list_groups, start-up repair | runs the fetch pipeline and the exports on its pool; read by search, TTM, formulas |
| Fetch pipeline, `fetch/*`, `cli.py`, `scripts/run_resilient_fetch.py` | group files, raw HTTP cache, checkpoint and `combined.json` of a run directory | run, resume, fallback requests, cancel | progress callbacks into the task centre |
| Visual jobs, `api/visual_*` | a sidecar file per job, optional stages | create, retry, stages | a subclass of the task centre over the same database; its stages register files in `artifacts.json` |
| Batch run, `ascope_bridge/batch.py`, `cli.py` | `checkpoint.json`, ledgers, `batch_run_result.json`; a pool of at most two workers | start/resume, claim, attempt, collect, conclude | calls the single-stock processor; is called by the batch service and by workflows |
| Batch service, `api/ascope_batches.py` | `job.json` per batch job; one thread and one child process per job | create, cancel, resume, recovery at start | starts and kills `run-batch` processes |
| Rollout, `ascope_bridge/rollout.py` | rollout state: phase, batches, active batches | plan, mark_running, record result or failure | workflows that run batches |
| Single-stock export, request resolution, reduction | files of one stock or one batch | publish, resolve, reduce | called by a batch run |
| Checkpoint recovery, `recovery/*` | rewrites checkpoints between runs | make stocks resumable, seed, reconcile | batch run's checkpoint |
| Cross-validation, `cross_validation/*`, `validation/sources`, `validation/documents` | PDFs, parsed facts, checkpoint, comparison database of one stock | list, download, parse, compare, export, register | read by research packs; a stage of visual jobs |
| Research packs, `research_pack/*`, `api/research_pack.py` | checkpoint, stage caches, package, `latest.json` | open, stages, package, publish | starts a validation or reads the facts of one |
| Raw packs, `raw_sources/*`, `api/raw_pack.py` | a directory per run, its index, two pointers; jobs in memory | collect, index, check, publish | writes `artifacts.json` of the F10 version |
| Devflow scripts, `scripts/devflow/*` | task states in the repository, markers and receipts on issues | validate, finalise, scan, classify, notify | started by workflows, and by the end of other workflows |
| Normalisation, exports, search, calculation, web pages | files and answers derived from a published version | convert, compute, render | read what the task centre published |

What is hard here is neither the fetching nor the arithmetic but the *handoffs*: every
thread and process works on a copy of a state that it read earlier and writes all of it
back; the state is spread over a database, files and memory that a crash treats
differently; files are written in place; a run may be cancelled, retried, deleted, made
current, killed and resumed while another one is at work. What makes each component
correct:

* task centre: one executor per job; a busy row has a thread; `latest.json` and the
  CURRENT flag agree; deleted jobs stay deleted; a crash at any point is repaired; the
  status of a job is the status of its data;
* pipeline: PASS is of a complete directory; a saved success is kept; a failure has a cause;
* visual jobs: one thread at work; stage states and the manifest survive each other's saves;
* batch run: an outcome is final and never lost or paid for twice; reports and exit code
  never say more than the checkpoint; attempts are bounded; a run ends;
* batch service: one process per output; an accepted cancel is honoured; COMPLETED is true;
* export and reduction: a success stands on files; no fact is from after the cutoff; a
  batch that has passed stays so over recoveries;
* rollout: order of phases, at most two active batches, no success is run again;
* validation and packs: PASS covers what it claims; the same question has the same answer
  later; a pack holds what its fingerprint names and its index keeps its files;
* devflow: one request per event, only for what happened, and no failure unanswered.

`PROJECT.json` lists every component with its status, and every hazard at its line with
the property that covers it or the reason why none does.

## 2. Modules

| Module | Models |
|---|---|
| `JobManager`, `MCJobManager` | the task centre: requests on server threads, pool tasks, crash and repair |
| `TaskCentreProofs` | the checked safety properties of `JobManager`, `FetchRun` and `JobData`, for every instance |
| `FetchPipeline` | one output directory and the passes of `FetchPipeline.run` over it |
| `FetchRun`, `MCFetchRun` | `FetchPipeline` under the fetch command and the wrapper that retries it |
| `JobData`, `MCJobData` | `FetchPipeline` under one job of the task centre, with retries of single groups |
| `VisualJobs`, `MCVisualJobs` | one visual job with its optional stages |
| `VisualJobsProofs` | all properties of `VisualJobs` but the refuted one, for every instance |
| `BatchLedger` | what a resumable batch promises: one final outcome per stock, justified verdicts |
| `BatchRun` | `run_batch` and its process, with kills and resumes; implements `BatchLedger` |
| `BatchRunProofs` | all safety properties of `BatchRun` and the refinement, for every instance |
| `AscopeBatch` | the batch service over the processes it starts, each an outline of `BatchRun` |
| `Rollout` | the rollout over all batches and the controller that carries out its plan |
| `AscopeProofs` | of the service, one process per life, what COMPLETED means and outcomes kept; all safety properties of `Rollout` but the refuted one; for every instance |
| `RequestPackage`, `FinanceTables` | operators: a request package and its checks; the tables made of facts |
| `BatchExport`, `MCBatchExport` | the processor of a stock, the reduction and the recoveries, over the files of a batch |
| `BatchExportProofs` | all properties of `BatchExport` but the refuted ones, for every instance |
| `CrossValidation` | validations of one stock over its directories |
| `ResearchPack`, `MCResearchPack` | `CrossValidation` composed with the packs made from it |
| `ResearchPackProofs` | types, `PassMeansCovered`, `StableRepeat` and `PackOfInputs`, for every instance |
| `RawPack`, `MCRawPack` | raw-pack jobs of one stock |
| `RawPackProofs` | types and `PacksInOrder` of `RawPack`, for every manifest and any number of jobs |
| `TaskState`, `RecoveryPolicy` | operators: task states and their closing; the classification of failed runs |
| `Devflow`, `MCDevflow` | main, workflow runs, incident runs, issues and Bark |
| `DevflowProofs` | all safety properties of `Devflow` but the refuted one, for every instance |

Operators whose comment begins with `Variant` are plausible mistakes; no
specification uses them. Replacing the definition that follows by its variant makes a
property fail, which shows that the property depends on that code.

### JobManager

`rows` and `groups` are the two tables, `pointer` the `latest.json` files, `dirs` the run
directories, `active` and `events` the memory of each manager. `fr` gives each thread its
operation, its program counter and **its copy of the job's state** (`st`), because
everything of interest comes from copies that age. Every SQLite transaction, file
operation and lock region is one step. Managers is a set, since the application
constructs three objects over one database (`api/app.py:50`, `cross_validation/api.py:20`,
`api/visual_execution_v2.py:19`).

* `Create`, `CreateSubmit`, `RunStart`, `RunProgress`, `RunReturn`, `RunExported`,
  `RunRaise` follow `create` and `_run`; `Final` and `Release` are the `finally` blocks.
* `PtrFile`, `PtrClear`, `PtrMark` are the three writes of `_set_current_pointer`;
  `FallbackSelect`, `FallbackUnflag`, `FallbackUnlink` those of
  `_select_fallback_current`. Five operations end in them.
* `RetryRead`, `Lock`, `RetrySubmit`, `RetryStart` ... `RetryRaise` follow
  `_schedule_retry` and `_run_retry`; `DeleteRead`, `Lock`, `DeleteMark`, `DeleteFiles`,
  `DeleteRows` follow `delete`. `Lock` is shared: both check the *old* status and the
  *present* active set.
* `ViewRead`, `ViewSync`, `ViewSave` are the saves hidden in `get` and `list_groups`.
* `Crash` keeps tables and files and loses memory; `BootRow` and `BootStock` are
  `_backfill_legacy_jobs` and `_reconcile_current_pointer`.

Abstractions: the 113 groups are reduced to the four combinations of counters that the
status logic tells apart (`Counts`); the fallback takes *any* whole job where the code
takes the newest; `_sync_group_files` at view and start-up, which recounts the rows from
the files, is covered by letting a retry change the counts arbitrarily; `retry_failed`
counts once more before it schedules. Not modelled: database errors and I/O errors other
than those of the exports and of removing a directory; an unreadable `latest.json`; the
race of two promotions on `latest.json.tmp`; import of directories from before the
database.

### BatchRun and BatchLedger

`checkpoint` is `checkpoint.json`, `run` the main thread with its copy of the rows, `task`
the futures with theirs, `reports` the ledgers and the result file, `exit` the exit code.
`Submit` and `Collect` save the main thread's **whole** copy, as `_atomic_json` does;
a deferred stock is changed in memory only. `WriteLedgers`, `SaveVerdict` and
`WriteResult` are the three writes at the end, with a possible kill between any two.
`Attempt`, `Returned` and `Retryable` are `_process_with_attempts`: the attempt is counted
in the worker's copy and is on record only after `Collect`. The deadline may pass at any
moment (`Expire`). `calls` is a history variable counting processor calls.

`BatchLedger` has an outcome per stock and a verdict, and three operations: settle an open
stock, conclude with the justified verdict, reopen. `ImplementsLedger` maps a settled
status to the outcome, everything else (PENDING, FETCHING, retryable, deferred) to
"open", and a final checkpoint status to the verdict: all crashes, resumes and forced
retries are stutters or reopenings.

Abstractions: the three CSV ledgers are one write; `max_attempts` is the same in all
runs; stocks are submitted in any order; the batch's input is fixed, so the fingerprint
check passes; the heartbeat print is left out; an exception in the main thread is like a
kill. One process at a time runs the batch: that is the batch service's obligation,
`OneProcessPerLife` below.

### AscopeBatch

One job of `AscopeBatchManager`: `job` is `job.json`, `run` the job's thread with its
copy, `registered` the entry in `_processes`, `call` the requests with their copies.
Reading and writing `job.json` are separate steps everywhere the code separates them.
The processes are `BatchRun` in outline, which the proofs of `BatchRun` justify: each
loads the checkpoint, gives final outcomes to open stocks, saves all its rows at every
step, and exits with the code its rows justify. `Crash` ends the service but not the
processes (`start_new_session`); `Recover` is `_recover_interrupted`.

Abstractions: a write of `job.json` is one step (the shared temporary file is a hazard on
the list); an output pipe without a reader may or may not stop a process; `return_code`,
`pid`, log and `batch_result` are not kept, no decision uses them.

### Rollout

`rollout.py` has no process of its own: its functions take the state of the rollout and
return the next one. They are the operators `PlannedActions` (`plan_next_actions`),
`Marked` behind `Markable` (`mark_running`, which may raise) and `Recorded`
(`record_batch_result`, with `SmokeRecorded`, `BatchRecorded` and the closing choice of
`NextPhase`). The actions are the controller's calls: `Plan`, `Run` an action of a plan
that may be out of date by now, `Record` the result of a run, and `RecordAgain` one that
was recorded before. `flying` is the set of runs that are really at work, which the code
cannot see; `delivered` and `duplicates` are history.

What the translation keeps although it looks odd: `Chosen` compares after it has
appended, so it picks one batch although no slot is free (`NothingBeyondTwo`, section 4);
only smoke results are refused out of order, others are taken in every phase; no function
enters WAITING_FOR_INPUT or COMPLETED; the phase of a package of one batch remains
B001_FULL_PASS.

Abstractions: validation of the manifests (a result that does not fit its batch raises
and changes nothing), artifact and run identifiers, timestamps, and the reduction
that follows FULL_REDUCTION_READY. The attempts of the smoke run are not counted, since it
runs once.

### FetchPipeline, FetchRun and JobData

`FetchPipeline` has the files of a run directory (`raw`, `file`, `combined`) and one pass
over it: the page group first, the standard groups and fallbacks in a pool, then the
dynamic groups, whose requests come from the records of another group. A group file is
written in place, and a kill while it may be under way tears it; a torn group file is
fetched again, a torn file of the raw cache raises outside the retry loop. The module has
no specification of its own. `FetchRun` adds the fetch command (up to three passes,
exports, `cli.validate`, which counts failures in `combined.json`) and the wrapper with its
attempts, report and `--force`, which only the first attempt is given. The wrapper's option
`--skip-validate` (`run_resilient_fetch.py:207`), with which PASS is not validated, is left out:
no caller in the repository gives it. `JobData` adds the
rows of the task centre, cancel, the retry of groups (`_retry_one_group`,
`_best_saved_groups`, `_assemble_combined`) and the exports; which thread may do so, and
when, is `JobManager`'s.

Abstractions: a request stands for its pages; the retries inside the HTTP client are one
step with any outcome; a child that is killed by a signal has return code -9 or -15, not
137 or 143, which changes the wrapper's classification of it (taken from the code). Two
pages with the same fingerprint write one cache file (`fetch/client.py:236`), and two
dynamic records that dedupe make the result's validator raise: both left out. `disturbed`
and `plain` are ghosts that say what the hosts' properties may not blame on the code.

### VisualJobs

The job's row, its sidecar, `artifacts.json` and the threads: the run with its automatic
retries (`AutoRetry`), the two optional stages side by side, a retry by hand that releases
the job and takes it again (`RetryRelock`), crash and start-up. An update of the sidecar is
a lock, a read and a write (`SideRead`); an update of the manifest an open, which
truncates, and a fill, from a copy read before (`Merge`). What a fetch leaves is a flag.
Known from the model and not claimed otherwise: the official stage fails when it reads
`artifacts.json` while the raw pack writes it; a restart during the stages leaves a PARTIAL
job without failed groups, which `retry_failed` refuses; an exception in a retry leaves the
row RUNNING; a retry does not bring the `f10` entry of the sidecar up to date; a retry
through the task centre overwrites the artifacts.

### RequestPackage, FinanceTables and BatchExport

`RequestPackage` is `resolve_request_package` as a predicate and a choice of rows.
`FinanceTables` computes the tables of a stock: eligible facts (`Candidates`), the choice
between revisions and sources, the annual and quarterly windows, standalone quarters as
differences, fields that do not apply to a bank, statuses and gaps. A fact is a date, a
key, a family, a day of availability and a small number; NaN is a value of its own, since
pandas makes it of None and `is not None` does not stop it. `BatchExport` names a table by
what it is computed from and has the files in the order in which they are written: the
fetch, the formal tables, the other tables, the manifest; then, of the batch, the formal
tables, the other tables, the ledgers (which `run_batch` writes too), the validation report
and the manifest (`WriteReducedFormal` to `WriteBatchManifest`). All but the request and the
checkpoint are rewritten in place, the old file is cut off first; tables of one kind are one
write. One process at a time works on the batch; it may be killed between any two writes or
within one, which leaves the file torn (`CutOff`, `CutShort`). A torn table may pass the
checks of a later reduction or end it. Each result is saved with all rows in memory, those
deferred among them (`Collect`). Between processes the task centre may publish another
version, and the two recovery commands may reset failed rows. The pool is `BatchRun`'s: here
stocks are processed in order.

Seen while modelling and not claimed otherwise: a row of a quarter has its `available_at`
before a derivation replaces its values; a conflicting debt is replaced by a proxy; a period
with only conflicts fails with EXPORT_AVAILABLE_AT_MISSING; `_retryable_text`
(`batch.py:233`) tests other words than the script; a FAILED_RETRYABLE row with the code of
an interrupted or deferred stock is refused by the recovery; `disclosure_dates` are missing
from the fingerprint; `request/` is rewritten before the fingerprint check raises. Left out:
the artifacts through which the recovery workflows pass a batch on, CSV formatting.

### CrossValidation and ResearchPack

A run of `CrossValidation` lists the reports published by now (`Discover`), chooses for each
date the version its cutoff admits (`Eligible`, `Supersedes`), downloads what its
directory lacks, parses what the cache lacks, compares row by row (`RowStatus`,
`LifecycleStatus`, with the reading of the facts as input), accepts (`Acceptance`), exports
and registers. What a PDF holds is a kind (full, suspect, zero, summary), what its facts
hold for a row is a reading. Directories outlive runs; days pass; Shanghai's PDFs are
written in place and may be torn by a kill, others are renamed. `ResearchPack` adds the pack
with its checkpoint, the stage caches, the reset when the fingerprint differs (`Opened`),
packaging, quality check and pointer; a research job of the API validates first and then
builds. What the mapper and the extractors find is a function of their inputs.

`FAIL_CLASSIFICATION_COVERAGE` is left out of `Acceptance`, since the registry gives every row
a mode (`registry.py:245`).

Known: a failed lookup of the listing date changes which dates are expected, hence
`StableRepeat` speaks of the dates both runs expect; a torn Shanghai PDF stays
(`sse.py:442`); `official_direct_facts.parquet` stays when a later run has no facts. One
worker at a time: two on one directory do mix their stages (`PackOfInputs` is refuted then).

### RawPack

The jobs of the API, each a thread, over one F10 version. `Collect` goes through the
sources in their turn, collector by collector (`Turn`), and records what `route_download_result` and
`match_entity` make of the answers; `OpenIndex` to `FillArtifacts` are the writes of
`export_raw_pack` and `_update_f10_artifacts`, each with a moment at which the file is torn.
A run is named by the second in which it begins (`RunId`), two in one second share a
directory. A restart forgets the jobs. Retries and rate limits of downloads are left out, so
are parsed texts, Excel, Parquet and DuckDB indexes, the CLI and the reading endpoints.
Known: a FAILED job may have published its pack; `latest.json` and `artifacts.json` may name
different packs; the collectors hand the stock's own code to `match_entity`, so its
documents are always EXACT_ID_MATCH. `PacksInOrder` is about the run's directory and
`latest.json`, not about `artifacts.json`.

### TaskState, RecoveryPolicy and Devflow

`TaskState` has the rules for a task's state, index and documents, closing (`finalize`) and
the events that main allows. `RecoveryPolicy` is `classify` as a list of rules, the first
that applies. `Devflow` has main commit by commit, the runs of the workflows Auto Recovery
listens to, the incident runs in the order of their dispatch with one running and one
pending per task (GitHub's concurrency group: a newer pending run replaces the older), the
issue with its markers and receipts, and the requests to Bark. The scripts and the steps of
the four workflows that call them (`.github/workflows/devflow-incident.yml`,
`devflow-auto-recovery.yml`, `devflow-terminal-state-notify.yml`,
`devflow-state-consistency.yml`) are translated; GitHub's queues and those who push are
external. A scan may die after any of its dispatches (`Scan`). The end of a run and the
workflow that listens to it are one step; Bark is asked on the first attempt of a run only.
Left out: the state of the issue, git ancestry, texts.

Known: the parent that the scan compares with is the first one, so a generation raised
within a push of several commits is missed; an escalation without a single open task
reaches nobody; when closing fails after the comment, a rerun finds it recorded and sends
nothing; `finalize_task` writes the state before the index.

## 3. What is checked

Every run is a cfg beside its module; sizes are distinct states where they were noted.

| Run | Shows | Bounds |
|---|---|---|
| `JM_concurrent` (1.3 M) | types, `ManagerExclusion`, `BusyIsExecuting`, `RestartRepairs` | 2 jobs of 1 stock, 2 server threads, 4 requests, 1 crash |
| `JM_liveness` | `EventuallyReleased`, `CancelTakesEffect` under `FairSpec` | 2 jobs of 1 stock, 2 server threads, 3 requests, no crash, 1 pool thread so that tasks queue |
| `FR_runs` | `PassMeansComplete`, `SavedSuccessKept`, `FailureHasCause` | 4 groups (page, source, fallback, dynamic), pool of 2, 2 attempts, 2 invocations, 1 kill |
| `JD_status` | `CompletedIsWhole`, `WorkEnds` | 4 groups (page, source, quote, dynamic), pool of 2, 2 retries, 1 kill |
| `VJ_stages` | `OneAtWork`, `StagesSettled`, `ManifestComplete` | 2 pool threads (symmetric), 1 automatic and 2 requested retries, 1 crash |
| `BR_crash` (174 k) | types, `SettledStays`, `ReportsNotAhead`, `ExitTruthful`, `ImplementsLedger`, `RunEnds` under `FairSpec` | 2 stocks, 1 worker, 2 attempts, 1 kill |
| `AB_jobs` (440 k) | `OneProcessPerLife`, `CompletedMeansDone`, `JobEnds` under `FairSpec` | 1 stock, 2 server threads, 2 processes, 1 restart |
| `RO_results` (217 k) | `GatesHeld`, `ReadyMeansAll`, `TwoAtATime`, `NeverStalls` | 4 batches, 2 runs of each, 1 result recorded again |
| `BX_export` | `SuccessIsExported`, `PassIsFinal`, `PointInTime` | 2 stocks (one a bank), 3 packages, 2 sets of facts, 3 commands, 1 new version, 1 crash between or within writes |
| `EV_pack` | `PassMeansCovered`, `StableRepeat`, `PackOfInputs` | 3 reports on 2 dates, 2 rows, 2 days, 2 jobs, 1 kill, 1 odd content |
| `RP_jobs` | `PacksInOrder`, `JobEnds` | 2 jobs, 6 sources, 3 documents, 2 seconds, 1 restart |
| `DV_notify` | types, `OneRequest`, `CompletionEarned`, `ReceiptTrue`, `FailureAnswered` | 2 tasks, 2 pushes, 2 workflow runs, 1 rerun |

Each module states its types as `TypeOK`. `JM_concurrent`, `BR_crash` and `DV_notify` have
it among their invariants, where it also bounds attempts and reruns; `JobManager`,
`BatchRun`, `Rollout`, `AscopeBatch`, `BatchExport`, `RawPack` and `Devflow` have it proved; in the others it
holds under the same cfg with `TypeOK` added.

Why the bounds are enough. `JobManager`: interference needs two threads with copies of
one row, or two jobs that compete for one stock; two jobs, two server threads and the pool
tasks give both, four requests allow create, create, promote and delete in one behaviour,
and one crash can hit every intermediate state. A second stock shares nothing with the
first but the pool. `FetchRun` and `JobData`: a group depends on others by the page group, by
its source and by the pool, and there is one of each kind; two of a kind would only repeat.
A kill and a second invocation put every torn file before every later pass. `VisualJobs`: a
run, a retry and the stages after it are all the threads a job can have; two retries let one
follow another. The row that `get` and `list_groups` save as they have read it
(`jobs.py:703`) is in `JobManager` only. `BatchRun`: stocks interact only through the saved
copy of all rows and through the verdict, so two show every stale copy and every mix of two outcomes, and
with one worker the second has to queue; attempts never exceed two in the code
(`batch.py:453`). After the kill the batch may be resumed any number of times, with and
without force. What more workers, stocks or kills would add is covered by the proofs,
which have no bounds. `AscopeBatch`: two requests against the job's thread, and a second
process for the resume; the outcome of one stock is enough to see it lost. `Rollout`: the
first batch, two that run and one that has to wait; two runs allow each batch to fail and
be started again, and the repeated result may be any of those recorded. `BatchExport`: three
commands are a run, a recovery or reduction, and a resume; a bank and an industrial stock, a
revision after the cutoff, a conflict, a missing quarter and a broken package are the cases
the code tells apart. One kill under an old manifest that passes is enough to tear what
`PassIsFinal` says of it. One attempt and one crash: `EvidenceIsFresh` and `OneSource`, which fail
with two, are in section 4. `CrossValidation`: a corrected report that appears on the day
after the first run is the shortest way to two answers; a run, a repeat and the kill of
either. `RawPack`: two runs of one stock at once or one after the other, in one second or in
two; a source of each collector that is enabled by default, two that share a page.
`Devflow`: two tasks to see one disturb the other, two commits to raise and take back a
completion, a rerun and a second run to see an event twice.

Every `Max...` constant that is not an option of the program (`MaxAttempts`, `MaxDocs`,
`MaxAuto`) only makes a state space finite. `CHECK_DEADLOCK FALSE` is set where everything is
done, with the bounds used up.

Fairness. `JobManager`: every thread that is at work keeps running, because network calls
and SQLite waits have timeouts; a queued task starts eventually, strongly fair, because the
pool's queue is FIFO; the start-up repair runs to its end. No fairness for requests,
crashes, or the end of a *particular* branch. `JobData` and `RawPack`: the threads of a
service that is not killed. `BatchRun`: the main thread and each worker
keep running, and each processor call returns. The last is an assumption: requests have
timeouts, the fetch of a stock is a subprocess that is waited for without one
(`production_processor.py:351`, `batch.py:302`). `JM_liveness` has no crash, since a crash ends
what is promised; its requests are fewer to keep the graph small. `AscopeBatch`: the
thread, accepted requests and the processes; that a process ends is `RunEnds`. `Devflow`: a
run that was started completes, since GitHub ends every run after a time limit; nothing is
assumed of pushes, dispatches or Bark.

## 4. Where the code does not do what its documents say

These properties are defined in the modules and are in no cfg: each was refuted by TLC
when it took the place of the properties of the run named (with the constants in brackets
changed).

* `JobManager`, `JM_concurrent`: `OneCurrent`: two promotions of one stock can leave two
  CURRENT jobs, since `_set_current_pointer` saves the whole row again after its transaction
  (`api/jobs.py:592`); `docs/task-center.md:34` speaks of the one current version.
  `PointerNamesAJob`: a deletion racing a promotion leaves `latest.json` naming a job that is
  gone (`api/jobs.py:969`). `DeletedStaysDeleted`: `get` and `list_groups` can insert a
  deleted row again (`api/jobs.py:703`; `docs/task-center.md:40`). `CancelReachesExecuting`: a
  retry cannot be cancelled although the page offers it. `DeleteExcluded` (two managers): one
  deletes a job that the other is executing (`api/jobs.py:965`; `docs/task-center.md:46`).
  `RestartRepairsAll` (2 stocks): a kill between the deletion of the rows of the last job of a
  stock and the fallback leaves its `latest.json`, which no start-up removes
  (`api/jobs.py:982`, `jobs_v2.py:265`; `docs/task-center.md:36` has it deleted).
* `BatchRun`, `BR_crash`: `AttemptsBounded`: a kill forgets attempts (`batch.py:358`;
  `docs/implementation/ascope-f10-export-bridge-v1/W04_plan.md:18`, "Give each stock at most
  two total attempts"); what does hold is `AttemptsPerCrash`, proved below.
* `AscopeBatch`, `AB_jobs`: `CancelHonoured`: a cancel during the start of the process is
  overwritten (`ascope_batches.py:259`); the job ends FAILED_TERMINAL and cannot be resumed
  (`tests/test_ascope_f10_api.py:130` asserts CANCELLED). `OutcomesKept` over a restart of the
  service: the process left behind and the resumed one overwrite each other's outcomes
  (`W07_plan.md:27`); within one life of the service they are kept (`OutcomesKeptInLife`).
  `EndIsShown`: between the last write of the job's thread and its removal from `_threads`
  (`ascope_batches.py:300` to 318) the thread still counts as running, so a resume there
  writes PENDING and starts nothing (line 213), and a cancel that has read the status before
  writes CANCEL_REQUESTED; nothing works on the job then, and nothing changes its status before
  the service starts again, while `resume` takes neither status. `JobEnds`, which holds, says
  only that the thread ends.
* `Rollout`, `RO_results`: `NothingBeyondTwo`: with two batches at work the plan still names a
  third (`rollout.py:225`), which `mark_running` refuses, hence `TwoAtATime`;
  `tests/test_ascope_f10_rollout.py:164` expects an empty plan, with no batch left to plan.
* `FetchRun`, `FR_runs`: `DynamicFollowsSource`: a dynamic group whose source failed in the
  first pass is an empty success that no later pass repeats (`fetch/pipeline.py:274`), against
  "only processes missing groups" (`docs/operations.md:17`).
* `JobData`, `JD_status`: `CompletedMeansWhole`: after a cancel, or a retry of a group that
  fails now and had succeeded before, COMPLETED covers a combined.json with a failure
  (`jobs_v2.py:167`; `docs/task-center.md:11`: all groups succeeded).
* `VisualJobs`, `VJ_stages`: `OwnKeysKept`: the registration of one stage undoes the other's.
* `CrossValidation`, `EV_pack`: `NoFutureFacts`: a cached PDF is chosen by code and date, not
  by its version, so a later cutoff's correction is used for an earlier one
  (`cross_validation/runner.py:239`; `docs/plans/f10-research-mapping-evidence-pack-v1/`
  `04_acceptance_matrix.md:89`). In `ResearchPack`: `PackWithinCutoff` for the same reason;
  `PackUsesItsValidation`, as the facts of the default directory are preferred
  (`research_pack/runner.py:128`); `PointerMatchesPack`, since a pack that is reset stays
  published meanwhile.
* `BatchExport`, `BX_export`: `MissingHasGap`: a quarter derived from NaN has neither value
  nor gap (`finance.py:529`; `00_contract.md:58`). `OneSource` (1 stock, 2 crashes, 3 new
  versions): after a crash between tables and manifest the old manifest still matches, and
  a cache hit covers files of two versions. `PassTablesWhole`: a second `run-batch` (which
  reduces by default, `cli.py:125`) or a `reduce-batch` writes the tables and ledgers again in
  place under a `batch_manifest.json` that says PASS; a kill there leaves them cut off or mixed
  under it (`reducer.py:368`), against "Completed batches are immutable inputs to the
  full-market reducer" (`01_master_plan.md:68`), and the full reduction reads them without
  comparing their digests (`rollout.py:517`). Two commands and one kill suffice; what is left of
  the promise is `PassIsFinal`. `EvidenceIsFresh` (2 attempts): a recovery judges
  the last failure by the `combined.json` of an earlier one.
* `RawPack`, `RP_jobs`: `NoMatchIsAnswer`: a list of reports that could not be had is recorded
  as NO_MATCH (`sse_disclosure.py:165`; `docs/raw-pack.md:44`). `EverySourceAnswered` (6
  documents): a company source whose page another one has leaves no record
  (`raw_sources/runner.py:97`).
* `Devflow`, `DV_notify`: `SecurityReported` (3 runs, no rerun): a security block that waits
  is replaced by a newer incident of its task; `FailureAnswered`, which holds, says that a
  rerun or a notification was dispatched. Nor has every notification a receipt
  (`docs/process/policies/notification-policy.md:145`): the job may die before its outputs.

## 5. What is proved

For every value of the constants, from the named assumptions (`JobManagerAssumption`,
`BatchRunAssumption`, `RolloutAssumption`, `AscopeBatchAssumption`,
`VisualAssumption`), which say no more than that thread names are
distinct, numbers are numbers, every job has a stock and a package has a batch.

`TaskCentreProofs`, the task centre: `TypeInvariant`, `ExclusionHolds` (`ManagerExclusion`),
`BusyHolds` (`BusyIsExecuting`) and `RepairHolds` (`RestartRepairs`). The first two are not inductive.
Exclusion needs to know that a thread past the lock has its job in the active set of its
manager, that a job has one pool task per manager, and that a job whose creation is not yet
submitted is in no active set; busy rows need, in addition, that a thread that will write a
busy status is itself the one executing the job, and that a thread that has read a state to
write back has not read a busy one. The repair is an action property: `Homes` says that no
call, in any interleaving before the crash, makes a job current for another stock than its
own; `Mending`, that while the repair runs nobody else moves, that a stock is still to be
looked at, settled or being looked at, and how far the repair of the latter has come. There
is one lemma per action group for each strengthened invariant.

`BatchRunProofs`: `TypeInvariant`, `ReportsHold`, `ExitHolds`, `AttemptsHold`,
`SettledHolds`, and `Implements` (`BatchRun` implements `BatchLedger`). The inductive
invariant `IInv` says how the copies of a row relate: a settled stock is the same in the
checkpoint and in memory and has no future (`SettledAlike`); a stock is waiting, claimed or
dealt with, never two of these (`Stages`); what has been written at each point of the end
(`Ending`); and that the attempts made do not exceed those recorded plus those lost in
crashes (`Counted`). The refinement maps each action to one of the ledger's operations or
to a stutter.

`AscopeProofs`, the rollout: `RolloutTypes`, `GatesHold`, `ReadyHolds`, `TwoHolds` and
`NeverStallsHolds`. `GatesHeld` is not inductive, because a result that arrives, or comes
again, changes the phase whatever it was. The invariant `Gates` therefore says which
results can still come in which phase: none before the smoke run (`Start`), a smoke run
only while it is on (`Smoke`), one run and one outcome of the first batch (`First`), and
other batches only after that (`Later`). With every result recorded once, `Once` adds that
the active batches are the runs in flight (`Flights`) and that something is left to do in
the phases that plan (`Left`); that the plan is then not empty needs a first batch in
every nonempty set of them (`FirstBatch`).

`AscopeProofs`, the service: `TypeInvariant`, `OneProcess` (`OneProcessPerLife`), `CompletedHolds`
(`CompletedMeansDone`) and `OutcomesStay` (`OutcomesKeptInLife`). A thread is started only
when there is none, but that alone does not exclude two processes: the invariant `Own` says
that a live process of the present life is the one its thread waits for, so that the next
start finds it exited. Before the first restart it is then the only one (`Alone`), its rows
are the checkpoint (`Same`), and what its exit code says of the rows is true of the
checkpoint and stays so (`Earned`); no request carries COMPLETED (`Asking`). After a restart
an older process may still write, which is why both claims end there (section 4).

`VisualJobsProofs`: `OneAtWorkHolds` (`OneAtWork`), `StagesHold` (`StagesSettled`) and
`ManifestHolds` (`ManifestComplete`). A retry releases the job and takes it again; `Claim`
says that whoever is between taking and releasing is alone there and that the job is active
all that time, so the second claim succeeds only when nobody is. The other two need the
whole of `Good`: which updates of the sidecar may be under way, from the job's thread or from
a stage (`Wants`), each from the sidecar as it is (`Locking`); that a stage which is collected
shows its end or has it on its way (`Workers`); that files are recorded before the last
thread leaves (`Recorded`); and that no stage completes while groups are failing
(`NoneYet`), so that a repeated run finds nothing it could lose.

`DevflowProofs`: `TypeHolds` (`TypeOK`), `OneRequestHolds` (`OneRequest`),
`CompletionEarnedHolds` (`CompletionEarned`) and `ReceiptTrueHolds` (`ReceiptTrue`), from
`DevflowAssumption` and `TreesAssumption` (what main holds at first is well formed, there is a
branch main, and State Consistency is one of the workflows). At most one run of a task holds
the slot and at most one waits (`Serial`), through dispatches, cancellations and reruns; so
the run that comments still finds the issue as it was when it started, and the run that
asks Bark knows its marker is on the issue and nobody has asked for it (`Knows`). Every
request and receipt belongs to a marker on the issue (`Asked`). That every completion in a
queue or on an issue was earned (`Earned`) survives because runs that passed and commits
are never taken back (`Grows`). Types include that `classify` says RETRY only below the
budget (`RetryWithin`), for which the first of its rules that applies has to be found.

`RawPackProofs`: `TypeHolds` (`TypeOK`) and `PacksHold` (`PacksInOrder`), from
`RawPackAssumption`, `AnswersAssumption` and `ManifestAssumption`; the last says that the
ids of the sources are distinct and that sites and entrances have an address, as in
`resources/raw_source_manifest.json`. While no two runs begin in one second a run belongs to
one job (`Alone`). What the job keeps as saved has its file: files lie under the id of their
source, and what is kept comes from sources that had their turn earlier (`Works`), so a
source overwrites nothing that is kept (`CollectedLies`). Index, check and pointer follow one
another, so the directory that the pointer names is written no more (`Advanced`).

`BatchExportProofs`: `TypeHolds` (`TypeOK`), `SuccessHolds` (`SuccessIsExported`), `PassHolds`
(`PassIsFinal`) and `PointInTimeHolds` (`PointInTime`), from `BatchExportAssumption`: stocks
are rows of a file, so there are finitely many, and every fact has a day, 0 when unknown.
The files of a stock are rewritten in place, so a success is safe only because nothing works
on it again: a task is of a stock that the checkpoint calls FETCHING (`Working`), what is
still to be submitted or was deferred has not succeeded (`Listed`), and neither loading a
checkpoint nor a recovery touches a success. What a task reports it has written or found
(`Written`, `Earned`), for the package of the checkpoint, which is fixed before the first row
changes (`Opened`). A reduction reads and writes while no row and no export can change, so
what it has written so far is what the exports have (`Reducing`); so each of its writes keeps
what lies under a manifest that passes (`Lasting`), a kill may tear what it was writing but
takes nothing else, and a torn table is whole again after the next write. `PointInTime` then
needs that whole tables are those of a valid package and facts (`Computed`), and that
the rows depend on the facts through `Candidates` alone (`CandidatesAsOf`, `TablesAsOf`).

Four lemmas carry the inductive step: a task with its own files (`TaskStep`), rows, process
and tasks while the files stay (`BatchStep`), a write of files of the batch (`ReductionStep`,
with one lemma for each of the writes), the kill (`CrashStep`, with what it leaves in
`CutOffTyped` and `CutShortTyped`).

`TaskCentreProofs`, the fetch: `FetchTypes`, `CompleteHolds` (`PassMeansComplete`),
`SuccessKept` (`SavedSuccessKept`) and `CauseHolds` (`FailureHasCause`) of `FetchRun`;
`DataTypes` and `CompletedHolds` (`CompletedIsWhole`) of `JobData`. Both rest on the shape of a
pass that nobody cancels (`PassGood`): a group is at work only in its stage and has no result
then; what has a result is in its file as it is in memory; a stage is left only when all its
groups have one. So a group with a result is never saved again, and what is combined is
what the files hold. Around it, `FetchGood` says that a pass which was not forced has loaded
every saved success, and that each failed result had its cause (`Cause`), which lasts: a torn
file of the raw cache stays torn. For a job, `_best_saved_groups` may prefer a copy that is
older than the group file; `PlainGood` says that such a copy is a success only if the file is
(`FilesAhead`), since only groups without any success are retried, so that the synchronised
rows are those of the files (`SyncedRows`). Assumptions: `FetchAssumption` (the groups are
finitely many and of one kind each, at least one worker), `RunAssumption`, `JobAssumption`.

`ResearchPackProofs`: `TypeHolds` (`TypeOK`), `PassHolds` (`PassMeansCovered`), `StableHolds`
(`StableRepeat`) and `PackHolds` (`PackOfInputs`), from `ValidationAssumption`. PASS follows from
the comparison itself: every status a row can get is a match, a conflict, a gap or outside
what an official report should confirm, and PASS is given only when none of the second and
third is there (`PassCovers`). `StableRepeat` rests on what never changes: a PDF that is kept,
the kind of its content and the document it was parsed as (`Stays`), so that the documents of a
run determine its facts (`FactsSame`); and on the choice of documents, which depends on the
cutoff alone once its day has come (`KnownDocs`). For `PackOfInputs`, `PackInOrder` says at each
point of a pack what its checkpoint, caches and tables were made of; a stage's name enters the
checkpoint after its result, so what is resumed was made of the same inputs
(`CacheInOrder`). The last two theorems assume `OneAtATime`, that there is one worker: two in
one directory mix their stages, and a run that lists early may end late. The run has one
worker as well. Types and `PassHolds` are for any number of workers.

Only model-checked: everything about liveness (`EventuallyReleased`, `CancelTakesEffect`,
`RunEnds`, `WorkEnds`, `FailureAnswered` and both `JobEnds`), since the prover does not handle
fairness. What a recursive definition computes for every input is beyond the prover as well.

## 6. Plan

1. The shared temporary files of `latest.json` and `job.json`.
2. `StableRepeat` and `PackOfInputs` for several workers, as far as they hold there.
3. TTM selection against a reference definition.

## 7. Not modelled, and why

Conversions of data without state of their own: normalisation, evidence graph, Excel and
other exports, search, formulas and TTM, web pages. The legacy official validation
(`validation/runner.py`, `reconcile`, `sources/cninfo.py`): superseded by cross-validation and
reached from the command line only; what it shares with it, the PDF parser's choice of a
statement and unit, is in `CrossValidation` as kinds and readings. The grammar of the PDF
parser and of the research extractors: text recognition, whose outcomes are inputs of the
models. Devflow's gates and validators (Codex eligibility, workflow, channel and descriptor
checks): pure checks of texts. Requests to external sites: only that they answer or fail.
Start-up import of legacy directories: one-time.
