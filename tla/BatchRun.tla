------------------------------- MODULE BatchRun -------------------------------
(***************************************************************************)
(* run_batch of ascope_bridge/batch.py and the process "run-batch" that    *)
(* calls it.  A batch is a fixed list of stocks.  The main thread claims   *)
(* them, a pool of at most two workers processes each with a bounded       *)
(* number of attempts, and every transition is saved in checkpoint.json,   *)
(* from which a later process resumes after a partial result or a crash.   *)
(*                                                                         *)
(* A checkpoint is replaced atomically (_atomic_json), so each save is one *)
(* step.  Processing a stock (the processor) is external: it ends with one *)
(* of the outcomes the code accepts, or raises.  The batch's input does    *)
(* not change between runs, so the fingerprint checks of _load_checkpoint  *)
(* pass.  One process at a time runs the batch.                            *)
(***************************************************************************)
EXTENDS Naturals, FiniteSets

CONSTANTS
  Stocks,       \* securities of the batch
  Workers,      \* max_stock_workers
  MaxAttempts,  \* max_attempts
  MaxCrashes    \* bound: processes killed in a behaviour

ASSUME BatchRunAssumption ==
  /\ Workers \in Nat \ {0}
  /\ MaxAttempts \in Nat \ {0}
  /\ MaxCrashes \in Nat

TERMINAL_SUCCESS == {"COMPLETED", "COMPLETED_WITH_GAPS"}
TERMINAL_FAILURE == {"FAILED_TERMINAL", "BLOCKED"}
Settled   == TERMINAL_SUCCESS \cup TERMINAL_FAILURE
RESUMABLE == {"PENDING", "FAILED_RETRYABLE", "DEFERRED_TIME_BUDGET", "FETCHING"}
Verdicts  == {"PASS", "PASS_WITH_GAPS", "FAILED_TERMINAL", "FAILED_RECOVERABLE"}

\* The row of a stock, in the checkpoint or in memory.
Rows == [status : Settled \cup RESUMABLE, attempts : 0..MaxAttempts]
Row(status, attempts) == [status |-> status, attempts |-> attempts]
Fresh == [s \in Stocks |-> Row("PENDING", 0)]  \* _initial_state

\* A stock's future: waiting for a worker, being processed, between two
\* attempts, or done; and the worker's copy of the row.
Tasks == [pc : {"none", "queued", "calling", "between", "done"}, row : Rows]
NoTask == [pc |-> "none", row |-> Row("PENDING", 0)]

VARIABLES
  checkpoint,  \* checkpoint.json: "NONE" when there is no file
  reports,     \* the ledgers (CSV) and batch_run_result.json, as last written
  run,         \* the main thread: its copy of the rows, the stocks to claim, the deadline
  task,        \* the future of each stock and its copy of the row
  exit,        \* exit code of the last process
  calls,       \* history: processor calls made for each stock
  crashes      \* processes killed so far (bound)

vars == <<checkpoint, reports, run, task, exit, calls, crashes>>

TypeOK ==
  /\ checkpoint \in [status : Verdicts \cup {"NONE", "RUNNING"}, stocks : [Stocks -> Rows]]
  /\ reports \in [ledger : [Stocks -> Rows], result : [Stocks -> Rows]]
  /\ run \in [pc : {"off", "work", "save", "result", "exit"}, stocks : [Stocks -> Rows],
              todo : SUBSET Stocks, expired : BOOLEAN]
  /\ task \in [Stocks -> Tasks]
  /\ exit \in {"none", "ok", "failed", "partial", "killed"}
  /\ calls \in [Stocks -> Nat]
  /\ crashes \in Nat

Off == [pc |-> "off", stocks |-> Fresh, todo |-> {}, expired |-> FALSE]

Init ==
  /\ checkpoint = [status |-> "NONE", stocks |-> Fresh]
  /\ reports = [ledger |-> Fresh, result |-> Fresh]
  /\ run = Off
  /\ task = [s \in Stocks |-> NoTask]
  /\ exit = "none"
  /\ calls = [s \in Stocks |-> 0]
  /\ crashes = 0

----------------------------------------------------------------------------
(* The main thread.                                                        *)

Put(s, pc, row) == task' = [task EXCEPT ![s] = [pc |-> pc, row |-> row]]

\* (Variant: a forced retry also takes up what failed for good.)
LoadedForceAll(row, force) ==
  LET status == IF row.status = "FETCHING" THEN "FAILED_RETRYABLE" ELSE row.status IN
  IF force /\ status \notin TERMINAL_SUCCESS
  THEN [row EXCEPT !.status = "PENDING"] ELSE [row EXCEPT !.status = status]

\* _load_checkpoint and force_retry, for one row.
Loaded(row, force) ==
  LET status == IF row.status = "FETCHING" THEN "FAILED_RETRYABLE" ELSE row.status IN
  IF force /\ status \in {"FAILED_RETRYABLE", "DEFERRED_TIME_BUDGET"}
  THEN [row EXCEPT !.status = "PENDING"] ELSE [row EXCEPT !.status = status]

\* (Variant: whatever is not a plain success is done again.)
ClaimableGaps(row) == row.status # "COMPLETED"

Claimable(row) == row.status \in RESUMABLE

\* A process is started; the checkpoint is read, or made, and saved as RUNNING.
Start(force) ==
  LET rows == [s \in Stocks |-> Loaded(checkpoint.stocks[s], force)] IN
  /\ run.pc = "off"
  /\ checkpoint' = [status |-> "RUNNING", stocks |-> rows]
  /\ run' = [pc |-> "work", stocks |-> rows, expired |-> FALSE,
             todo |-> {s \in Stocks : Claimable(rows[s])}]
  /\ exit' = "none"
  /\ UNCHANGED <<reports, task, calls, crashes>>

\* The soft deadline passes.
Expire ==
  /\ run.pc = "work" /\ ~run.expired
  /\ run' = [run EXCEPT !.expired = TRUE]
  /\ UNCHANGED <<checkpoint, reports, task, exit, calls, crashes>>

\* A stock is submitted, or after the deadline deferred (in memory only).
Submit(s) ==
  LET status == IF run.expired THEN "DEFERRED_TIME_BUDGET" ELSE "FETCHING"
      rows == [run.stocks EXCEPT ![s] = Row(status, run.stocks[s].attempts)] IN
  /\ run.pc = "work" /\ s \in run.todo
  /\ run' = [run EXCEPT !.stocks = rows, !.todo = @ \ {s}]
  /\ IF run.expired THEN UNCHANGED <<checkpoint, task>>
     ELSE checkpoint' = [checkpoint EXCEPT !.stocks = rows] /\ Put(s, "queued", rows[s])
  /\ UNCHANGED <<reports, exit, calls, crashes>>

\* (Variant: the result is kept in memory until the batch ends.)
CollectUnsaved(s) ==
  /\ run.pc = "work" /\ run.todo = {}
  /\ task[s].pc = "done"
  /\ run' = [run EXCEPT !.stocks[s] = task[s].row]
  /\ task' = [task EXCEPT ![s] = NoTask]
  /\ UNCHANGED <<checkpoint, reports, exit, calls, crashes>>

\* (Variant: the future is not removed from the map.)
CollectUnpopped(s) ==
  /\ run.pc = "work" /\ run.todo = {}
  /\ task[s].pc = "done"
  /\ run' = [run EXCEPT !.stocks[s] = task[s].row]
  /\ checkpoint' = [checkpoint EXCEPT !.stocks = run'.stocks]
  /\ UNCHANGED <<task, reports, exit, calls, crashes>>

\* When all are submitted, the results are taken as they come and saved.
Collect(s) ==
  /\ run.pc = "work" /\ run.todo = {}
  /\ task[s].pc = "done"
  /\ run' = [run EXCEPT !.stocks[s] = task[s].row]
  /\ checkpoint' = [checkpoint EXCEPT !.stocks = run'.stocks]
  /\ task' = [task EXCEPT ![s] = NoTask]
  /\ UNCHANGED <<reports, exit, calls, crashes>>

\* (Variant: gaps are looked at before failures.)
BatchStatusGapsFirst(rows) ==
  LET seen == {rows[s].status : s \in Stocks} IN
  IF seen \subseteq {"COMPLETED"} THEN "PASS"
  ELSE IF seen \cap {"COMPLETED_WITH_GAPS"} # {} THEN "PASS_WITH_GAPS"
  ELSE IF seen \cap TERMINAL_FAILURE # {} THEN "FAILED_TERMINAL"
  ELSE "FAILED_RECOVERABLE"

\* _batch_status
BatchStatus(rows) ==
  LET seen == {rows[s].status : s \in Stocks} IN
  IF seen \subseteq {"COMPLETED"} THEN "PASS"
  ELSE IF seen \subseteq TERMINAL_SUCCESS THEN "PASS_WITH_GAPS"
  ELSE IF seen \cap TERMINAL_FAILURE # {} THEN "FAILED_TERMINAL"
  ELSE "FAILED_RECOVERABLE"

\* All done: the ledgers are written ...
WriteLedgers ==
  /\ run.pc = "work" /\ run.todo = {}
  /\ \A s \in Stocks : task[s].pc = "none"
  /\ reports' = [reports EXCEPT !.ledger = run.stocks]
  /\ run' = [run EXCEPT !.pc = "save"]
  /\ UNCHANGED <<checkpoint, task, exit, calls, crashes>>

\* ... then the checkpoint with the verdict ...
SaveVerdict ==
  /\ run.pc = "save"
  /\ checkpoint' = [status |-> BatchStatus(run.stocks), stocks |-> run.stocks]
  /\ run' = [run EXCEPT !.pc = "result"]
  /\ UNCHANGED <<reports, task, exit, calls, crashes>>

\* ... then batch_run_result.json.
WriteResult ==
  /\ run.pc = "result"
  /\ reports' = [reports EXCEPT !.result = run.stocks]
  /\ run' = [run EXCEPT !.pc = "exit"]
  /\ UNCHANGED <<checkpoint, task, exit, calls, crashes>>

\* The process ends: the verdict decides the code, unless reduce_batch raises.
Exit ==
  /\ run.pc = "exit"
  /\ exit' \in {"failed",
                IF checkpoint.status = "FAILED_TERMINAL" THEN "failed"
                ELSE IF checkpoint.status = "FAILED_RECOVERABLE" THEN "partial" ELSE "ok"}
  /\ run' = Off
  /\ UNCHANGED <<checkpoint, reports, task, calls, crashes>>

\* The process is killed at any point; its threads are gone.
Crash ==
  /\ run.pc # "off" /\ crashes < MaxCrashes
  /\ crashes' = crashes + 1
  /\ run' = Off
  /\ task' = [s \in Stocks |-> NoTask]
  /\ exit' = "killed"
  /\ UNCHANGED <<checkpoint, reports, calls>>

----------------------------------------------------------------------------
(* _process_with_attempts, on a pool thread.                               *)

End(s, status) == Put(s, "done", Row(status, task[s].row.attempts))

Busy == {s \in Stocks : task[s].pc \in {"calling", "between"}}

\* (Variant: one attempt too many.)
ExhaustedLate(s) == task[s].row.attempts > MaxAttempts

Exhausted(s) == task[s].row.attempts >= MaxAttempts

\* The top of the loop over the attempts left.
Attempt(s) ==
  /\ \/ task[s].pc = "queued" /\ Cardinality(Busy) < Workers
     \/ task[s].pc = "between"
  /\ \/ /\ Exhausted(s)
        /\ End(s, "FAILED_RETRYABLE")
        /\ UNCHANGED calls
     \/ /\ ~Exhausted(s) /\ run.expired
        /\ End(s, "DEFERRED_TIME_BUDGET")
        /\ UNCHANGED calls
     \/ /\ ~Exhausted(s) /\ ~run.expired
        /\ Put(s, "calling", Row(task[s].row.status, task[s].row.attempts + 1))
        /\ calls' = [calls EXCEPT ![s] = @ + 1]
  /\ UNCHANGED <<checkpoint, reports, run, exit, crashes>>

\* The processor returns a final status, or raises an error that is not retryable.
Returned(s) ==
  /\ task[s].pc = "calling"
  /\ \E status \in Settled : End(s, status)
  /\ UNCHANGED <<checkpoint, reports, run, exit, calls, crashes>>

\* It reports, or raises, a retryable failure.
Retryable(s) ==
  /\ task[s].pc = "calling"
  /\ Put(s, "between", Row("FAILED_RETRYABLE", task[s].row.attempts))
  /\ UNCHANGED <<checkpoint, reports, run, exit, calls, crashes>>

----------------------------------------------------------------------------
Main == (\E s \in Stocks : Submit(s) \/ Collect(s)) \/ WriteLedgers \/ SaveVerdict
          \/ WriteResult \/ Exit

Worker(s) == Attempt(s) \/ Returned(s) \/ Retryable(s)

Next ==
  \/ \E force \in BOOLEAN : Start(force)
  \/ Main \/ Expire \/ Crash
  \/ \E s \in Stocks : Worker(s)

Spec == Init /\ [][Next]_vars

\* The main thread keeps running, and every processor call returns.  The latter is an
\* assumption: requests have timeouts, but the fetch is a subprocess that is waited for
\* without one (production_processor.py:351, batch.py:302).
FairSpec == Spec /\ WF_vars(Main) /\ \A s \in Stocks : WF_vars(Worker(s))

----------------------------------------------------------------------------
(* Properties *)

\* No loss and no replay: an outcome once in the checkpoint stays, over crashes
\* and resumed runs, and the processor is not called again for that stock.
SettledStays ==
  [][\A s \in Stocks : checkpoint.stocks[s].status \in Settled =>
       /\ checkpoint'.stocks[s] = checkpoint.stocks[s]
       /\ calls'[s] = calls[s]]_vars

\* The ledgers are written before and the result after the last checkpoint, and
\* a process may die between: neither ever reports an outcome that the
\* checkpoint does not have.
ReportsNotAhead ==
  \A s \in Stocks : \A row \in {reports.ledger[s], reports.result[s]} :
    row.status \in Settled => checkpoint.stocks[s] = row

\* The exit code tells the truth about the files: no stock is left claimed or
\* unclaimed, the reports match the checkpoint, and "partial" means that a
\* resume has something to do and nothing has failed for good.
ExitTruthful ==
  exit \in {"ok", "partial"} =>
    LET seen == {checkpoint.stocks[s].status : s \in Stocks} IN
    /\ seen \cap {"PENDING", "FETCHING"} = {}
    /\ reports.ledger = checkpoint.stocks
    /\ reports.result = checkpoint.stocks
    /\ exit = "ok" => seen \subseteq TERMINAL_SUCCESS
    /\ exit = "partial" => seen \cap TERMINAL_FAILURE = {} /\ seen \cap RESUMABLE # {}

\* Attempts are only recorded with the result, so a killed process forgets
\* those it made; but no more than that is ever made.
AttemptsPerCrash ==
  \A s \in Stocks : calls[s] <= MaxAttempts * (crashes + 1)

\* "Give each stock at most two total attempts."
AttemptsBounded == \A s \in Stocks : calls[s] <= MaxAttempts

\* A run that is not killed comes to an end.
RunEnds == run.pc # "off" ~> run.pc = "off"

\* What the checkpoint shows is a resumable batch.
Ledger == INSTANCE BatchLedger WITH
  outcome <- [s \in Stocks |-> IF checkpoint.stocks[s].status \in Settled
                               THEN checkpoint.stocks[s].status ELSE "open"],
  verdict <- IF checkpoint.status \in Verdicts THEN checkpoint.status ELSE "none"
ImplementsLedger == Ledger!LedgerSpec
=============================================================================
