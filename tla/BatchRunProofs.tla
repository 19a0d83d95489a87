---------------------------- MODULE BatchRunProofs ----------------------------
(* The safety properties of BatchRun, and that it implements BatchLedger.  *)
EXTENDS BatchRun, TLAPS

USE BatchRunAssumption

----------------------------------------------------------------------------
(* The inductive invariant: how the copies of a row - in the checkpoint, in *)
(* the memory of the main thread, in a future, in the reports - relate.    *)

Saved(s) == checkpoint.stocks[s]

\* A stock that is settled in the checkpoint or in memory is so in both, and
\* nobody works on it.
SettledAlike ==
  \A s \in Stocks :
    /\ Saved(s).status \in Settled => task[s].pc = "none" /\ s \notin run.todo
    /\ run.pc # "off" /\ (Saved(s).status \in Settled \/ run.stocks[s].status \in Settled)
         => run.stocks[s] = Saved(s)

\* A stock is to be claimed, or claimed, or dealt with.
Stages ==
  /\ run.pc # "work" => run.todo = {} /\ \A s \in Stocks : task[s].pc = "none"
  /\ \A s \in Stocks :
       /\ task[s].pc # "none" => s \notin run.todo
       /\ task[s].pc \in {"done", "between"} => task[s].row.status \notin {"PENDING", "FETCHING"}
       /\ run.pc # "off" /\ s \notin run.todo /\ task[s].pc = "none"
            => run.stocks[s].status \notin {"PENDING", "FETCHING"}

\* What has been written when the batch ends.
Ending ==
  /\ run.pc \in {"work", "save"} => checkpoint.status = "RUNNING"
  /\ run.pc \in {"save", "result", "exit"} => reports.ledger = run.stocks
  /\ run.pc \in {"result", "exit"} =>
       checkpoint.stocks = run.stocks /\ checkpoint.status = BatchStatus(run.stocks)
  /\ run.pc = "exit" => reports.result = run.stocks
  /\ run.pc # "off" => exit = "none"

\* Attempts on record for a stock, in its future or in the checkpoint.
Recorded(s) == IF task[s].pc = "none" THEN Saved(s).attempts ELSE task[s].row.attempts

Counted ==
  \A s \in Stocks :
    /\ run.pc # "off" => run.stocks[s].attempts = Saved(s).attempts
    /\ calls[s] <= MaxAttempts * crashes + Recorded(s)

IInv == TypeOK /\ SettledAlike /\ Stages /\ Ending /\ ReportsNotAhead /\ ExitTruthful /\ Counted

----------------------------------------------------------------------------
(* Typing.                                                                 *)

\* Loading a row gives a row.
LEMMA LoadedType ==
  ASSUME NEW row \in Rows, NEW force \in BOOLEAN
  PROVE  /\ Loaded(row, force) \in Rows
         /\ Loaded(row, force).attempts = row.attempts
         /\ row.status \in Settled => Loaded(row, force) = row
         /\ Loaded(row, force).status \in Settled => Loaded(row, force) = row
         /\ Loaded(row, force).status # "FETCHING"
  BY DEF Loaded, Rows, RESUMABLE, Settled, TERMINAL_SUCCESS, TERMINAL_FAILURE

\* The states before any run are typed.
LEMMA FreshType == Fresh \in [Stocks -> Rows] /\ NoTask \in Tasks /\ NoTask.pc = "none"
  BY DEF Fresh, Row, Rows, RESUMABLE, NoTask, Tasks

\* A verdict is one of four.
LEMMA BatchStatusType == \A rows : BatchStatus(rows) \in Verdicts
  BY DEF BatchStatus, Verdicts

\* Putting a row into a future.
LEMMA PutType ==
  ASSUME TypeOK, NEW s \in Stocks, NEW row \in Rows,
         NEW pc \in {"none", "queued", "calling", "between", "done"}, Put(s, pc, row)
  PROVE  /\ task' \in [Stocks -> Tasks]
         /\ task'[s].pc = pc /\ task'[s].row = row
         /\ \A r \in Stocks \ {s} : task'[r] = task[r]
  BY DEF TypeOK, Put, Tasks

\* The statuses of rows.
LEMMA RowType ==
  ASSUME NEW status \in Settled \cup RESUMABLE, NEW n \in 0..MaxAttempts
  PROVE  Row(status, n) \in Rows /\ Row(status, n).status = status /\ Row(status, n).attempts = n
  BY DEF Row, Rows

\* Every status a row may have.
LEMMA Statuses ==
  /\ Settled \cap RESUMABLE = {}
  /\ {"PENDING", "FETCHING", "FAILED_RETRYABLE", "DEFERRED_TIME_BUDGET"} = RESUMABLE
  /\ \A row \in Rows : row.status \in Settled \cup RESUMABLE /\ row.attempts \in 0..MaxAttempts
  BY DEF Settled, RESUMABLE, TERMINAL_SUCCESS, TERMINAL_FAILURE, Rows

\* Every step keeps the types.
LEMMA NextTyped == ASSUME IInv, [Next]_vars PROVE TypeOK'
<1> USE DEF IInv
<1>1. CASE \E force \in BOOLEAN : Start(force)
  <2>1. PICK force \in BOOLEAN : Start(force) BY <1>1
  <2>2. \A s \in Stocks : Loaded(checkpoint.stocks[s], force) \in Rows
    BY LoadedType DEF TypeOK
  <2> QED BY <2>1, <2>2 DEF Start, TypeOK
<1>2. CASE \E s \in Stocks : Submit(s)
  <2>1. PICK s \in Stocks : Submit(s) BY <1>2
  <2> DEFINE status == IF run.expired THEN "DEFERRED_TIME_BUDGET" ELSE "FETCHING"
             row == Row(status, run.stocks[s].attempts)
             rows == [run.stocks EXCEPT ![s] = row]
  <2>2. row \in Rows
    <3>1. status \in Settled \cup RESUMABLE
      BY Statuses
    <3>2. run.stocks[s].attempts \in 0..MaxAttempts
      BY Statuses DEF TypeOK
    <3> QED BY <3>1, <3>2, RowType
  <2>3. rows \in [Stocks -> Rows] /\ rows[s] \in Rows
    BY <2>2 DEF TypeOK
  <2> HIDE DEF row, status
  <2>4. run' = [run EXCEPT !.stocks = rows, !.todo = @ \ {s}]
    BY <2>1 DEF Submit, row, status
  <2>5. run' \in [pc : {"off", "work", "save", "result", "exit"}, stocks : [Stocks -> Rows],
                  todo : SUBSET Stocks, expired : BOOLEAN]
    BY <2>3, <2>4 DEF TypeOK
  <2>6. CASE run.expired
    BY <2>1, <2>5, <2>6 DEF Submit, TypeOK
  <2>7. CASE ~run.expired
    <3>1. checkpoint' = [checkpoint EXCEPT !.stocks = rows] /\ Put(s, "queued", rows[s])
      BY <2>1, <2>7 DEF Submit, row, status
    <3>2. task' \in [Stocks -> Tasks]
      BY <3>1, <2>3, PutType
    <3> QED BY <2>1, <2>5, <3>1, <3>2, <2>3 DEF Submit, TypeOK
  <2> QED BY <2>6, <2>7
<1>3. CASE \E s \in Stocks : Collect(s)
  <2>1. PICK s \in Stocks : Collect(s) BY <1>3
  <2> DEFINE rows == [run.stocks EXCEPT ![s] = task[s].row]
  <2>2. rows \in [Stocks -> Rows]
    BY DEF TypeOK, Tasks
  <2>3. run' = [run EXCEPT !.stocks = rows] /\ checkpoint' = [checkpoint EXCEPT !.stocks = rows]
    BY <2>1 DEF Collect, TypeOK
  <2> QED BY <2>1, <2>2, <2>3, FreshType DEF Collect, TypeOK
<1>4. CASE WriteLedgers
  BY <1>4 DEF WriteLedgers, TypeOK
<1>5. CASE SaveVerdict
  BY <1>5, BatchStatusType DEF SaveVerdict, TypeOK
<1>6. CASE WriteResult
  BY <1>6 DEF WriteResult, TypeOK
<1>7. CASE Exit
  BY <1>7, FreshType DEF Exit, TypeOK, Off
<1>8. CASE Expire
  BY <1>8 DEF Expire, TypeOK
<1>9. CASE Crash
  BY <1>9, FreshType DEF Crash, TypeOK, Off
<1>10. CASE \E s \in Stocks : Attempt(s)
  <2>1. PICK s \in Stocks : Attempt(s) BY <1>10
  <2>2. task[s].row.status \in Settled \cup RESUMABLE /\ task[s].row.attempts \in 0..MaxAttempts
    BY Statuses DEF TypeOK, Tasks
  <2>3. task' \in [Stocks -> Tasks]
    <3>1. CASE End(s, "FAILED_RETRYABLE")
      BY <3>1, <2>2, PutType, RowType, Statuses DEF End
    <3>2. CASE End(s, "DEFERRED_TIME_BUDGET")
      BY <3>2, <2>2, PutType, RowType, Statuses DEF End
    <3>3. CASE ~Exhausted(s) /\ Put(s, "calling", Row(task[s].row.status, task[s].row.attempts + 1))
      BY <3>3, <2>2, PutType, RowType DEF Exhausted
    <3> QED BY <2>1, <3>1, <3>2, <3>3 DEF Attempt
  <2> QED BY <2>1, <2>3 DEF Attempt, TypeOK
<1>11. CASE \E s \in Stocks : Returned(s) \/ Retryable(s)
  <2>1. PICK s \in Stocks : Returned(s) \/ Retryable(s) BY <1>11
  <2>2. task[s].row.attempts \in 0..MaxAttempts
    BY Statuses DEF TypeOK, Tasks
  <2>3. task' \in [Stocks -> Tasks]
    <3>1. CASE Retryable(s)
      <4>1. PICK row : row = Row("FAILED_RETRYABLE", task[s].row.attempts)
        OBVIOUS
      <4>2. row \in Rows
        BY <2>2, <4>1, RowType, Statuses
      <4>3. Put(s, "between", row)
        BY <3>1, <4>1 DEF Retryable
      <4> QED BY <4>2, <4>3, PutType
    <3>2. CASE Returned(s)
      <4>1. PICK status \in Settled : Put(s, "done", Row(status, task[s].row.attempts))
        BY <3>2 DEF Returned, End
      <4> QED BY <4>1, <2>2, PutType, RowType
    <3> QED BY <2>1, <3>1, <3>2
  <2> QED BY <2>1, <2>3 DEF Returned, Retryable, TypeOK
<1>12. CASE UNCHANGED vars
  BY <1>12 DEF vars, TypeOK
<1> QED BY <1>1, <1>2, <1>3, <1>4, <1>5, <1>6, <1>7, <1>8, <1>9, <1>10, <1>11, <1>12
        DEF Next, Main, Worker

----------------------------------------------------------------------------
(* The pool threads.                                                       *)

\* What every step of a worker has in common.
LEMMA WorkerStep ==
  ASSUME TypeOK, NEW s \in Stocks, Worker(s)
  PROVE  /\ UNCHANGED <<checkpoint, reports, run, exit, crashes>>
         /\ task[s].pc # "none" /\ task'[s].pc # "none"
         /\ task'[s].pc \in {"done", "between"} => task'[s].row.status \notin {"PENDING", "FETCHING"}
         /\ \A r \in Stocks \ {s} : task'[r] = task[r] /\ calls'[r] = calls[r]
         /\ \E n \in {0, 1} : /\ calls'[s] = calls[s] + n
                              /\ task'[s].row.attempts = task[s].row.attempts + n
<1>1. task[s].row.attempts \in 0..MaxAttempts /\ calls[s] \in Nat
  BY Statuses DEF TypeOK, Tasks
<1>2. \A pc, row : Put(s, pc, row) =>
        task'[s].pc = pc /\ task'[s].row = row /\ \A r \in Stocks \ {s} : task'[r] = task[r]
  BY DEF Put, TypeOK
<1>3. \A status, n : Row(status, n).status = status /\ Row(status, n).attempts = n
  BY DEF Row
<1>4. \A status \in Settled : status \notin {"PENDING", "FETCHING"}
  BY Statuses
<1>5. CASE Attempt(s)
  <2>1. CASE End(s, "FAILED_RETRYABLE") /\ UNCHANGED calls
    BY <2>1, <1>1, <1>2, <1>3, <1>5 DEF Attempt, End
  <2>2. CASE End(s, "DEFERRED_TIME_BUDGET") /\ UNCHANGED calls
    BY <2>2, <1>1, <1>2, <1>3, <1>5 DEF Attempt, End
  <2>3. CASE /\ Put(s, "calling", Row(task[s].row.status, task[s].row.attempts + 1))
             /\ calls' = [calls EXCEPT ![s] = @ + 1]
    BY <2>3, <1>1, <1>2, <1>3, <1>5 DEF Attempt, TypeOK
  <2> QED BY <2>1, <2>2, <2>3, <1>5 DEF Attempt
<1>6. CASE Returned(s)
  <2>1. PICK status \in Settled : Put(s, "done", Row(status, task[s].row.attempts))
    BY <1>6 DEF Returned, End
  <2> QED BY <2>1, <1>1, <1>2, <1>3, <1>4, <1>6 DEF Returned
<1>7. CASE Retryable(s)
  BY <1>7, <1>1, <1>2, <1>3 DEF Retryable
<1> QED BY <1>5, <1>6, <1>7 DEF Worker

\* The steps of a worker keep the invariant.
LEMMA WorkerKeeps ==
  ASSUME IInv, TypeOK', NEW s \in Stocks, Worker(s)
  PROVE  SettledAlike' /\ Stages' /\ Ending' /\ ReportsNotAhead' /\ ExitTruthful' /\ Counted'
<1> USE DEF IInv
<1> DEFINE same == UNCHANGED <<checkpoint, reports, run, exit, crashes>>
<1>1. same /\ task[s].pc # "none" /\ task'[s].pc # "none" /\ \A r \in Stocks \ {s} : task'[r] = task[r]
  BY WorkerStep
<1>2. SettledAlike'
  BY <1>1 DEF SettledAlike, Saved
<1>3. Stages'
  BY <1>1, WorkerStep DEF Stages
<1>4. Ending' /\ ReportsNotAhead' /\ ExitTruthful'
  BY <1>1 DEF Ending, ReportsNotAhead, ExitTruthful
<1>5. Counted'
  <2>1. PICK n \in {0, 1} : calls'[s] = calls[s] + n /\ task'[s].row.attempts = task[s].row.attempts + n
    BY WorkerStep
  <2>2. \A r \in Stocks : /\ calls[r] \in Nat /\ MaxAttempts * crashes \in Nat
                          /\ task[r].row.attempts \in 0..MaxAttempts
    BY Statuses DEF TypeOK, Tasks
  <2>3. calls'[s] <= MaxAttempts * crashes' + Recorded(s)'
    BY <1>1, <2>1, <2>2 DEF Counted, Recorded
  <2>4. \A r \in Stocks \ {s} : calls'[r] <= MaxAttempts * crashes' + Recorded(r)'
    BY <1>1, WorkerStep DEF Counted, Recorded, Saved
  <2> QED BY <1>1, <2>3, <2>4 DEF Counted, Saved
<1> QED BY <1>2, <1>3, <1>4, <1>5

----------------------------------------------------------------------------
(* The main thread.                                                        *)

Keeps == SettledAlike' /\ Stages' /\ Ending' /\ ExitTruthful' /\ Counted'
KeepsSettled ==
  \A s \in Stocks : Saved(s).status \in Settled => Saved(s)' = Saved(s) /\ calls'[s] = calls[s]

\* Starting a process, on whatever checkpoint there is.
LEMMA StartKeeps ==
  ASSUME IInv, TypeOK', NEW force \in BOOLEAN, Start(force)
  PROVE  Keeps /\ KeepsSettled
<1> USE DEF IInv
<1> DEFINE rows == [s \in Stocks |-> Loaded(checkpoint.stocks[s], force)]
<1>1. /\ run' = [pc |-> "work", stocks |-> rows, expired |-> FALSE,
                 todo |-> {s \in Stocks : Claimable(rows[s])}]
      /\ checkpoint' = [status |-> "RUNNING", stocks |-> rows]
      /\ exit' = "none" /\ UNCHANGED <<reports, task, calls, crashes>>
      /\ \A s \in Stocks : task[s].pc = "none"
  BY DEF Start, Stages
<1>2. \A s \in Stocks :
        /\ rows[s].attempts = checkpoint.stocks[s].attempts
        /\ checkpoint.stocks[s].status \in Settled => rows[s] = checkpoint.stocks[s]
        /\ rows[s].status \in Settled \cup RESUMABLE
  BY LoadedType, Statuses DEF TypeOK
<1> HIDE DEF rows
<1>3. \A s \in Stocks : rows[s].status \in Settled <=> ~Claimable(rows[s])
  BY <1>2, Statuses DEF Claimable
<1>4. \A s \in Stocks : s \notin run'.todo => rows[s].status \in Settled
  BY <1>1, <1>3
<1>5. SettledAlike'
  BY <1>1, <1>3 DEF SettledAlike, Saved
<1>6. Stages'
  BY <1>1, <1>4, Statuses DEF Stages
<1>7. Ending' /\ ExitTruthful'
  BY <1>1 DEF Ending, ExitTruthful
<1>8. Counted' /\ KeepsSettled
  BY <1>1, <1>2 DEF Counted, Saved, Recorded, KeepsSettled
<1> QED BY <1>5, <1>6, <1>7, <1>8 DEF Keeps

\* Claiming a stock, or deferring it.
LEMMA SubmitKeeps ==
  ASSUME IInv, TypeOK', NEW s \in Stocks, Submit(s)
  PROVE  Keeps /\ KeepsSettled
<1> USE DEF IInv
<1> DEFINE status == IF run.expired THEN "DEFERRED_TIME_BUDGET" ELSE "FETCHING"
           row == Row(status, run.stocks[s].attempts)
           rows == [run.stocks EXCEPT ![s] = row]
<1>1. /\ run.pc = "work" /\ s \in run.todo
      /\ run' = [run EXCEPT !.stocks = rows, !.todo = @ \ {s}]
      /\ \/ run.expired /\ UNCHANGED <<checkpoint, task>>
         \/ ~run.expired /\ checkpoint' = [checkpoint EXCEPT !.stocks = rows] /\ Put(s, "queued", rows[s])
      /\ UNCHANGED <<reports, exit, calls, crashes>>
  BY DEF Submit
<1>2. /\ rows[s] = row /\ row.status = status /\ row.attempts = run.stocks[s].attempts
      /\ \A r \in Stocks \ {s} : rows[r] = run.stocks[r]
      /\ status \notin Settled
      /\ run.expired => status \notin {"PENDING", "FETCHING"}
  BY Statuses DEF TypeOK, Row
<1> HIDE DEF rows, row, status
<1>3. /\ Saved(s).status \notin Settled /\ task[s].pc = "none"
      /\ run.stocks[s].status \notin Settled
      /\ Saved(s).attempts = run.stocks[s].attempts
  BY <1>1 DEF SettledAlike, Stages, Counted, Saved
<1>4. /\ run'.pc = "work" /\ run'.stocks = rows /\ run'.todo = run.todo \ {s}
      /\ \A r \in Stocks \ {s} : task'[r] = task[r]
      /\ checkpoint'.status = checkpoint.status
      /\ \/ checkpoint'.stocks = checkpoint.stocks /\ task' = task /\ run.expired
         \/ checkpoint'.stocks = rows /\ task'[s].pc = "queued" /\ task'[s].row = rows[s]
  BY <1>1 DEF Put, TypeOK
<1>5. \A r \in Stocks \ {s} : Saved(r).status \in Settled => Saved(r)' = Saved(r)
  BY <1>1, <1>2, <1>4 DEF SettledAlike, Saved
<1>6. SettledAlike'
  <2>1. \A r \in Stocks \ {s} : run.stocks[r].status \in Settled => run.stocks[r] = Saved(r)
    BY <1>1 DEF SettledAlike
  <2> QED BY <1>1, <1>2, <1>3, <1>4, <2>1 DEF SettledAlike, Saved
<1>7. Stages'
  BY <1>1, <1>2, <1>3, <1>4 DEF Stages
<1>8. Ending' /\ ExitTruthful'
  BY <1>1, <1>4 DEF Ending, ExitTruthful
<1>9. Counted'
  BY <1>1, <1>2, <1>3, <1>4 DEF Counted, Saved, Recorded
<1> QED BY <1>1, <1>3, <1>5, <1>6, <1>7, <1>8, <1>9 DEF Keeps, KeepsSettled

\* Taking over the result of a future.
LEMMA CollectKeeps ==
  ASSUME IInv, TypeOK', NEW s \in Stocks, Collect(s)
  PROVE  Keeps /\ KeepsSettled
<1> USE DEF IInv
<1> DEFINE rows == [run.stocks EXCEPT ![s] = task[s].row]
<1>1. /\ run.pc = "work" /\ run.todo = {} /\ task[s].pc = "done"
      /\ run'.pc = "work" /\ run'.todo = {} /\ run'.stocks = rows
      /\ checkpoint'.stocks = rows /\ checkpoint'.status = checkpoint.status
      /\ task'[s] = NoTask /\ \A r \in Stocks \ {s} : task'[r] = task[r]
      /\ UNCHANGED <<reports, exit, calls, crashes>>
  BY DEF Collect, TypeOK
<1>2. rows[s] = task[s].row /\ \A r \in Stocks \ {s} : rows[r] = run.stocks[r]
  BY DEF TypeOK
<1> HIDE DEF rows
<1>3. Saved(s).status \notin Settled
  BY <1>1 DEF SettledAlike
<1>4. \A r \in Stocks \ {s} : Saved(r).status \in Settled => rows[r] = Saved(r)
  BY <1>1, <1>2 DEF SettledAlike
<1>5. SettledAlike'
  <2>1. \A r \in Stocks \ {s} :
          run.stocks[r].status \in Settled => Saved(r).status \in Settled /\ task[r].pc = "none"
    BY <1>1 DEF SettledAlike
  <2> QED BY <1>1, <1>2, <2>1, FreshType DEF SettledAlike, Saved
<1>6. Stages'
  BY <1>1, <1>2, FreshType DEF Stages
<1>7. Ending' /\ ExitTruthful'
  BY <1>1 DEF Ending, ExitTruthful
<1>8. Counted'
  <2>1. \A r \in Stocks \ {s} : rows[r].attempts = Saved(r).attempts
    BY <1>1, <1>2 DEF Counted
  <2> QED BY <1>1, <1>2, <2>1, FreshType DEF Counted, Saved, Recorded
<1> QED BY <1>1, <1>3, <1>4, <1>5, <1>6, <1>7, <1>8 DEF Keeps, KeepsSettled, Saved

\* Writing the ledgers, the verdict and the result, one after the other.
LEMMA FinishKeeps ==
  ASSUME IInv, TypeOK', WriteLedgers \/ SaveVerdict \/ WriteResult
  PROVE  Keeps /\ KeepsSettled
<1> USE DEF IInv
<1>1. /\ run'.stocks = run.stocks /\ run'.todo = {} /\ run.todo = {}
      /\ UNCHANGED <<task, exit, calls, crashes>>
      /\ run.pc \notin {"off", "exit"} /\ run'.pc \in {"save", "result", "exit"}
      /\ \A s \in Stocks : task[s].pc = "none"
  BY DEF WriteLedgers, SaveVerdict, WriteResult, TypeOK, Stages
<1>2. checkpoint'.stocks \in {checkpoint.stocks, run.stocks}
  BY DEF WriteLedgers, SaveVerdict, WriteResult
<1>3. SettledAlike' /\ KeepsSettled
  BY <1>1, <1>2 DEF SettledAlike, KeepsSettled, Saved
<1>4. Stages'
  BY <1>1 DEF Stages
<1>5. ExitTruthful'
  BY <1>1 DEF ExitTruthful, Ending
<1>6. Counted'
  BY <1>1, <1>2 DEF Counted, Saved, Recorded
<1>7. Ending'
  <2>1. CASE WriteLedgers
    BY <2>1 DEF WriteLedgers, Ending, TypeOK
  <2>2. CASE SaveVerdict
    BY <2>2 DEF SaveVerdict, Ending, TypeOK
  <2>3. CASE WriteResult
    BY <2>3 DEF WriteResult, Ending, TypeOK
  <2> QED BY <2>1, <2>2, <2>3
<1> QED BY <1>3, <1>4, <1>5, <1>6, <1>7 DEF Keeps

\* What the exit code of a process that ends by itself tells.
LEMMA ExitKeeps ==
  ASSUME IInv, TypeOK', Exit
  PROVE  Keeps /\ KeepsSettled
<1> USE DEF IInv
<1>1. /\ run.pc = "exit" /\ run'.pc = "off" /\ run'.todo = {} /\ run.todo = {}
      /\ UNCHANGED <<checkpoint, reports, task, calls, crashes>>
      /\ \A s \in Stocks : task[s].pc = "none"
  BY DEF Exit, Off, Stages
<1>2. /\ checkpoint.stocks = run.stocks /\ checkpoint.status = BatchStatus(run.stocks)
      /\ reports.ledger = run.stocks /\ reports.result = run.stocks
  BY <1>1 DEF Ending
<1>3. exit' \in {"failed", IF checkpoint.status = "FAILED_TERMINAL" THEN "failed"
                           ELSE IF checkpoint.status = "FAILED_RECOVERABLE" THEN "partial" ELSE "ok"}
  BY DEF Exit
<1>4. \A s \in Stocks : checkpoint.stocks[s].status \in Settled \cup (RESUMABLE \ {"PENDING", "FETCHING"})
  BY <1>1, <1>2, Statuses DEF Stages, TypeOK
<1>5. ExitTruthful'
  <2> DEFINE seen == {checkpoint.stocks[s].status : s \in Stocks}
  <2>1. seen \subseteq Settled \cup RESUMABLE /\ seen \cap {"PENDING", "FETCHING"} = {}
    BY <1>4, Statuses
  <2>2. checkpoint.status = IF seen \subseteq {"COMPLETED"} THEN "PASS"
                            ELSE IF seen \subseteq TERMINAL_SUCCESS THEN "PASS_WITH_GAPS"
                            ELSE IF seen \cap TERMINAL_FAILURE # {} THEN "FAILED_TERMINAL"
                            ELSE "FAILED_RECOVERABLE"
    BY <1>2 DEF BatchStatus
  <2> HIDE DEF seen
  <2>3. exit' = "ok" => seen \subseteq TERMINAL_SUCCESS
    BY <1>3, <2>2 DEF TERMINAL_SUCCESS
  <2>4. exit' = "partial" => seen \cap TERMINAL_FAILURE = {} /\ seen \cap RESUMABLE # {}
    BY <1>3, <2>1, <2>2 DEF Settled
  <2> QED BY <1>1, <1>2, <2>1, <2>3, <2>4 DEF ExitTruthful, seen
<1>6. SettledAlike' /\ Stages' /\ Ending' /\ Counted' /\ KeepsSettled
  BY <1>1 DEF SettledAlike, Stages, Ending, Counted, KeepsSettled, Saved, Recorded
<1> QED BY <1>5, <1>6 DEF Keeps

\* A killed process leaves the files, and no more attempts than it recorded
\* are forgotten.
LEMMA CrashKeeps ==
  ASSUME IInv, TypeOK', Crash
  PROVE  Keeps /\ KeepsSettled
<1> USE DEF IInv
<1>1. /\ run'.pc = "off" /\ run'.todo = {} /\ exit' = "killed" /\ crashes' = crashes + 1
      /\ UNCHANGED <<checkpoint, reports, calls>>
      /\ \A s \in Stocks : task'[s].pc = "none"
  BY FreshType DEF Crash, Off
<1>2. Counted'
  <2>1. \A s \in Stocks : /\ Saved(s).attempts \in 0..MaxAttempts
                          /\ task[s].row.attempts \in 0..MaxAttempts
                          /\ calls[s] \in Nat
    BY Statuses DEF TypeOK, Tasks, Saved
  <2>2. MaxAttempts * (crashes + 1) = MaxAttempts * crashes + MaxAttempts
        /\ MaxAttempts * crashes \in Nat /\ MaxAttempts \in Nat
    BY DEF TypeOK
  <2>3. \A s \in Stocks : calls[s] <= MaxAttempts * (crashes + 1) + Saved(s).attempts
    BY <2>1, <2>2 DEF Counted, Recorded
  <2> QED BY <1>1, <2>3 DEF Counted, Recorded, Saved
<1>3. SettledAlike' /\ Stages' /\ Ending' /\ ExitTruthful' /\ KeepsSettled
  BY <1>1 DEF SettledAlike, Stages, Ending, ExitTruthful, KeepsSettled, Saved
<1> QED BY <1>2, <1>3 DEF Keeps

----------------------------------------------------------------------------
(* The invariant is inductive.                                             *)

\* Every step keeps the invariant.
LEMMA NextKeeps ==
  ASSUME IInv, [Next]_vars
  PROVE  IInv' /\ KeepsSettled
<1> USE DEF IInv
<1>1. TypeOK'
  BY NextTyped
<1>2. Keeps /\ KeepsSettled
  <2>1. CASE \E force \in BOOLEAN : Start(force)
    BY <1>1, <2>1, StartKeeps
  <2>2. CASE \E s \in Stocks : Submit(s)
    BY <1>1, <2>2, SubmitKeeps
  <2>3. CASE \E s \in Stocks : Collect(s)
    BY <1>1, <2>3, CollectKeeps
  <2>4. CASE WriteLedgers \/ SaveVerdict \/ WriteResult
    BY <1>1, <2>4, FinishKeeps
  <2>5. CASE Exit
    BY <1>1, <2>5, ExitKeeps
  <2>6. CASE Crash
    BY <1>1, <2>6, CrashKeeps
  <2>7. CASE Expire \/ UNCHANGED vars
    <3>1. /\ run'.pc = run.pc /\ run'.stocks = run.stocks /\ run'.todo = run.todo
          /\ UNCHANGED <<checkpoint, reports, task, exit, calls, crashes>>
      BY <2>7 DEF Expire, vars, TypeOK
    <3>2. SettledAlike' /\ Stages' /\ KeepsSettled
      BY <3>1 DEF SettledAlike, Stages, KeepsSettled, Saved
    <3>3. Ending' /\ ExitTruthful' /\ Counted'
      BY <3>1 DEF Ending, ExitTruthful, Counted, Recorded, Saved
    <3> QED BY <3>2, <3>3 DEF Keeps
  <2>8. CASE \E s \in Stocks : Worker(s)
    <3>1. PICK s \in Stocks : Worker(s) BY <2>8
    <3>2. UNCHANGED checkpoint /\ task[s].pc # "none" /\ \A r \in Stocks \ {s} : calls'[r] = calls[r]
      BY <3>1, WorkerStep
    <3>3. KeepsSettled
      BY <3>2 DEF SettledAlike, KeepsSettled, Saved
    <3> QED BY <1>1, <3>1, <3>3, WorkerKeeps DEF Keeps
  <2> QED BY <2>1, <2>2, <2>3, <2>4, <2>5, <2>6, <2>7, <2>8 DEF Next, Main
<1>3. ReportsNotAhead'
  <2>1. CASE UNCHANGED reports
    BY <1>2, <2>1 DEF ReportsNotAhead, KeepsSettled, Saved
  <2>2. CASE WriteLedgers
    <3>1. checkpoint' = checkpoint /\ run.pc = "work" /\ reports'.ledger = run.stocks
          /\ reports'.result = reports.result
      BY <2>2 DEF WriteLedgers, TypeOK
    <3> QED BY <3>1 DEF ReportsNotAhead, SettledAlike, Saved
  <2>3. CASE WriteResult
    <3>1. checkpoint' = checkpoint /\ run.pc = "result" /\ reports'.result = run.stocks
          /\ reports'.ledger = reports.ledger
      BY <2>3 DEF WriteResult, TypeOK
    <3> QED BY <3>1 DEF ReportsNotAhead, SettledAlike, Saved
  <2>4. WriteLedgers \/ WriteResult \/ UNCHANGED reports
    BY DEF Next, Main, Start, Submit, Collect, WriteLedgers, SaveVerdict, WriteResult, Exit, Crash,
           Expire, Worker, Attempt, Returned, Retryable, vars
  <2> QED BY <2>1, <2>2, <2>3, <2>4
<1> QED BY <1>1, <1>2, <1>3 DEF Keeps

\* The invariant holds initially.
LEMMA InitHolds == ASSUME Init PROVE IInv
<1>1. TypeOK
  BY FreshType DEF Init, TypeOK, Off
<1>2. \A s \in Stocks : Fresh[s] = Row("PENDING", 0) /\ Row("PENDING", 0).status = "PENDING"
                        /\ Row("PENDING", 0).attempts = 0
  BY DEF Fresh, Row
<1>3. "PENDING" \notin Settled
  BY Statuses
<1>4. SettledAlike /\ Stages /\ Ending /\ ReportsNotAhead /\ ExitTruthful
  BY <1>2, <1>3, FreshType
     DEF Init, Off, SettledAlike, Stages, Ending, ReportsNotAhead, ExitTruthful, Saved
<1>5. Counted
  BY <1>2, FreshType DEF Init, Off, Counted, Recorded, Saved
<1> QED BY <1>1, <1>4, <1>5 DEF IInv

\* The invariant holds always.
LEMMA Invariant == Spec => []IInv
<1>1. Init => IInv
  BY InitHolds
<1>2. IInv /\ [Next]_vars => IInv'
  BY NextKeeps
<1> QED BY <1>1, <1>2, PTL DEF Spec

----------------------------------------------------------------------------
(* The theorems.                                                           *)

\* All variables of run_batch keep their types; in particular no recorded
\* attempt count ever exceeds max_attempts.
THEOREM TypeInvariant == Spec => []TypeOK
<1>1. IInv => TypeOK
  BY DEF IInv
<1> QED BY <1>1, Invariant, PTL

\* Neither the ledgers nor batch_run_result.json ever show an outcome that
\* checkpoint.json does not have, wherever the process is killed.
THEOREM ReportsHold == Spec => []ReportsNotAhead
<1>1. IInv => ReportsNotAhead
  BY DEF IInv
<1> QED BY <1>1, Invariant, PTL

\* The exit code of run-batch agrees with the checkpoint and the reports.
THEOREM ExitHolds == Spec => []ExitTruthful
<1>1. IInv => ExitTruthful
  BY DEF IInv
<1> QED BY <1>1, Invariant, PTL

\* A stock gets at most max_attempts processor calls per killed process, plus
\* max_attempts.
THEOREM AttemptsHold == Spec => []AttemptsPerCrash
<1>1. IInv => AttemptsPerCrash
  <2> SUFFICES ASSUME IInv, NEW s \in Stocks PROVE calls[s] <= MaxAttempts * (crashes + 1)
    BY DEF AttemptsPerCrash
  <2>1. /\ Recorded(s) \in 0..MaxAttempts /\ calls[s] \in Nat
        /\ calls[s] <= MaxAttempts * crashes + Recorded(s)
    BY Statuses DEF IInv, TypeOK, Tasks, Recorded, Saved, Counted
  <2>2. MaxAttempts * (crashes + 1) = MaxAttempts * crashes + MaxAttempts
        /\ MaxAttempts * crashes \in Nat /\ MaxAttempts \in Nat
    BY DEF IInv, TypeOK
  <2> QED BY <2>1, <2>2
<1> QED BY <1>1, Invariant, PTL

\* A completed or finally failed stock is never lost from the checkpoint and
\* never processed again, over any number of resumed and killed runs.
THEOREM SettledHolds == Spec => SettledStays
<1>1. IInv /\ [Next]_vars =>
        [\A s \in Stocks : checkpoint.stocks[s].status \in Settled =>
           /\ checkpoint'.stocks[s] = checkpoint.stocks[s]
           /\ calls'[s] = calls[s]]_vars
  BY NextKeeps DEF KeepsSettled, Saved
<1> QED BY <1>1, Invariant, PTL DEF Spec, SettledStays

----------------------------------------------------------------------------
(* Refinement: every step of run_batch is a step of the ledger, or none.   *)

\* The mapping of BatchRun's instance of BatchLedger.
Outcome(s) == IF Saved(s).status \in Settled THEN Saved(s).status ELSE "open"
Outcomes == [s \in Stocks |-> Outcome(s)]
Verdict == IF checkpoint.status \in Verdicts THEN checkpoint.status ELSE "none"

\* The ledger's operations, seen through the mapping.
LEMMA Mapping ==
  /\ Ledger!LedgerInit <=> Outcomes = [s \in Stocks |-> "open"] /\ Verdict = "none"
  /\ Ledger!Reopen <=> Verdict' = "none" /\ UNCHANGED Outcomes
  /\ Ledger!Conclude <=> Verdict = "none" /\ Verdict' = Ledger!Justified /\ UNCHANGED Outcomes
  /\ \A s \in Stocks : Ledger!Settle(s) <=>
       /\ Verdict = "none" /\ Outcomes[s] = "open" /\ UNCHANGED Verdict
       /\ \E o \in Settled : Outcomes' = [Outcomes EXCEPT ![s] = o]
  /\ UNCHANGED Ledger!ledgerVars <=> UNCHANGED <<Outcomes, Verdict>>
  BY DEF Ledger!LedgerInit, Ledger!Reopen, Ledger!Conclude, Ledger!Settle, Ledger!Outcomes,
         Ledger!ledgerVars, Outcomes, Outcome, Verdict, Saved,
         Settled, TERMINAL_SUCCESS, TERMINAL_FAILURE

\* The verdict on rows with the settled outcomes of the ledger is the one that
\* the ledger justifies.
LEMMA VerdictJustified ==
  ASSUME TypeOK, SettledAlike, run.pc = "save"
  PROVE  Ledger!Justified = BatchStatus(run.stocks)
<1> DEFINE mapped == {Outcome(s) : s \in Stocks}
           seen == {run.stocks[s].status : s \in Stocks}
<1>1. \A s \in Stocks :
        Outcome(s) = IF run.stocks[s].status \in Settled THEN run.stocks[s].status ELSE "open"
  BY DEF SettledAlike, Outcome, Saved
<1>2. mapped \subseteq {"COMPLETED"} <=> seen \subseteq {"COMPLETED"}
  BY <1>1 DEF Settled, TERMINAL_SUCCESS, TERMINAL_FAILURE
<1>3. mapped \subseteq {"COMPLETED", "COMPLETED_WITH_GAPS"} <=> seen \subseteq TERMINAL_SUCCESS
  BY <1>1 DEF Settled, TERMINAL_SUCCESS, TERMINAL_FAILURE
<1>4. mapped \cap {"FAILED_TERMINAL", "BLOCKED"} # {} <=> seen \cap TERMINAL_FAILURE # {}
  BY <1>1 DEF Settled, TERMINAL_SUCCESS, TERMINAL_FAILURE
<1>5. {Outcomes[s] : s \in Stocks} = mapped
  BY DEF Outcomes
<1>6. Ledger!Justified =
        IF mapped \subseteq {"COMPLETED"} THEN "PASS"
        ELSE IF mapped \subseteq {"COMPLETED", "COMPLETED_WITH_GAPS"} THEN "PASS_WITH_GAPS"
        ELSE IF mapped \cap {"FAILED_TERMINAL", "BLOCKED"} # {} THEN "FAILED_TERMINAL"
        ELSE "FAILED_RECOVERABLE"
  BY <1>5 DEF Ledger!Justified, Outcomes, Outcome, Saved
<1> QED BY <1>2, <1>3, <1>4, <1>6 DEF BatchStatus

\* A step that leaves the checkpoint alone is a stutter of the ledger.
LEMMA Stutters == ASSUME UNCHANGED checkpoint PROVE UNCHANGED Ledger!ledgerVars
<1>1. UNCHANGED <<Outcomes, Verdict>>
  BY DEF Outcomes, Outcome, Verdict, Saved
<1> QED BY <1>1, Mapping

\* Every step is an operation of the ledger or a stutter.
LEMMA StepRefines ==
  ASSUME IInv, [Next]_vars
  PROVE  [Ledger!LedgerNext]_(Ledger!ledgerVars)
<1> USE DEF IInv
<1>1. CASE \E force \in BOOLEAN : Start(force)
  <2>1. PICK force \in BOOLEAN : Start(force) BY <1>1
  <2>2. /\ checkpoint'.status = "RUNNING"
        /\ \A s \in Stocks : Saved(s)' = Loaded(checkpoint.stocks[s], force)
    BY <2>1 DEF Start, Saved
  <2>3. \A s \in Stocks : Outcome(s)' = Outcome(s)
    BY <2>2, LoadedType DEF Outcome, TypeOK, Saved
  <2>4. Verdict' = "none" /\ UNCHANGED Outcomes
    BY <2>2, <2>3 DEF Verdict, Verdicts, Outcomes
  <2> QED BY <2>4, Mapping DEF Ledger!LedgerNext
<1>2. CASE \E s \in Stocks : Submit(s)
  <2>1. PICK s \in Stocks : Submit(s) BY <1>2
  <2>2. CASE run.expired
    <3>1. UNCHANGED checkpoint
      BY <2>1, <2>2 DEF Submit
    <3> QED BY <3>1, Stutters
  <2>3. CASE ~run.expired
    <3>1. /\ checkpoint'.status = checkpoint.status
          /\ Saved(s)'.status = "FETCHING"
          /\ \A r \in Stocks \ {s} : Saved(r)' = run.stocks[r]
      <4> DEFINE row == Row("FETCHING", run.stocks[s].attempts)
                 rows == [run.stocks EXCEPT ![s] = row]
      <4>1. checkpoint' = [checkpoint EXCEPT !.stocks = rows]
        BY <2>1, <2>3 DEF Submit
      <4>2. row.status = "FETCHING"
        BY DEF Row
      <4>3. rows[s] = row /\ \A r \in Stocks \ {s} : rows[r] = run.stocks[r]
        BY DEF TypeOK
      <4> HIDE DEF rows, row
      <4>4. checkpoint'.status = checkpoint.status /\ checkpoint'.stocks = rows
        BY <4>1 DEF TypeOK
      <4> QED BY <4>2, <4>3, <4>4 DEF Saved
    <3>2. run.pc = "work" /\ Saved(s).status \notin Settled
      BY <2>1 DEF Submit, SettledAlike
    <3>3. \A r \in Stocks : Outcome(r)' = Outcome(r)
      BY <3>1, <3>2, Statuses DEF Outcome, SettledAlike
    <3>4. UNCHANGED <<Outcomes, Verdict>>
      BY <3>1, <3>3 DEF Verdict, Outcomes
    <3> QED BY <3>4, Mapping
  <2> QED BY <2>2, <2>3
<1>3. CASE \E s \in Stocks : Collect(s)
  <2>1. PICK s \in Stocks : Collect(s) BY <1>3
  <2>2. /\ checkpoint'.status = checkpoint.status
        /\ Saved(s)' = task[s].row
        /\ \A r \in Stocks \ {s} : Saved(r)' = run.stocks[r]
        /\ run.pc = "work" /\ checkpoint.status = "RUNNING" /\ task[s].pc = "done"
    BY <2>1 DEF Collect, TypeOK, Saved, Ending
  <2>3. Saved(s).status \notin Settled
    BY <2>2 DEF SettledAlike
  <2>4. \A r \in Stocks \ {s} : Outcome(r)' = Outcome(r)
    BY <2>2 DEF Outcome, SettledAlike
  <2>5. Verdict = "none" /\ UNCHANGED Verdict /\ Outcomes[s] = "open"
    BY <2>2, <2>3 DEF Verdict, Verdicts, Outcomes, Outcome
  <2>6. Outcomes' = [Outcomes EXCEPT ![s] = Outcome(s)']
    BY <2>4 DEF Outcomes
  <2>7. CASE task[s].row.status \in Settled
    <3>1. Outcome(s)' \in Settled
      BY <2>2, <2>7 DEF Outcome
    <3>2. Ledger!Settle(s)
      BY <2>5, <2>6, <3>1, Mapping
    <3> QED BY <3>2 DEF Ledger!LedgerNext
  <2>8. CASE task[s].row.status \notin Settled
    <3>1. Outcome(s)' = "open"
      BY <2>2, <2>8 DEF Outcome
    <3>2. \A r \in Stocks : Outcome(r)' = Outcome(r)
      BY <2>3, <2>4, <3>1 DEF Outcome
    <3>3. UNCHANGED Outcomes
      BY <3>2 DEF Outcomes
    <3> QED BY <2>5, <3>3, Mapping
  <2> QED BY <2>7, <2>8
<1>4. CASE SaveVerdict
  <2>1. /\ checkpoint'.status = BatchStatus(run.stocks) /\ checkpoint'.stocks = run.stocks
        /\ run.pc = "save" /\ checkpoint.status = "RUNNING"
    BY <1>4 DEF SaveVerdict, Ending
  <2>2. \A s \in Stocks : Outcome(s)' = Outcome(s)
    BY <2>1 DEF Outcome, SettledAlike, Saved
  <2>3. UNCHANGED Outcomes
    BY <2>2 DEF Outcomes
  <2>4. Verdict = "none" /\ Verdict' = BatchStatus(run.stocks)
    BY <2>1, BatchStatusType DEF Verdict, Verdicts
  <2>5. Ledger!Conclude
    BY <2>1, <2>3, <2>4, VerdictJustified, Mapping
  <2> QED BY <2>5 DEF Ledger!LedgerNext
<1>5. CASE WriteLedgers \/ WriteResult \/ Exit \/ Expire \/ Crash \/ UNCHANGED vars
  <2>1. UNCHANGED checkpoint
    BY <1>5 DEF WriteLedgers, WriteResult, Exit, Expire, Crash, vars
  <2> QED BY <2>1, Stutters
<1>6. CASE \E s \in Stocks : Worker(s)
  <2>1. UNCHANGED checkpoint
    BY <1>6, WorkerStep
  <2> QED BY <2>1, Stutters
<1> QED BY <1>1, <1>2, <1>3, <1>4, <1>5, <1>6 DEF Next, Main

\* A batch that has not begun is an empty ledger.
LEMMA InitRefines == ASSUME Init PROVE Ledger!LedgerInit
<1>1. \A s \in Stocks : Saved(s).status = "PENDING"
  BY DEF Init, Fresh, Row, Saved
<1>2. Outcomes = [s \in Stocks |-> "open"] /\ Verdict = "none"
  BY <1>1, Statuses DEF Outcomes, Outcome, Init, Verdict, Verdicts, RESUMABLE
<1> QED BY <1>2, Mapping

\* run_batch, with all its crashes and resumed runs, is a ledger that gives each
\* stock one final outcome and only states verdicts these outcomes justify.
THEOREM Implements == Spec => ImplementsLedger
<1>1. Init => Ledger!LedgerInit
  BY InitRefines
<1>2. IInv /\ [Next]_vars => [Ledger!LedgerNext]_(Ledger!ledgerVars)
  BY StepRefines
<1> QED BY <1>1, <1>2, Invariant, PTL DEF Spec, ImplementsLedger, Ledger!LedgerSpec

=============================================================================
