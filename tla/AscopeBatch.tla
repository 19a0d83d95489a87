------------------------------ MODULE AscopeBatch ------------------------------
(***************************************************************************)
(* A batch job of the web service: AscopeBatchManager of                   *)
(* api/ascope_batches.py with the "run-batch" processes it starts.  The    *)
(* job's state is job.json; a thread of the service starts a process,      *)
(* waits for it and turns its exit code into the job's status.  Requests   *)
(* to cancel and to resume run on server threads.  All of them read        *)
(* job.json, and later write back the whole of what they read.             *)
(*                                                                         *)
(* Jobs share nothing, so this is one job.  Writing job.json is one step.  *)
(* A process is what BatchRun shows of one: it loads the checkpoint, gives *)
(* outcomes to open stocks, saving its own copy of ALL rows each time,     *)
(* and exits with the code its rows justify.  Processes run in a session   *)
(* of their own, so they survive the service that started them.            *)
(***************************************************************************)
EXTENDS Naturals

CONSTANTS
  Stocks,      \* securities of the batch
  Callers,     \* server threads handling requests
  MaxRuns,     \* bound: processes started
  MaxCrashes   \* bound: restarts of the service

ASSUME AscopeBatchAssumption == MaxRuns \in Nat /\ MaxCrashes \in Nat

Procs == 1..MaxRuns

TERMINAL_STATUSES  == {"COMPLETED", "FAILED_RECOVERABLE", "FAILED_TERMINAL", "CANCELLED"}
RETRYABLE_STATUSES == {"FAILED_RECOVERABLE", "CANCELLED"}
ActiveStatuses     == {"PENDING", "RUNNING", "CANCEL_REQUESTED"}

\* job.json: "NONE" before the job is created.
JobStates == [status : TERMINAL_STATUSES \cup ActiveStatuses \cup {"NONE"}, cancel_requested : BOOLEAN]
NoJob == [status |-> "NONE", cancel_requested |-> FALSE]

\* A stock's row: no final outcome yet, TERMINAL_SUCCESS, TERMINAL_FAILURE.
Rows == [Stocks -> {"open", "success", "failure"}]
NoRows == [s \in Stocks |-> "open"]

VARIABLES
  job,         \* job.json
  run,         \* the job's thread: where it is, its copy of the state, its process
  registered,  \* _processes: the process a cancel can reach, or 0
  call,        \* what each server thread is doing, with its copy of the state
  procs,       \* the processes, with their copies of the rows; history: the life
               \* of the service (number of restarts) in which each was started
  checkpoint,  \* rows in checkpoint.json
  asked,       \* history: a cancel was accepted since the job was created or resumed
  boot,        \* the service is starting
  crashes      \* restarts so far (bound)

mem  == <<run, registered, call>>
disk == <<job, checkpoint>>
vars == <<job, run, registered, call, procs, checkpoint, asked, boot, crashes>>

TypeOK ==
  /\ job \in JobStates
  /\ run \in [pc : {"none", "begin", "mark", "spawn", "register", "pid", "wait", "finish", "pop"},
              st : JobStates, proc : Procs \cup {0}]
  /\ registered \in Procs \cup {0}
  /\ call \in [Callers -> [pc : {"idle", "create", "cancel", "signal", "resume", "start"}, st : JobStates]]
  /\ procs \in [Procs -> [pc : {"new", "load", "work", "done", "exited"}, rows : Rows,
                          code : {"none", "0", "1", "2", "signal"}, life : Nat]]
  /\ checkpoint \in Rows
  /\ asked \in BOOLEAN /\ boot \in BOOLEAN
  /\ crashes \in Nat

NoRun  == [pc |-> "none", st |-> NoJob, proc |-> 0]
NoCall == [pc |-> "idle", st |-> NoJob]

Init ==
  /\ job = NoJob
  /\ run = NoRun
  /\ registered = 0
  /\ call = [c \in Callers |-> NoCall]
  /\ procs = [p \in Procs |-> [pc |-> "new", rows |-> NoRows, code |-> "none", life |-> 0]]
  /\ checkpoint = NoRows
  /\ asked = FALSE /\ boot = FALSE
  /\ crashes = 0

Alive(p) == procs[p].pc \in {"load", "work", "done"}

----------------------------------------------------------------------------
(* Requests.                                                               *)

Goto(c, pc, st) == call' = [call EXCEPT ![c] = [pc |-> pc, st |-> st]]
Idle(c) == ~boot /\ call[c].pc = "idle"

Create(c) ==
  /\ Idle(c)
  /\ job = NoJob /\ \A d \in Callers : call[d].pc = "idle"
  /\ Goto(c, "create", [status |-> "PENDING", cancel_requested |-> FALSE])
  /\ UNCHANGED <<disk, run, registered, procs, asked, boot, crashes>>

\* cancel reads the state; a terminal job is refused.
CancelRead(c) ==
  /\ Idle(c)
  /\ job.status \in ActiveStatuses
  /\ Goto(c, "cancel", [status |-> "CANCEL_REQUESTED", cancel_requested |-> TRUE])
  /\ UNCHANGED <<disk, run, registered, procs, asked, boot, crashes>>

CancelWrite(c) ==
  /\ call[c].pc = "cancel"
  /\ job' = call[c].st
  /\ asked' = TRUE
  /\ Goto(c, "signal", call[c].st)
  /\ UNCHANGED <<checkpoint, run, registered, procs, boot, crashes>>

\* The registered process, if it still runs, gets a SIGTERM.
CancelSignal(c) ==
  /\ call[c].pc = "signal"
  /\ IF registered # 0 /\ Alive(registered)
     THEN procs' = [procs EXCEPT ![registered].pc = "exited", ![registered].code = "signal"]
     ELSE UNCHANGED procs
  /\ Goto(c, "idle", NoJob)
  /\ UNCHANGED <<disk, run, registered, asked, boot, crashes>>

ResumeRead(c) ==
  /\ Idle(c)
  /\ job.status \in RETRYABLE_STATUSES
  /\ Goto(c, "resume", [status |-> "PENDING", cancel_requested |-> FALSE])
  /\ UNCHANGED <<disk, run, registered, procs, asked, boot, crashes>>

\* create and resume write PENDING ...
PendingWrite(c) ==
  /\ call[c].pc \in {"create", "resume"}
  /\ job' = call[c].st
  /\ asked' = FALSE
  /\ Goto(c, "start", call[c].st)
  /\ UNCHANGED <<checkpoint, run, registered, procs, boot, crashes>>

\* (Variant: _start does not ask whether the job has a thread.)
StartThreadAnyway(c) ==
  /\ call[c].pc = "start"
  /\ run' = [NoRun EXCEPT !.pc = "begin"]
  /\ Goto(c, "idle", NoJob)
  /\ UNCHANGED <<disk, registered, procs, asked, boot, crashes>>

\* ... and then start a thread, or raise when the job still has one (_start).
StartThread(c) ==
  /\ call[c].pc = "start"
  /\ IF run.pc = "none" THEN run' = [NoRun EXCEPT !.pc = "begin"] ELSE UNCHANGED run
  /\ Goto(c, "idle", NoJob)
  /\ UNCHANGED <<disk, registered, procs, asked, boot, crashes>>

----------------------------------------------------------------------------
(* _run_job, the job's thread.                                             *)

RunRead ==
  /\ run.pc = "begin"
  /\ run' = [run EXCEPT !.pc = "mark", !.st = [status |-> "RUNNING", cancel_requested |-> FALSE]]
  /\ UNCHANGED <<disk, registered, call, procs, asked, boot, crashes>>

\* RUNNING is written before the process is started and again, with its pid,
\* after it is registered; both write the copy read in the beginning.
RunWrite ==
  /\ run.pc \in {"mark", "pid"}
  /\ job' = run.st
  /\ run' = [run EXCEPT !.pc = IF @ = "mark" THEN "spawn" ELSE "wait"]
  /\ UNCHANGED <<checkpoint, registered, call, procs, asked, boot, crashes>>

\* Popen starts a process, or raises.
Spawn ==
  /\ run.pc = "spawn"
  /\ \/ \E p \in Procs :
          /\ procs[p].pc = "new" /\ \A q \in Procs : procs[q].pc = "new" => p <= q
          /\ procs' = [procs EXCEPT ![p].pc = "load", ![p].life = crashes]
          /\ run' = [run EXCEPT !.pc = "register", !.proc = p]
     \/ /\ run' = [run EXCEPT !.pc = "finish", !.st = [job EXCEPT !.status = "FAILED_TERMINAL"]]
        /\ UNCHANGED procs
  /\ UNCHANGED <<disk, registered, call, asked, boot, crashes>>

Register ==
  /\ run.pc = "register"
  /\ registered' = run.proc
  /\ run' = [run EXCEPT !.pc = "pid"]
  /\ UNCHANGED <<disk, call, procs, asked, boot, crashes>>

\* (Variant: a partial result counts as done.)
FinalStatusPartial(st, code) ==
  IF st.cancel_requested THEN "CANCELLED"
  ELSE IF code \in {"0", "2"} THEN "COMPLETED" ELSE "FAILED_TERMINAL"

FinalStatus(st, code) ==
  IF st.cancel_requested THEN "CANCELLED"
  ELSE IF code = "0" THEN "COMPLETED"
  ELSE IF code = "2" THEN "FAILED_RECOVERABLE" ELSE "FAILED_TERMINAL"

\* The process has ended: the state is read again and its status decided.
RunEnded ==
  /\ run.pc = "wait" /\ procs[run.proc].pc = "exited"
  /\ run' = [run EXCEPT !.pc = "finish",
                        !.st = [job EXCEPT !.status = FinalStatus(job, procs[run.proc].code)]]
  /\ UNCHANGED <<disk, registered, call, procs, asked, boot, crashes>>

RunFinish ==
  /\ run.pc = "finish"
  /\ job' = run.st
  /\ run' = [run EXCEPT !.pc = "pop"]
  /\ UNCHANGED <<checkpoint, registered, call, procs, asked, boot, crashes>>

\* (Variant: the thread stays in _threads.)
RunPopUnlisted ==
  /\ run.pc = "pop"
  /\ registered' = 0
  /\ UNCHANGED <<disk, run, call, procs, asked, boot, crashes>>

\* The "finally": thread and process are forgotten.
RunPop ==
  /\ run.pc = "pop"
  /\ registered' = 0
  /\ run' = NoRun
  /\ UNCHANGED <<disk, call, procs, asked, boot, crashes>>

Thread == RunRead \/ RunWrite \/ Spawn \/ Register \/ RunEnded \/ RunFinish \/ RunPop

----------------------------------------------------------------------------
(* A run-batch process (BatchRun in outline).                              *)

\* The checkpoint is read (and saved as RUNNING).
Load(p) ==
  /\ procs[p].pc = "load"
  /\ procs' = [procs EXCEPT ![p].pc = "work", ![p].rows = checkpoint]
  /\ UNCHANGED <<disk, mem, asked, boot, crashes>>

\* A stock is claimed or its result collected; the process saves all its rows.
Settle(p, s) ==
  /\ procs[p].pc = "work" /\ procs[p].rows[s] = "open"
  /\ \E o \in {"open", "success", "failure"} : procs' = [procs EXCEPT ![p].rows[s] = o]
  /\ checkpoint' = procs'[p].rows
  /\ UNCHANGED <<job, mem, asked, boot, crashes>>

\* The last save.
Conclude(p) ==
  /\ procs[p].pc = "work"
  /\ checkpoint' = procs[p].rows
  /\ procs' = [procs EXCEPT ![p].pc = "done"]
  /\ UNCHANGED <<job, mem, asked, boot, crashes>>

ExitCode(rows) ==
  IF \A s \in Stocks : rows[s] = "success" THEN "0"
  ELSE IF \E s \in Stocks : rows[s] = "failure" THEN "1" ELSE "2"

\* It exits; or it raises, at any time: while reducing, or printing a line for
\* a service that is no longer there.
ExitProc(p) ==
  /\ Alive(p)
  /\ \E code \in {"1"} \cup (IF procs[p].pc = "done" THEN {ExitCode(procs[p].rows)} ELSE {}) :
       procs' = [procs EXCEPT ![p].pc = "exited", ![p].code = code]
  /\ UNCHANGED <<disk, mem, asked, boot, crashes>>

----------------------------------------------------------------------------
(* The service dies and starts again.                                      *)

Crash ==
  /\ crashes < MaxCrashes
  /\ crashes' = crashes + 1
  /\ run' = NoRun /\ registered' = 0 /\ call' = [c \in Callers |-> NoCall]
  /\ boot' = TRUE
  /\ UNCHANGED <<disk, procs, asked>>

\* _recover_interrupted
Recover ==
  /\ boot /\ boot' = FALSE
  /\ job' = IF job.status \in ActiveStatuses
            THEN [job EXCEPT !.status = "FAILED_RECOVERABLE"] ELSE job
  /\ UNCHANGED <<mem, checkpoint, procs, asked, crashes>>

----------------------------------------------------------------------------
Request(c) == Create(c) \/ CancelRead(c) \/ ResumeRead(c)
Answer(c)  == CancelWrite(c) \/ CancelSignal(c) \/ PendingWrite(c) \/ StartThread(c)
Process(p) == Load(p) \/ (\E s \in Stocks : Settle(p, s)) \/ Conclude(p) \/ ExitProc(p)

Next ==
  \/ \E c \in Callers : Request(c) \/ Answer(c)
  \/ Thread
  \/ \E p \in Procs : Process(p)
  \/ Crash \/ Recover

Spec == Init /\ [][Next]_vars

\* Threads keep running and every process ends (RunEnds of BatchRun).
FairSpec == Spec /\ WF_vars(Thread) /\ \A c \in Callers : WF_vars(Answer(c))
                 /\ \A p \in Procs : WF_vars(Conclude(p)) /\ WF_vars(Load(p)) /\ WF_vars(ExitProc(p))

----------------------------------------------------------------------------
(* Properties *)

\* "Cancellation stops new work but preserves completed outputs": in one life of
\* the service the outcome of a stock, once in the checkpoint, stays there over
\* any number of cancels and resumes.
OutcomesKeptInLife ==
  [][crashes' = 0 => \A s \in Stocks : checkpoint[s] # "open" => checkpoint'[s] = checkpoint[s]]_vars

\* The same over restarts of the service, with which the persisted job state and
\* checkpoint are said to cope.
OutcomesKept ==
  [][\A s \in Stocks : checkpoint[s] # "open" => checkpoint'[s] = checkpoint[s]]_vars

\* A job that reads COMPLETED in that life has every stock processed with success.
CompletedMeansDone ==
  crashes = 0 /\ job.status = "COMPLETED" => \A s \in Stocks : checkpoint[s] = "success"

Resting == run.pc = "none" /\ ~boot /\ \A c \in Callers : call[c].pc = "idle"

\* One life of the service never has two processes work on the job's output at
\* once, however requests to cancel and resume interleave with the job's thread.
OneProcessPerLife ==
  \A p, q \in Procs : Alive(p) /\ Alive(q) /\ procs[p].life = procs[q].life => p = q

\* A job whose process was stopped by a cancel ends as CANCELLED.
CancelHonoured ==
  asked /\ Resting /\ (\E p \in Procs : procs[p].code = "signal" /\ ~(\E q \in Procs : q > p /\ procs[q].pc # "new"))
    => job.status = "CANCELLED"

\* A job that nothing works on shows how it ended, so that it can be resumed.  (Refuted: a
\* resume between the last write of the thread and its end leaves PENDING, a cancel there
\* CANCEL_REQUESTED, until the service starts again.)
EndIsShown == Resting => job.status \notin ActiveStatuses

\* The job's thread comes to an end, whatever its process does and however it was cancelled.
JobEnds == run.pc # "none" ~> run.pc = "none"
=============================================================================
