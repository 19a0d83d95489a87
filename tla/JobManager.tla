------------------------------ MODULE JobManager ------------------------------
(***************************************************************************)
(* The task centre of the service: JobManager of api/jobs.py as overridden *)
(* by api/jobs_v2.py.  It keeps one row per job in SQLite, the file        *)
(* latest.json of each stock (the "pointer" that search, TTM and formulas  *)
(* read), the run directory of each job, and in memory the set of jobs     *)
(* that are executing and the cancel events.  API requests run on server   *)
(* threads, runs and retries on a thread pool; each of them works on its   *)
(* own in-memory copy of the job's state and writes the WHOLE row back.    *)
(*                                                                         *)
(* Every SQLite transaction, file operation and lock region is one atomic  *)
(* step; everything between two of them may interleave.  The interfaces    *)
(* of a job are abstracted to what the status logic tells apart, Counts.   *)
(***************************************************************************)
EXTENDS Naturals, FiniteSets

CONSTANTS
  Jobs,        \* job ids, each handed out once
  Stocks,      \* stock codes
  StockOf,     \* the stock each job collects
  Managers,    \* JobManager objects that share the database and data directory
  Callers,     \* server threads handling API requests
  Main,        \* the thread that constructs the manager at start-up
  None,        \* no pointer file, no job, no manager
  PoolSize,    \* threads of a manager's pool
  MaxCalls,    \* bound: API requests in a behaviour
  MaxCrashes   \* bound: process deaths in a behaviour

Tasks   == Managers \X Jobs      \* pool tasks: at most one per manager and job
Threads == Callers \cup Tasks \cup {Main}

ASSUME JobManagerAssumption ==
  /\ StockOf \in [Jobs -> Stocks]
  /\ None \notin Jobs
  /\ Callers \cap Tasks = {}
  /\ Main \notin Callers \cup Tasks
  /\ PoolSize \in Nat \ {0}
  /\ MaxCalls \in Nat
  /\ MaxCrashes \in Nat

ActiveStatuses == {"PENDING", "RUNNING", "RETRYING", "DELETING"}
RestStatuses   == {"PARTIAL", "COMPLETED", "FAILED", "CANCELLED", "DELETE_FAILED"}

\* The counters (completed, failed) of a job's groups: nothing done; some done
\* and none failed; some failed; all done and none failed.
Counts == {"empty", "gaps", "failures", "complete"}

\* A JobState, in the database or in a thread's memory.
States == [status : ActiveStatuses \cup RestStatuses \cup {"ABSENT"},
           groups : Counts, current : BOOLEAN]
Absent == [status |-> "ABSENT", groups |-> "empty", current |-> FALSE]

\* A thread's call: the operation, where it is, its manager, job and stock, its
\* copy of the job's state, and the job it is making current with its state.
Ops == {"none", "create", "view", "retry", "set", "delete", "latest", "run", "boot"}
Pcs == {"idle", "saved", "read", "synced", "locked", "marked", "gone",
        "queued", "fetch", "fetched", "resync", "export",
        "select", "unflag", "unlink", "file", "clear", "mark", "final", "release"}
Frames == [op : Ops, pc : Pcs, mgr : Managers \cup {None}, job : Jobs \cup {None},
           stock : Stocks \cup {None}, st : States, pick : Jobs \cup {None}, ps : States]
Idle == [op |-> "none", pc |-> "idle", mgr |-> None, job |-> None, stock |-> None,
         st |-> Absent, pick |-> None, ps |-> Absent]

VARIABLES
  rows,      \* table jobs: the saved state of each job
  groups,    \* table job_groups: the counts of each job's rows
  pointer,   \* latest.json of each stock: the job it names
  dirs,      \* jobs whose run directory exists
  born,      \* job ids handed out so far
  active,    \* _active_jobs of each manager
  events,    \* cancel_events of each manager
  fr,        \* what each thread is doing
  boot,      \* start-up repair still to do: jobs, then stocks
  budget     \* calls and crashes so far (bounds)

db   == <<rows, groups>>
disk == <<pointer, dirs>>
mem  == <<active, events>>
vars == <<rows, groups, pointer, dirs, born, active, events, fr, boot, budget>>

TypeOK ==
  /\ rows \in [Jobs -> States]
  /\ groups \in [Jobs -> Counts]
  /\ pointer \in [Stocks -> Jobs \cup {None}]
  /\ dirs \in SUBSET Jobs
  /\ born \in SUBSET Jobs
  /\ active \in [Managers -> SUBSET Jobs]
  /\ events \in [Managers -> [Jobs -> {"none", "clear", "set"}]]
  /\ fr \in [Threads -> Frames]
  /\ boot \in [jobs : SUBSET Jobs, stocks : SUBSET Stocks]
  /\ budget \in [calls : Nat, crashes : Nat]

Init ==
  /\ rows = [j \in Jobs |-> Absent]
  /\ groups = [j \in Jobs |-> "empty"]
  /\ pointer = [s \in Stocks |-> None]
  /\ dirs = {}
  /\ born = {}
  /\ active = [m \in Managers |-> {}]
  /\ events = [m \in Managers |-> [j \in Jobs |-> "none"]]
  /\ fr = [t \in Threads |-> Idle]
  /\ boot = [jobs |-> {}, stocks |-> {}]
  /\ budget = [calls |-> 0, crashes |-> 0]

----------------------------------------------------------------------------
(* Helpers *)

Present(j) == rows[j].status # "ABSENT"

\* _state_from_row: a COMPLETED row that counts failures is read as PARTIAL.
Loaded(j) == IF rows[j].status = "COMPLETED" /\ rows[j].groups = "failures"
             THEN [rows[j] EXCEPT !.status = "PARTIAL"]
             ELSE rows[j]

\* _save: the whole row is replaced, or inserted when it is not there.
Save(j, st) == rows' = [rows EXCEPT ![j] = st]

\* The condition for being a current version without allow_partial.
Whole(st) == st.status = "COMPLETED" /\ st.groups = "complete"

\* (Variant: a status the rest of the code does not know.)
UnfinishedUnlisted(st) == IF st.groups = "empty" THEN "FAILED" ELSE "INTERRUPTED"

Unfinished(st) == IF st.groups = "empty" THEN "FAILED" ELSE "PARTIAL"

Goto(t, f) == fr' = [fr EXCEPT ![t] = f]
At(t, pc)  == [fr[t] EXCEPT !.pc = pc]

Serving == boot.jobs = {} /\ boot.stocks = {} /\ fr[Main].pc = "idle"

\* The manager's pool runs at most PoolSize tasks at a time.
HasSlot(m) == Cardinality({j \in Jobs : fr[<<m, j>>].pc \notin {"idle", "queued"}}) < PoolSize

\* A new API request, handled by an idle server thread.
Call(c) == /\ Serving
           /\ fr[c].pc = "idle"
           /\ budget.calls < MaxCalls
           /\ budget' = [budget EXCEPT !.calls = @ + 1]
           /\ UNCHANGED boot

Frame(op, pc, m, j, st) ==
  [Idle EXCEPT !.op = op, !.pc = pc, !.mgr = m, !.job = j, !.stock = StockOf[j], !.st = st]

----------------------------------------------------------------------------
(* create, rerun: insert the PENDING row, then register and submit the run. *)

Create(c, m, j) ==
  LET st == [status |-> "PENDING", groups |-> "empty", current |-> FALSE] IN
  /\ Call(c)
  /\ j \notin born
  /\ born' = born \cup {j}
  /\ Save(j, st)
  /\ Goto(c, Frame("create", "saved", m, j, st))
  /\ UNCHANGED <<groups, disk, mem>>

\* One step: _initialize_group_rows, the cancel event, the active set and
\* pool.submit; no other thread can tell them apart.
CreateSubmit(c) ==
  LET f == fr[c] IN
  /\ f.op = "create" /\ f.pc = "saved"
  /\ active' = [active EXCEPT ![f.mgr] = @ \cup {f.job}]
  /\ events' = [events EXCEPT ![f.mgr][f.job] = "clear"]
  /\ fr' = [fr EXCEPT ![c] = Idle,
                      ![<<f.mgr, f.job>>] = Frame("run", "queued", f.mgr, f.job, f.st)]
  /\ UNCHANGED <<db, disk, born, boot, budget>>

----------------------------------------------------------------------------
(* _run: the pool task of a new job. *)

RunStart(t) ==
  LET f == fr[t]
      st == [f.st EXCEPT !.status = "RUNNING"] IN
  /\ f.op = "run" /\ f.pc = "queued"
  /\ HasSlot(f.mgr)
  /\ Save(f.job, st)
  /\ dirs' = dirs \cup {f.job}
  /\ Goto(t, [f EXCEPT !.pc = "fetch", !.st = st])
  /\ UNCHANGED <<groups, pointer, born, mem, boot, budget>>

\* What the counts may become while a first run works through the groups.
Later(g) == IF g = "empty" THEN {"gaps", "failures", "complete"}
            ELSE IF g = "gaps" THEN {"failures", "complete"} ELSE {}

\* _progress_handler: a group finished; its row and the counted job row are saved.
RunProgress(t) ==
  LET f == fr[t] IN
  /\ f.op = "run" /\ f.pc = "fetch"
  /\ \E g \in Later(groups[f.job]) :
       LET st == [f.st EXCEPT !.groups = g] IN
       /\ groups' = [groups EXCEPT ![f.job] = g]
       /\ Save(f.job, st)
       /\ Goto(t, [f EXCEPT !.st = st])
  /\ UNCHANGED <<disk, born, mem, boot, budget>>

\* (Variant: the event is never looked at.)
NeverCancelled(t) == FALSE

Cancelled(t) == events[fr[t].mgr][fr[t].job] = "set"

\* pipeline.run returned and the group files are counted.  Without a cancel it
\* returns only when every group has a verdict.
RunReturn(t) ==
  LET f == fr[t]
      st == [f.st EXCEPT !.groups = groups[f.job]] IN
  /\ f.op = "run" /\ f.pc = "fetch"
  /\ \/ /\ Cancelled(t)
        /\ Goto(t, [f EXCEPT !.pc = "final", !.st = [st EXCEPT !.status = "CANCELLED"]])
        /\ UNCHANGED rows
     \/ /\ ~Cancelled(t)
        /\ groups[f.job] \in {"failures", "complete"}
        /\ Save(f.job, st)
        /\ Goto(t, [f EXCEPT !.pc = "export", !.st = st])
  /\ UNCHANGED <<groups, disk, born, mem, boot, budget>>

\* build_exports returned.
RunExported(t) ==
  LET f == fr[t] IN
  /\ f.op = "run" /\ f.pc = "export"
  /\ IF f.st.groups = "complete"
     THEN LET st == [f.st EXCEPT !.status = "COMPLETED"] IN
          Goto(t, [f EXCEPT !.pc = "file", !.st = st, !.pick = f.job, !.ps = st])
     ELSE Goto(t, [f EXCEPT !.pc = "final", !.st.status = "PARTIAL"])
  /\ UNCHANGED <<db, disk, born, mem, boot, budget>>

\* pipeline.run or build_exports raised.
RunRaise(t) ==
  LET f == fr[t] IN
  /\ f.op = "run" /\ f.pc \in {"fetch", "export"}
  /\ Goto(t, [f EXCEPT !.pc = "final", !.st.status = "FAILED"])
  /\ UNCHANGED <<db, disk, born, mem, boot, budget>>

----------------------------------------------------------------------------
(* The "finally" of _run, _run_retry and delete. *)

\* (Variant: the last status is not written back.)
FinalUnsaved(t) ==
  /\ fr[t].pc = "final"
  /\ Goto(t, At(t, "release"))
  /\ UNCHANGED <<db, disk, born, mem, boot, budget>>

\* (Variant: the job is left in the active set.)
FinalUnreleased(t) ==
  /\ fr[t].pc = "final"
  /\ Save(fr[t].job, fr[t].st)
  /\ Goto(t, Idle)
  /\ UNCHANGED <<groups, disk, born, mem, boot, budget>>

Final(t) ==
  LET f == fr[t] IN
  /\ f.pc = "final"
  /\ Save(f.job, f.st)
  /\ Goto(t, At(t, "release"))
  /\ UNCHANGED <<groups, disk, born, mem, boot, budget>>

Release(t) ==
  LET f == fr[t] IN
  /\ f.pc = "release"
  /\ active' = [active EXCEPT ![f.mgr] = @ \ {f.job}]
  /\ events' = IF f.op = "run" THEN [events EXCEPT ![f.mgr][f.job] = "none"] ELSE events
  /\ Goto(t, Idle)
  /\ UNCHANGED <<db, disk, born, boot, budget>>

----------------------------------------------------------------------------
(* _set_current_pointer and _select_fallback_current, called by runs,      *)
(* retries, set_current, delete, latest and the start-up repair.           *)

\* The caller continues: a run or retry takes over is_current, the others end.
Promoted(f) ==
  IF f.op \in {"run", "retry"}
  THEN [f EXCEPT !.pc = "final", !.st.current = (f.pick = f.job)]
  ELSE IF f.op = "delete" THEN [f EXCEPT !.pc = "release"] ELSE Idle

\* _write_pointer_file replaces latest.json.
PtrFile(t) ==
  /\ fr[t].pc = "file"
  /\ pointer' = [pointer EXCEPT ![fr[t].stock] = fr[t].pick]
  /\ Goto(t, At(t, "clear"))
  /\ UNCHANGED <<db, dirs, born, mem, boot, budget>>

\* One transaction: is_current=0 for the stock, is_current=1 for the job.
PtrClear(t) ==
  /\ fr[t].pc = "clear"
  /\ rows' = [j \in Jobs |-> IF StockOf[j] = fr[t].stock /\ Present(j)
                             THEN [rows[j] EXCEPT !.current = (j = fr[t].pick)]
                             ELSE rows[j]]
  /\ Goto(t, At(t, "mark"))
  /\ UNCHANGED <<groups, disk, born, mem, boot, budget>>

\* state.is_current = True and _save(state).
PtrMark(t) ==
  LET f == fr[t] IN
  /\ f.pc = "mark"
  /\ Save(f.pick, [f.ps EXCEPT !.current = TRUE])
  /\ Goto(t, Promoted(f))
  /\ UNCHANGED <<groups, disk, born, mem, boot, budget>>

\* Any whole job of the stock but the excluded one (the code takes the newest).
FallbackSelect(t) ==
  LET f == fr[t]
      whole == {j \in Jobs : StockOf[j] = f.stock /\ j # f.job /\ Whole(rows[j])} IN
  /\ f.pc = "select"
  /\ \/ \E j \in whole : Goto(t, [f EXCEPT !.pc = "unflag", !.pick = j, !.ps = rows[j]])
     \/ whole = {} /\ Goto(t, [f EXCEPT !.pc = "unflag", !.pick = None])
  /\ UNCHANGED <<db, disk, born, mem, boot, budget>>

\* The SELECT opens no transaction: the flags are cleared in one of its own.
FallbackUnflag(t) ==
  LET f == fr[t] IN
  /\ f.pc = "unflag"
  /\ rows' = [j \in Jobs |-> IF StockOf[j] = f.stock /\ Present(j)
                             THEN [rows[j] EXCEPT !.current = FALSE] ELSE rows[j]]
  /\ Goto(t, At(t, IF f.pick = None THEN "unlink" ELSE "file"))
  /\ UNCHANGED <<groups, disk, born, mem, boot, budget>>

\* No whole job: latest.json is removed.
FallbackUnlink(t) ==
  /\ fr[t].pc = "unlink"
  /\ pointer' = [pointer EXCEPT ![fr[t].stock] = None]
  /\ Goto(t, Promoted(fr[t]))
  /\ UNCHANGED <<db, dirs, born, mem, boot, budget>>

----------------------------------------------------------------------------
(* retry_group, retry_failed: _schedule_retry and the pool task _run_retry. *)

RetryRead(c, m, j) ==
  /\ Call(c)
  /\ Present(j)
  /\ Goto(c, Frame("retry", "read", m, j, Loaded(j)))
  /\ UNCHANGED <<db, disk, born, mem>>

\* (Variant: only the status decides, not the active set.)
BusyByStatus(f) == f.st.status \in ActiveStatuses

\* The lock region of _schedule_retry and delete: the active set is read now,
\* the status is the one read before.
Busy(f) == f.job \in active[f.mgr] \/ f.st.status \in ActiveStatuses

Lock(c) ==
  LET f == fr[c] IN
  /\ f.op \in {"retry", "delete"} /\ f.pc = "read"
  /\ \/ Busy(f) /\ Goto(c, Idle) /\ UNCHANGED active
     \/ /\ ~Busy(f)
        /\ active' = [active EXCEPT ![f.mgr] = @ \cup {f.job}]
        /\ Goto(c, At(c, "locked"))
  /\ UNCHANGED <<db, disk, born, events, boot, budget>>

RetrySubmit(c) ==
  LET f == fr[c]
      st == [f.st EXCEPT !.status = "RETRYING"] IN
  /\ f.op = "retry" /\ f.pc = "locked"
  /\ Save(f.job, st)
  /\ fr' = [fr EXCEPT ![c] = Idle,
                      ![<<f.mgr, f.job>>] = Frame("retry", "queued", f.mgr, f.job, st)]
  /\ UNCHANGED <<groups, disk, born, mem, boot, budget>>

\* A task that finds no row returns before its try block: the job stays active.
RetryStart(t) ==
  LET f == fr[t] IN
  /\ f.op = "retry" /\ f.pc = "queued"
  /\ HasSlot(f.mgr)
  /\ IF Present(f.job)
     THEN /\ Goto(t, [f EXCEPT !.pc = "fetch", !.st = Loaded(f.job)])
          /\ dirs' = dirs \cup {f.job}
     ELSE Goto(t, Idle) /\ UNCHANGED dirs
  /\ UNCHANGED <<db, pointer, born, mem, boot, budget>>

\* What re-fetching one or more groups may make of the counts.
Refetched(g) == IF g = "complete" THEN {"failures", "complete"}
                ELSE {"gaps", "failures", "complete"}

\* _retry_one_group for each group: only the group rows and files change.
RetryFetch(t) ==
  LET f == fr[t] IN
  /\ f.op = "retry" /\ f.pc = "fetch"
  /\ Present(f.job)
  /\ \E g \in Refetched(groups[f.job]) : groups' = [groups EXCEPT ![f.job] = g]
  /\ Goto(t, At(t, "fetched"))
  /\ UNCHANGED <<rows, disk, born, mem, boot, budget>>

\* The state is read again and counted ...
RetrySync(t) ==
  LET f == fr[t] IN
  /\ f.op = "retry" /\ f.pc = "fetched"
  /\ Present(f.job)
  /\ Goto(t, [f EXCEPT !.pc = "resync", !.st = [Loaded(f.job) EXCEPT !.groups = groups[f.job]]])
  /\ UNCHANGED <<db, disk, born, mem, boot, budget>>

\* ... and saved before the exports are rebuilt.
RetrySave(t) ==
  LET f == fr[t] IN
  /\ f.op = "retry" /\ f.pc = "resync"
  /\ Save(f.job, f.st)
  /\ Goto(t, At(t, "export"))
  /\ UNCHANGED <<groups, disk, born, mem, boot, budget>>

RetryExported(t) ==
  LET f == fr[t] IN
  /\ f.op = "retry" /\ f.pc = "export"
  /\ IF f.st.groups = "complete"
     THEN LET st == [f.st EXCEPT !.status = "COMPLETED"] IN
          Goto(t, [f EXCEPT !.pc = "file", !.st = st, !.pick = f.job, !.ps = st])
     ELSE Goto(t, [f EXCEPT !.pc = IF f.st.current THEN "select" ELSE "final",
                            !.st.status = "PARTIAL"])
  /\ UNCHANGED <<db, disk, born, mem, boot, budget>>

\* build_exports raised, or a group row was refused because the job row is gone.
RetryRaise(t) ==
  LET f == fr[t]
      st == IF Present(f.job) THEN Loaded(f.job) ELSE f.st IN
  /\ f.op = "retry"
  /\ \/ f.pc \in {"fetch", "fetched"} /\ ~Present(f.job)
     \/ f.pc = "export"
  /\ Goto(t, [f EXCEPT !.pc = "final", !.st = [st EXCEPT !.status = Unfinished(st)]])
  /\ UNCHANGED <<db, disk, born, mem, boot, budget>>

----------------------------------------------------------------------------
(* delete: lock check, DELETING, directory, rows, and a new current job.   *)

DeleteRead(c, m, j) ==
  /\ Call(c)
  /\ Present(j)
  /\ Goto(c, Frame("delete", "read", m, j, Loaded(j)))
  /\ UNCHANGED <<db, disk, born, mem>>

DeleteMark(c) ==
  LET f == fr[c]
      st == [f.st EXCEPT !.status = "DELETING"] IN
  /\ f.op = "delete" /\ f.pc = "locked"
  /\ Save(f.job, st)
  /\ Goto(c, [f EXCEPT !.pc = "marked", !.st = st])
  /\ UNCHANGED <<groups, disk, born, mem, boot, budget>>

DeleteFiles(c) ==
  LET f == fr[c] IN
  /\ f.op = "delete" /\ f.pc = "marked"
  /\ \/ dirs' = dirs \ {f.job} /\ Goto(c, At(c, "gone"))
     \/ /\ Goto(c, [f EXCEPT !.pc = "final", !.st.status = "DELETE_FAILED"])
        /\ UNCHANGED dirs
  /\ UNCHANGED <<db, pointer, born, mem, boot, budget>>

DeleteRows(c) ==
  LET f == fr[c] IN
  /\ f.op = "delete" /\ f.pc = "gone"
  /\ Save(f.job, Absent)
  /\ groups' = [groups EXCEPT ![f.job] = "empty"]
  /\ events' = [events EXCEPT ![f.mgr][f.job] = "none"]
  /\ Goto(c, At(c, IF f.st.current THEN "select" ELSE "release"))
  /\ UNCHANGED <<disk, born, active, boot, budget>>

----------------------------------------------------------------------------
(* The other requests. *)

\* set_current reads the row and checks the copy before anything is written.
SetCurrent(c, m, j, allow_partial) ==
  LET st == Loaded(j) IN
  /\ Call(c)
  /\ Present(j)
  /\ IF allow_partial THEN st.status \in {"COMPLETED", "PARTIAL"} ELSE Whole(st)
  /\ Goto(c, [Frame("set", "file", m, j, st) EXCEPT !.pick = j, !.ps = st])
  /\ UNCHANGED <<db, disk, born, mem>>

\* list_groups, and get for a job whose name is unknown: both save what they
\* read when it is not an active status.
ViewRead(c, m, j) ==
  /\ Call(c)
  /\ Present(j)
  /\ Loaded(j).status \notin ActiveStatuses
  /\ Goto(c, Frame("view", "read", m, j, Loaded(j)))
  /\ UNCHANGED <<db, disk, born, mem>>

\* list_groups counts the groups; it fails when the job row is gone.
ViewSync(c) ==
  LET f == fr[c] IN
  /\ f.op = "view" /\ f.pc = "read"
  /\ Goto(c, IF Present(f.job) THEN [f EXCEPT !.pc = "synced", !.st.groups = groups[f.job]]
                               ELSE Idle)
  /\ UNCHANGED <<db, disk, born, mem, boot, budget>>

ViewSave(c) ==
  LET f == fr[c] IN
  /\ f.op = "view" /\ f.pc \in {"read", "synced"}
  /\ Save(f.job, f.st)
  /\ Goto(c, Idle)
  /\ UNCHANGED <<groups, disk, born, mem, boot, budget>>

\* cancel: sets the event when this manager has one, else reports no such job.
Cancel(c, m, j) ==
  /\ Call(c)
  /\ events[m][j] # "none"
  /\ events' = [events EXCEPT ![m][j] = "set"]
  /\ UNCHANGED <<db, disk, born, active, fr>>

\* latest: reads the pointer file; without one it selects a current job.
Latest(c, m, s) ==
  /\ Call(c)
  /\ pointer[s] = None
  /\ Goto(c, [Idle EXCEPT !.op = "latest", !.pc = "select", !.mgr = m, !.stock = s])
  /\ UNCHANGED <<db, disk, born, mem>>

----------------------------------------------------------------------------
(* The process dies and is started again: memory is lost, the database and *)
(* the files stay, and __init__ repairs them (_backfill_legacy_jobs).      *)

Crash ==
  /\ budget.crashes < MaxCrashes
  /\ budget' = [budget EXCEPT !.crashes = @ + 1]
  /\ active' = [m \in Managers |-> {}]
  /\ events' = [m \in Managers |-> [j \in Jobs |-> "none"]]
  /\ fr' = [t \in Threads |-> Idle]
  /\ boot' = [jobs |-> {j \in Jobs : Present(j)},
              stocks |-> {StockOf[j] : j \in {k \in Jobs : Present(k)}}]
  /\ UNCHANGED <<db, disk, born>>

\* The state a row is repaired to: an active status has lost its thread, and a
\* COMPLETED that the counted groups contradict is withdrawn.
Repaired(j) ==
  LET st == Loaded(j)
      status == IF st.status \in ActiveStatuses THEN Unfinished(st) ELSE st.status
      counted == [st EXCEPT !.status = status, !.groups = groups[j]] IN
  IF status = "COMPLETED" /\ groups[j] # "complete"
  THEN [counted EXCEPT !.status = Unfinished(counted)] ELSE counted

BootRow(j) ==
  /\ j \in boot.jobs
  /\ Save(j, Repaired(j))
  /\ boot' = [boot EXCEPT !.jobs = @ \ {j}]
  /\ UNCHANGED <<groups, disk, born, mem, fr, budget>>

\* (Variant: any job the pointer names is kept.)
BootStockUnchecked(s) ==
  LET j == pointer[s] IN
  /\ boot.jobs = {} /\ s \in boot.stocks
  /\ fr[Main].pc = "idle"
  /\ boot' = [boot EXCEPT !.stocks = @ \ {s}]
  /\ IF j # None /\ Present(j)
     THEN Goto(Main, [Idle EXCEPT !.op = "boot", !.pc = "file", !.stock = s,
                                  !.pick = j, !.ps = Loaded(j)])
     ELSE Goto(Main, [Idle EXCEPT !.op = "boot", !.pc = "select", !.stock = s])
  /\ UNCHANGED <<db, disk, born, mem, budget>>

\* _reconcile_current_pointer: keep the pointer's job if it is whole, else fall back.
BootStock(s) ==
  LET j == pointer[s] IN
  /\ boot.jobs = {} /\ s \in boot.stocks
  /\ fr[Main].pc = "idle"
  /\ boot' = [boot EXCEPT !.stocks = @ \ {s}]
  /\ IF j # None /\ Present(j) /\ Whole(Loaded(j))
     THEN Goto(Main, [Idle EXCEPT !.op = "boot", !.pc = "file", !.stock = s,
                                  !.pick = j, !.ps = Loaded(j)])
     ELSE Goto(Main, [Idle EXCEPT !.op = "boot", !.pc = "select", !.stock = s])
  /\ UNCHANGED <<db, disk, born, mem, budget>>

----------------------------------------------------------------------------
Request(c) ==
  \/ \E m \in Managers, j \in Jobs :
       \/ Create(c, m, j) \/ RetryRead(c, m, j) \/ DeleteRead(c, m, j)
       \/ ViewRead(c, m, j) \/ Cancel(c, m, j)
       \/ \E p \in BOOLEAN : SetCurrent(c, m, j, p)
  \/ \E m \in Managers, s \in Stocks : Latest(c, m, s)

Start(t) == RunStart(t) \/ RetryStart(t)

Step(t) ==
  \/ CreateSubmit(t) \/ Lock(t) \/ RetrySubmit(t) \/ ViewSync(t) \/ ViewSave(t)
  \/ DeleteMark(t) \/ DeleteFiles(t) \/ DeleteRows(t)
  \/ RunProgress(t) \/ RunReturn(t) \/ RunExported(t) \/ RunRaise(t)
  \/ RetryFetch(t) \/ RetrySync(t) \/ RetrySave(t) \/ RetryExported(t) \/ RetryRaise(t)
  \/ PtrFile(t) \/ PtrClear(t) \/ PtrMark(t) \/ FallbackSelect(t) \/ FallbackUnflag(t)
  \/ FallbackUnlink(t)
  \/ Final(t) \/ Release(t)

Boot == (\E j \in Jobs : BootRow(j)) \/ (\E s \in Stocks : BootStock(s))

\* Nothing is being done: the service waits for a request.
Rest == Serving /\ (\A t \in Threads : fr[t].pc = "idle") /\ UNCHANGED vars

Next ==
  \/ \E c \in Callers : Request(c)
  \/ \E t \in Threads : Start(t) \/ Step(t)
  \/ Boot
  \/ Crash
  \/ Rest

\* Every thread keeps running (network calls and SQLite waits time out), the
\* start-up repair finishes, and a queued task gets a pool thread: the queue
\* is FIFO, so a task that could start again and again does start.
Fairness ==
  /\ \A t \in Threads : WF_vars(Step(t)) /\ SF_vars(Start(t))
  /\ WF_vars(Boot)

Spec == Init /\ [][Next]_vars
FairSpec == Spec /\ Fairness

----------------------------------------------------------------------------
(* Properties *)

\* A thread is executing its job: a retry or delete past the lock, or a task.
Holds(t) == fr[t].op \in {"run", "retry", "delete"} /\ fr[t].pc \notin {"idle", "read"}

\* Within one manager no two threads ever execute the same job: a run, a retry
\* and a deletion of one job exclude each other although the status they check
\* was read before the lock ("running or retrying jobs cannot be deleted").
ManagerExclusion ==
  \A t, u \in Threads :
    t # u /\ Holds(t) /\ Holds(u) /\ fr[t].mgr = fr[u].mgr => fr[t].job # fr[u].job

\* The same for deletions across all managers of the process: no deletion
\* works on a job that another thread still runs or retries.
DeleteExcluded ==
  \A t, u \in Threads :
    Holds(t) /\ Holds(u) /\ fr[t].op = "delete" /\ fr[u].op # "delete" /\ fr[u].pc # "release"
      => fr[t].job # fr[u].job

\* Every run or retry that is executing can be reached by a cancel.
CancelReachesExecuting ==
  \A t \in Tasks : Holds(t) /\ fr[t].pc # "release" => events[fr[t].mgr][fr[t].job] # "none"

\* A job that reads PENDING, RUNNING, RETRYING or DELETING while the service is
\* up really has a thread working on it, so it never hangs in a state in which
\* retry and delete are refused for ever.
BusyIsExecuting ==
  Serving => \A j \in Jobs : rows[j].status \in ActiveStatuses =>
    \E t \in Threads : fr[t].job = j /\ (Holds(t) \/ fr[t].op = "create")

CurrentJobs(s) == {j \in Jobs : StockOf[j] = s /\ Present(j) /\ rows[j].current}

\* latest.json of a stock and the CURRENT flags agree on a whole job, or there is neither.
Agrees(s) ==
  \/ pointer[s] = None /\ CurrentJobs(s) = {}
  \/ \E j \in Jobs : pointer[s] = j /\ CurrentJobs(s) = {j} /\ Whole(rows[j])

Unbusy == \A j \in Jobs : rows[j].status \notin ActiveStatuses

\* Whatever the process was doing when it died, start-up repair ends with no
\* row claiming to be in progress, and with pointer and flags in agreement for
\* every stock that still has a job.
RestartRepairs ==
  [][~Serving /\ Serving' =>
       Unbusy' /\ \A j \in Jobs : Present(j)' => Agrees(StockOf[j])']_vars

\* The same of every stock: false for one whose last job was deleted when the
\* process died before delete took its latest.json away.
RestartRepairsAll == [][~Serving /\ Serving' => Unbusy' /\ \A s \in Stocks : Agrees(s)']_vars

\* No stock ever shows two jobs as CURRENT.
OneCurrent == \A s \in Stocks : Cardinality(CurrentJobs(s)) <= 1

\* When no call is in flight latest.json names a job that exists.
PointerNamesAJob ==
  (Serving /\ \A t \in Threads : fr[t].pc = "idle")
    => \A s \in Stocks : pointer[s] # None => Present(pointer[s])

\* A deleted job stays deleted.
DeletedStaysDeleted ==
  [][\A j \in Jobs : j \in born /\ ~Present(j) => rows'[j].status = "ABSENT"]_vars

\* An executing job is eventually released, so it can be retried or deleted.
EventuallyReleased == \A m \in Managers, j \in Jobs : j \in active[m] ~> j \notin active[m]

\* A cancel accepted before the pipeline has returned ends in CANCELLED or FAILED.
CancelTakesEffect ==
  \A m \in Managers, j \in Jobs :
    (fr[<<m, j>>].op = "run" /\ fr[<<m, j>>].pc \in {"queued", "fetch"} /\ events[m][j] = "set")
      ~> (rows[j].status \in {"CANCELLED", "FAILED"} \/ ~Serving)

=============================================================================
