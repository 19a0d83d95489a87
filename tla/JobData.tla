------------------------------ MODULE JobData ------------------------------
(***************************************************************************)
(* The data of one job of the task centre (api/jobs.py, jobs_v2.py): its   *)
(* output directory, written by a pass of FetchPipeline and by retries of  *)
(* single groups, against its row, its group rows and its exports.         *)
(* JobManager models which thread may work on a job when; here there is    *)
(* one, and the question is what the job's status says of its data.        *)
(***************************************************************************)
EXTENDS FetchPipeline

CONSTANTS
    MaxRetries,  \* bound on the retries scheduled
    MaxRestarts  \* bound on the restarts of the service

ASSUME JobAssumption == MaxRetries \in Nat /\ MaxRestarts \in Nat

VARIABLES
    doing,     \* what the job's thread is doing
    status,    \* jobs.status
    groupRows, \* job_groups.status
    completed, \* jobs.completed_groups
    exported,  \* exports/<code>_F10_full.json
    todo,      \* groups a retry has still to begin
    busy,      \* groups a retry is fetching
    plain,     \* ghost: no cancel, no kill, no retry of a group that had not failed
    retries, restarts

jobVars == <<doing, status, groupRows, completed, exported, todo, busy, plain,
             retries, restarts>>
dataVars == <<pipeVars, jobVars>>

-----------------------------------------------------------------------------
BusyStatuses == {"PENDING", "RUNNING", "RETRYING"}

RowOf(res) == IF res.success THEN "SUCCESS" ELSE "FAILED"

Completed(rs) == Cardinality({g \in Groups : rs[g] \in {"SUCCESS", "FAILED"}})
AllSucceeded(rs) == \A g \in Groups : rs[g] = "SUCCESS"

\* _group_quality: success counts before records, records before payloads.
Quality(f) == IF ~Readable(f) THEN 0
              ELSE CASE f.data = "none" -> 1 [] f.data = "empty" -> 2 [] f.data = "bad" -> 3
                     [] f.data = "part" -> 4 [] f.data = "good" -> 5

\* _best_saved_groups: over the group file, combined.json and the export.
Saved(g) == {file[g], combined.groups[g], exported.groups[g]}
Best(g) == CHOOSE f \in Saved(g) : \A h \in Saved(g) : Quality(f) >= Quality(h)

\* _sync_group_files: a group without any saved result keeps its row.
Synced(rs) == [g \in Groups |-> IF Readable(Best(g)) THEN RowOf(Best(g)) ELSE rs[g]]

Sync == groupRows' = Synced(groupRows) /\ completed' = Completed(Synced(groupRows))

-----------------------------------------------------------------------------
DataInit ==
    /\ PipeInit
    /\ doing = "off"
    /\ status = "PENDING"
    /\ groupRows = [g \in Groups |-> "PENDING"]
    /\ completed = 0
    /\ exported = NoCombined
    /\ todo = {} /\ busy = {}
    /\ plain = TRUE
    /\ retries = 0 /\ restarts = 0

RunBegin ==
    /\ doing = "off" /\ status = "PENDING"
    /\ StartPass(TRUE)
    /\ doing' = "run"
    /\ status' = "RUNNING"
    /\ UNCHANGED <<disturbed, groupRows, completed, exported, todo, busy, plain,
                   retries, restarts>>

\* The progress handler: group_started and group_completed change the row of
\* the group before the pipeline saves its file; a dynamic group is not
\* announced when it starts.
RunStep ==
    /\ doing = "run"
    /\ PassStep
    /\ groupRows' = [g \in Groups |->
                       IF task[g] # task'[g] /\ task'[g] = "candidate" THEN "RUNNING"
                       ELSE IF task[g] # task'[g] /\ task'[g] = "done" THEN RowOf(out'[g])
                       ELSE groupRows[g]]
    /\ completed' = IF \E g \in Groups : task[g] # task'[g] /\ task'[g] = "done"
                    THEN Completed(groupRows') ELSE completed
    /\ UNCHANGED <<doing, status, exported, todo, busy, plain, retries, restarts>>

\* cancel sets the event of a running job; a retry has none.
CancelRun ==
    /\ doing = "run" /\ ~cancelled
    /\ cancelled' = TRUE
    /\ plain' = FALSE
    /\ UNCHANGED <<raw, file, combined, pass, results, task, out, disturbed,
                   doing, status, groupRows, completed, exported, todo, busy,
                   retries, restarts>>

RunReturned ==
    /\ doing = "run" /\ pass = "returned"
    /\ Sync
    /\ pass' = "off"
    /\ IF cancelled THEN doing' = "off" /\ status' = "CANCELLED"
                    ELSE doing' = "export" /\ UNCHANGED status
    /\ UNCHANGED <<raw, file, combined, results, task, out, cancelled, disturbed,
                   exported, todo, busy, plain, retries, restarts>>

RunRaised ==
    /\ doing = "run" /\ pass = "raised"
    /\ pass' = "off"
    /\ doing' = "off"
    /\ status' = "FAILED"
    /\ UNCHANGED <<raw, file, combined, results, task, out, cancelled, disturbed,
                   groupRows, completed, exported, todo, busy, plain, retries, restarts>>

\* build_exports, for a run and for a retry; the counts were taken before.
ExportJob ==
    /\ doing = "export"
    /\ exported' = combined
    /\ status' = IF AllSucceeded(groupRows) THEN "COMPLETED" ELSE "PARTIAL"
    /\ doing' = "off"
    /\ UNCHANGED <<pipeVars, groupRows, completed, todo, busy, plain, retries, restarts>>

-----------------------------------------------------------------------------
\* retry_group for any group, retry_failed for those whose synced row failed.
Scheduled(gs, rs) ==
    /\ doing = "off" /\ status \notin BusyStatuses
    /\ retries < MaxRetries
    /\ gs # {}
    /\ status' = "RETRYING"
    /\ doing' = "retry"
    /\ todo' = gs
    /\ retries' = retries + 1
    /\ groupRows' = rs
    /\ completed' = Completed(rs)
    /\ plain' = (plain /\ \A g \in gs : rs[g] = "FAILED")
    /\ UNCHANGED <<pipeVars, exported, busy, restarts>>

RetryGroup(g) == Scheduled({g}, groupRows)
RetryFailed == Scheduled({g \in Groups : Synced(groupRows)[g] = "FAILED"}, Synced(groupRows))

\* _retry_one_group: the row, then the group's raw cache is cleared; standard
\* groups run in a pool, the dynamic ones after them one by one.
RetryBegin(g) ==
    /\ doing = "retry" /\ g \in todo
    /\ IF g \in Dynamic THEN busy = {} /\ todo \subseteq Dynamic
                        ELSE Cardinality(busy) < Workers
    /\ todo' = todo \ {g}
    /\ busy' = busy \cup {g}
    /\ groupRows' = [groupRows EXCEPT ![g] = "RETRYING"]
    /\ raw' = [r \in Requests |-> IF r[1] = g THEN "none" ELSE raw[r]]
    /\ UNCHANGED <<file, combined, pass, results, task, out, cancelled, disturbed,
                   doing, status, completed, exported, plain, retries, restarts>>

\* What the requests of g may be answered, from an empty cache: the fallback
\* is tried when the candidate was not good.
Retried(g) ==
    IF g \in Dynamic
    THEN [IF file[Source[g]].success /\ file[Source[g]].data = "good" THEN Ids ELSE {}
            -> {"error", "good"}]
    ELSE LET one == {"error"} \cup Accepted(g)
         IN {f \in [Kinds(g) -> one \cup {"none"}] :
               /\ f["candidate"] # "none"
               /\ "fallback" \in Kinds(g) => (f["fallback"] = "none") = (f["candidate"] = "good")}

RetriedResult(g, f) ==
    IF g \in Dynamic THEN DynamicResult(f)
    ELSE IF "fallback" \in Kinds(g) /\ f["fallback"] # "none" THEN StandardResult(f["fallback"])
    ELSE StandardResult(f["candidate"])

\* Variant: a group that fails again is put back.
RetryEndAgain(g) ==
    /\ doing = "retry" /\ g \in busy
    /\ \E f \in Retried(g) :
         /\ raw' = [r \in Requests |->
                      IF r[1] = g /\ r[2] \in DOMAIN f /\ f[r[2]] \in {"good", "bad"}
                      THEN f[r[2]] ELSE raw[r]]
         /\ file' = [file EXCEPT ![g] = RetriedResult(g, f)]
         /\ groupRows' = [groupRows EXCEPT ![g] = RowOf(RetriedResult(g, f))]
         /\ todo' = IF RetriedResult(g, f).success THEN todo ELSE todo \cup {g}
    /\ busy' = busy \ {g}
    /\ UNCHANGED <<combined, pass, results, task, out, cancelled, disturbed,
                   doing, status, completed, exported, plain, retries, restarts>>

\* The group file is replaced whole, then the row is saved.
RetryEnd(g) ==
    /\ doing = "retry" /\ g \in busy
    /\ \E f \in Retried(g) :
         /\ raw' = [r \in Requests |->
                      IF r[1] = g /\ r[2] \in DOMAIN f /\ f[r[2]] \in {"good", "bad"}
                      THEN f[r[2]] ELSE raw[r]]
         /\ file' = [file EXCEPT ![g] = RetriedResult(g, f)]
         /\ groupRows' = [groupRows EXCEPT ![g] = RowOf(RetriedResult(g, f))]
    /\ busy' = busy \ {g}
    /\ UNCHANGED <<combined, pass, results, task, out, cancelled, disturbed,
                   doing, status, completed, exported, todo, plain, retries, restarts>>

\* The rows are synchronised before combined.json is assembled from the files.
RetryAssemble ==
    /\ doing = "retry" /\ todo = {} /\ busy = {}
    /\ Sync
    /\ combined' = [state |-> "whole",
                    groups |-> [g \in Groups |-> IF Readable(file[g]) THEN file[g] ELSE Missing]]
    /\ doing' = "export"
    /\ UNCHANGED <<raw, file, pass, results, task, out, cancelled, disturbed,
                   status, exported, todo, busy, plain, retries, restarts>>

\* list_groups of a job at rest synchronises its rows and its counts.
ViewGroups ==
    /\ doing = "off" /\ status \notin BusyStatuses
    /\ Sync
    /\ UNCHANGED <<pipeVars, doing, status, exported, todo, busy, plain, retries, restarts>>

\* The service is killed and started again: _backfill_legacy_jobs.
Restart ==
    /\ restarts < MaxRestarts
    /\ IF pass # "off" THEN KillPass
       ELSE /\ UNCHANGED <<file, pass, results, task, out, cancelled, disturbed>>
            /\ \E cut \in SUBSET {r \in Requests : r[1] \in busy} :
                 raw' = [r \in Requests |-> IF r \in cut THEN "torn" ELSE raw[r]]
            /\ combined' \in {combined} \cup (IF doing = "retry" /\ todo \cup busy = {}
                                             THEN {TornCombined} ELSE {})
    /\ exported' \in {exported} \cup (IF doing = "export" THEN {TornCombined} ELSE {})
    /\ groupRows' = [g \in Groups |->
                       IF Readable(Best(g)') THEN RowOf(Best(g)') ELSE groupRows[g]]
    /\ completed' = Completed(groupRows')
    /\ status' = IF status \in BusyStatuses
                 THEN IF completed > 0 THEN "PARTIAL" ELSE "FAILED"
                 ELSE IF status = "COMPLETED" /\ ~AllSucceeded(groupRows') /\ completed' > 0
                 THEN "PARTIAL" ELSE status
    /\ doing' = "off"
    /\ todo' = {} /\ busy' = {}
    /\ plain' = (plain /\ doing = "off")
    /\ restarts' = restarts + 1
    /\ UNCHANGED retries

Thread == RunBegin \/ RunStep \/ RunReturned \/ RunRaised \/ ExportJob \/ RetryAssemble
          \/ \E g \in Groups : RetryBegin(g) \/ RetryEnd(g)

DataNext ==
    \/ Thread
    \/ CancelRun \/ RetryFailed \/ ViewGroups \/ Restart
    \/ \E g \in Groups : RetryGroup(g)

\* The thread of the job and those of its pools run on; whoever cancels,
\* retries or looks need not.
DataSpec == DataInit /\ [][DataNext]_dataVars /\ WF_dataVars(Thread)

-----------------------------------------------------------------------------
\* Types of the directory, of the rows and of the job's thread.
DataTypeOK ==
    /\ PipeTypeOK
    /\ doing \in {"off", "run", "export", "retry"}
    /\ status \in BusyStatuses \cup {"COMPLETED", "PARTIAL", "FAILED", "CANCELLED"}
    /\ groupRows \in [Groups -> {"PENDING", "RUNNING", "RETRYING", "SUCCESS", "FAILED"}]
    /\ completed \in 0..Cardinality(Groups)
    /\ exported \in [state : {"absent", "torn", "whole"},
                     groups : [Groups -> Result \cup {Missing}]]
    /\ todo \subseteq Groups /\ busy \subseteq Groups
    /\ Cardinality(busy) <= Workers
    /\ plain \in BOOLEAN
    /\ retries \in 0..MaxRetries /\ restarts \in 0..MaxRestarts

\* A COMPLETED job has every group, with success, in its combined.json and in
\* its export, over runs and retries of failed groups in any order - as long
\* as no run was cancelled or killed and no group retried that had not failed.
CompletedIsWhole ==
    status = "COMPLETED" /\ plain =>
        \A g \in Groups : combined.groups[g].success /\ exported.groups[g].success

\* The documented meaning of COMPLETED, without those conditions: after a
\* cancel, a row may say SUCCESS for a result that was never saved; and a
\* group retried without success keeps the row of its older result, which the
\* assembled combined.json no longer holds (jobs_v2.py:167-176).
CompletedMeansWhole ==
    status = "COMPLETED" => \A g \in Groups : combined.groups[g].success

\* A cancelled run comes to an end, whatever its pool was doing, and a retry
\* ends too: no job is left busy by a thread that waits for ever.
WorkEnds == doing # "off" ~> doing = "off"
=============================================================================
