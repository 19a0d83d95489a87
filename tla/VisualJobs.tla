----------------------------- MODULE VisualJobs -----------------------------
(***************************************************************************)
(* One job of the visual execution centre (api/visual_jobs.py, its second  *)
(* version and the runtime one): the fetch of the F10 groups with          *)
(* automatic retries, then the two optional stages side by side, each of   *)
(* which also registers its files in artifacts.json.  The stages' progress *)
(* lives in a sidecar file, beside the row of the job.                     *)
(*                                                                         *)
(* The fetch itself is JobData's subject, and which job may be deleted or  *)
(* made current JobManager's: here a fetch leaves groups failing or not.   *)
(***************************************************************************)
EXTENDS Integers, FiniteSets

CONSTANTS
    Threads,     \* threads of the manager's pool
    MaxAuto,     \* max_auto_retries
    MaxRetries,  \* bound on the retries a user requests
    MaxCrashes   \* bound on the restarts of the service

ASSUME VisualAssumption ==
    /\ Threads # {}
    /\ Threads \cap {"raw_pack", "official_validation", "free"} = {}
    /\ MaxAuto \in Nat /\ MaxRetries \in Nat /\ MaxCrashes \in Nat

VARIABLES
    requested,  \* the optional stages asked for
    row,        \* the row of the job: its status and the keys of its artifacts
    failing,    \* whether group rows are FAILED
    sidecar,    \* stage_status of visual-execution.json
    active,     \* the job is in _active_jobs
    event,      \* its cancel event
    manifest,   \* artifacts.json
    pc,         \* what each pool thread does for the job
    mem,        \* its JobState
    tries,      \* automatic retries of the run
    lock,       \* who holds _visual_lock
    want,       \* the sidecar update each thread is making
    held,       \* the sidecar it has read for it
    worker,     \* the thread of each optional stage
    copy,       \* the keys of artifacts.json it has read
    behind,     \* another stage has written the file since this one opened it
    request,    \* the row a retry request has read
    retries, crashes

jobVars == <<requested, row, failing, active, event, pc, mem, tries, request>>
sideVars == <<sidecar, lock, want, held>>
fileVars == <<manifest, worker, copy, behind>>
vars == <<jobVars, sideVars, fileVars, retries, crashes>>

-----------------------------------------------------------------------------
ActiveStatuses == {"PENDING", "RUNNING", "RETRYING"}
Statuses == ActiveStatuses \cup {"COMPLETED", "PARTIAL", "FAILED", "CANCELLED"}
Stages == {"raw_pack", "official_validation"}
StageStatuses == Statuses \cup {"NOT_REQUESTED", "SKIPPED_INCOMPLETE_F10"}

\* Keys of artifacts: those of the F10 exports, those of a stage that the job
\* records too, and those its runner alone registers in artifacts.json.
JobKeys(s) == <<"job", s>>
OwnKeys(s) == <<"own", s>>
F10Keys == <<"job", "f10">>
Keys == {F10Keys} \cup {JobKeys(s) : s \in Stages} \cup {OwnKeys(s) : s \in Stages}

Nothing == [status |-> "none", keys |-> {}]
NoUpdate == [stage |-> "none", status |-> "none"]
NoSidecar == [g \in {"f10"} \cup Stages |-> "none"]

-----------------------------------------------------------------------------
\* create_visual, whose job no one else knows before it is submitted.
Init ==
    /\ requested \in SUBSET Stages
    /\ row = [status |-> "PENDING", keys |-> {}]
    /\ failing = FALSE
    /\ sidecar = [g \in {"f10"} \cup Stages |->
                    IF g = "f10" \/ g \in requested THEN "PENDING" ELSE "NOT_REQUESTED"]
    /\ active = TRUE
    /\ event = FALSE
    /\ manifest = [whole |-> TRUE, keys |-> {}]
    /\ \E p \in Threads : pc = [q \in Threads |-> IF q = p THEN "queued" ELSE "idle"]
    /\ mem = [p \in Threads |-> Nothing]
    /\ tries = 0
    /\ lock = "free"
    /\ want = [p \in Threads \cup Stages |-> NoUpdate]
    /\ held = [p \in Threads \cup Stages |-> NoSidecar]
    /\ worker = [s \in Stages |-> "off"]
    /\ copy = [s \in Stages |-> {}]
    /\ behind = [s \in Stages |-> FALSE]
    /\ request = Nothing
    /\ retries = 0 /\ crashes = 0

\* _update_sidecar: the file is read, changed and replaced under _visual_lock.
Ask(p, g, st) == want' = [want EXCEPT ![p] = [stage |-> g, status |-> st]]
Ready(p) == want[p] = NoUpdate

\* Variant: only the write is locked.
SideReadUnlocked(p) ==
    /\ want[p] # NoUpdate /\ held[p] = NoSidecar
    /\ held' = [held EXCEPT ![p] = sidecar]
    /\ UNCHANGED <<lock, sidecar, want, jobVars, fileVars, retries, crashes>>

SideRead(p) ==
    /\ want[p] # NoUpdate /\ held[p] = NoSidecar
    /\ lock = "free"
    /\ lock' = p
    /\ held' = [held EXCEPT ![p] = sidecar]
    /\ UNCHANGED <<sidecar, want, jobVars, fileVars, retries, crashes>>

SideWrite(p) ==
    /\ held[p] # NoSidecar
    /\ sidecar' = [held[p] EXCEPT ![want[p].stage] = want[p].status]
    /\ want' = [want EXCEPT ![p] = NoUpdate]
    /\ held' = [held EXCEPT ![p] = NoSidecar]
    /\ lock' = "free"
    /\ UNCHANGED <<jobVars, fileVars, retries, crashes>>

\* _save of the thread's state.
Save(p, m) == row' = m /\ mem' = [mem EXCEPT ![p] = m]
Go(p, l) == pc' = [pc EXCEPT ![p] = l]
At(p, l) == pc[p] = l /\ Ready(p)

-----------------------------------------------------------------------------
\* _run_visual.
RunStart(p) ==
    /\ At(p, "queued")
    /\ Save(p, [row EXCEPT !.status = "RUNNING"])
    /\ Ask(p, "f10", "RUNNING")
    /\ Go(p, "fetch")
    /\ UNCHANGED <<requested, failing, active, event, tries, request,
                   sidecar, lock, held, fileVars, retries, crashes>>

Fetched(p) ==
    /\ At(p, "fetch")
    /\ failing' \in BOOLEAN
    /\ Go(p, "auto")
    /\ UNCHANGED <<requested, row, active, event, mem, tries, request,
                   sideVars, fileVars, retries, crashes>>

\* The pipeline, and later the export, may raise; nothing is saved yet.
RunRaised(p) ==
    /\ At(p, "fetch") \/ At(p, "export")
    /\ mem' = [mem EXCEPT ![p].status = "FAILED"]
    /\ Ask(p, "f10", "FAILED")
    /\ Go(p, "close")
    /\ UNCHANGED <<requested, row, failing, active, event, tries, request,
                   sidecar, lock, held, fileVars, retries, crashes>>

\* _auto_retry_failed: announced, then waited for, then made.
AutoRetry(p) ==
    /\ At(p, "auto") /\ failing /\ ~event /\ tries < MaxAuto
    /\ tries' = tries + 1
    /\ Save(p, [mem[p] EXCEPT !.status = "RETRYING"])
    /\ Ask(p, "f10", "RETRYING")
    /\ Go(p, "wait")
    /\ UNCHANGED <<requested, failing, active, event, request,
                   sidecar, lock, held, fileVars, retries, crashes>>

\* A cancel ends the wait, if there is one; the retry itself minds it only
\* between dynamic groups.
AutoFetched(p) ==
    /\ At(p, "wait")
    /\ failing' \in BOOLEAN
    /\ Go(p, "auto")
    /\ UNCHANGED <<requested, row, active, event, mem, tries, request,
                   sideVars, fileVars, retries, crashes>>

AutoEnd(p) ==
    /\ \/ At(p, "auto") /\ (~failing \/ event \/ tries = MaxAuto)
       \/ At(p, "wait") /\ event
    /\ IF event THEN UNCHANGED <<row, mem>> ELSE Save(p, [mem[p] EXCEPT !.status = "RUNNING"])
    /\ Go(p, "assemble")
    /\ UNCHANGED <<requested, failing, active, event, tries, request,
                   sideVars, fileVars, retries, crashes>>

Cancelled(p) ==
    /\ At(p, "assemble") /\ event
    /\ mem' = [mem EXCEPT ![p].status = "CANCELLED"]
    /\ Ask(p, "f10", "CANCELLED")
    /\ Go(p, "close")
    /\ UNCHANGED <<requested, row, failing, active, event, tries, request,
                   sidecar, lock, held, fileVars, retries, crashes>>

Continued(p) ==
    /\ At(p, "assemble") /\ ~event
    /\ Go(p, "export")
    /\ UNCHANGED <<requested, row, failing, active, event, mem, tries, request,
                   sideVars, fileVars, retries, crashes>>

\* build_exports writes artifacts.json anew.
Exported(p) ==
    /\ At(p, "export")
    /\ manifest' = [whole |-> TRUE, keys |-> {F10Keys}]
    /\ mem' = [mem EXCEPT ![p].keys = {F10Keys}, ![p].status = IF failing THEN "PARTIAL" ELSE @]
    /\ Ask(p, "f10", IF failing THEN "PARTIAL" ELSE "COMPLETED")
    /\ Go(p, IF failing THEN "skip" ELSE "stages")
    /\ UNCHANGED <<requested, row, failing, active, event, tries, request,
                   sidecar, lock, held, worker, copy, behind, retries, crashes>>

Skip(p, s) ==
    /\ At(p, "skip") /\ sidecar[s] = "PENDING"
    /\ Ask(p, s, "SKIPPED_INCOMPLETE_F10")
    /\ UNCHANGED <<jobVars, sidecar, lock, held, fileVars, retries, crashes>>

\* The row is saved, then the job released and its event dropped.
Close(p) ==
    /\ \/ At(p, "close")
       \/ At(p, "skip") /\ \A s \in Stages : sidecar[s] # "PENDING"
    /\ row' = mem[p]
    /\ mem' = [mem EXCEPT ![p] = Nothing]
    /\ active' = FALSE
    /\ event' = FALSE
    /\ tries' = 0
    /\ Go(p, "idle")
    /\ UNCHANGED <<requested, failing, request, sideVars, fileVars, retries, crashes>>

-----------------------------------------------------------------------------
\* _run_optional_stages: one stage after the other is announced and submitted,
\* then they are collected as they end.
Announce(p, s) ==
    /\ At(p, "stages") /\ s \in requested /\ worker[s] = "off"
    /\ s = "official_validation" /\ "raw_pack" \in requested =>
           worker["raw_pack"] \notin {"off", "announced"}
    /\ Ask(p, s, "RUNNING")
    /\ worker' = [worker EXCEPT ![s] = "announced"]
    /\ UNCHANGED <<jobVars, sidecar, lock, held, manifest, copy, behind, retries, crashes>>

Submit(p, s) ==
    /\ At(p, "stages") /\ worker[s] = "announced"
    /\ worker' = [worker EXCEPT ![s] = "start"]
    /\ UNCHANGED <<jobVars, sideVars, manifest, copy, behind, retries, crashes>>

CollectStage(p, s) ==
    /\ At(p, "stages") /\ Ready(s)
    /\ \A r \in requested : worker[r] \notin {"off", "announced"}
    /\ worker[s] \in {"done", "failed"}
    /\ IF worker[s] = "done"
       THEN /\ Save(p, [mem[p] EXCEPT !.keys = @ \cup {JobKeys(s)}])
            /\ Ask(p, s, "COMPLETED")
       ELSE /\ Save(p, mem[p])
            /\ Ask(p, s, "FAILED")
    /\ worker' = [worker EXCEPT ![s] = "collected"]
    /\ UNCHANGED <<requested, failing, active, event, pc, tries, request,
                   sidecar, lock, held, manifest, copy, behind, retries, crashes>>

\* Variant: the stages' own registrations are relied upon.
MergeNothing(p) ==
    /\ At(p, "stages") /\ \A s \in requested : worker[s] = "collected"
    /\ worker' = [s \in Stages |-> "off"]
    /\ Go(p, "finish")
    /\ UNCHANGED <<requested, row, failing, active, event, mem, tries, request,
                   sideVars, manifest, copy, behind, retries, crashes>>

\* _merge_artifact_manifest: what can be read of the file, and the job's keys.
Merge(p) ==
    /\ At(p, "stages") /\ \A s \in requested : worker[s] = "collected"
    /\ manifest' = [whole |-> TRUE,
                    keys |-> (IF manifest.whole THEN manifest.keys ELSE {}) \cup mem[p].keys]
    /\ worker' = [s \in Stages |-> "off"]
    /\ Go(p, "finish")
    /\ UNCHANGED <<requested, row, failing, active, event, mem, tries, request,
                   sideVars, copy, behind, retries, crashes>>

\* The end of a run or of a retry whose stages have run.
Finish(p) ==
    /\ At(p, "finish")
    /\ row' = [mem[p] EXCEPT !.status = "COMPLETED"]
    /\ mem' = [mem EXCEPT ![p] = Nothing]
    /\ active' = FALSE
    /\ event' = FALSE
    /\ tries' = 0
    /\ Go(p, "idle")
    /\ UNCHANGED <<requested, failing, request, sideVars, fileVars, retries, crashes>>

-----------------------------------------------------------------------------
\* The thread of a stage: the validation looks up its inputs in artifacts.json
\* and reports progress; both end by registering their files there.
Worker(s, l) == worker' = [worker EXCEPT ![s] = l]

Begin(s) ==
    /\ worker[s] = "start"
    /\ Worker(s, "work")
    /\ UNCHANGED <<jobVars, sideVars, manifest, copy, behind, retries, crashes>>

Progress(s) ==
    /\ s = "official_validation" /\ worker[s] = "work" /\ Ready(s)
    /\ Ask(s, s, "RUNNING")
    /\ UNCHANGED <<jobVars, sidecar, lock, held, fileVars, retries, crashes>>

\* Its sources fail, or the file it looks into is being written.
StageFails(s) ==
    /\ worker[s] = "work" /\ Ready(s)
    /\ Worker(s, "failed")
    /\ UNCHANGED <<jobVars, sideVars, manifest, copy, behind, retries, crashes>>

Register(s) ==
    /\ worker[s] = "work" /\ Ready(s)
    /\ IF manifest.whole
       THEN Worker(s, "open") /\ copy' = [copy EXCEPT ![s] = manifest.keys]
       ELSE Worker(s, "failed") /\ UNCHANGED copy
    /\ UNCHANGED <<jobVars, sideVars, manifest, behind, retries, crashes>>

OpenFile(s) ==
    /\ worker[s] = "open"
    /\ manifest' = [whole |-> FALSE, keys |-> {}]
    /\ behind' = [behind EXCEPT ![s] = FALSE]
    /\ Worker(s, "fill")
    /\ UNCHANGED <<jobVars, sideVars, copy, retries, crashes>>

\* Whoever writes second leaves the end of a longer first content in place.
FillFile(s) ==
    /\ worker[s] = "fill"
    /\ \E w \in IF behind[s] THEN BOOLEAN ELSE {TRUE} :
         manifest' = [whole |-> w, keys |-> IF w THEN copy[s] \cup {OwnKeys(s)} ELSE {}]
    /\ behind' = [r \in Stages |-> r # s /\ worker[r] = "fill"]
    /\ copy' = [copy EXCEPT ![s] = {}]
    /\ Worker(s, "done")
    /\ IF s = "official_validation" THEN Ask(s, s, "RUNNING") ELSE UNCHANGED want
    /\ UNCHANGED <<jobVars, sidecar, lock, held, retries, crashes>>

-----------------------------------------------------------------------------
\* retry_failed: the row is read, then the active set is asked under the lock.
RetryRead ==
    /\ request = Nothing /\ retries < MaxRetries
    /\ failing
    /\ request' = row
    /\ retries' = retries + 1
    /\ UNCHANGED <<requested, row, failing, active, event, pc, mem, tries,
                   sideVars, fileVars, crashes>>

Busy == active \/ request.status \in ActiveStatuses

RetryRefused ==
    /\ request # Nothing /\ Busy
    /\ request' = Nothing
    /\ UNCHANGED <<requested, row, failing, active, event, pc, mem, tries,
                   sideVars, fileVars, retries, crashes>>

RetrySchedule(p) ==
    /\ request # Nothing /\ ~Busy
    /\ pc[p] = "idle"
    /\ active' = TRUE
    /\ row' = [request EXCEPT !.status = "RETRYING"]
    /\ request' = Nothing
    /\ Go(p, "retry")
    /\ UNCHANGED <<requested, failing, event, mem, tries,
                   sideVars, fileVars, retries, crashes>>

\* The retry of the base class, up to its release of the job: the export
\* replaces artifacts.json and the job's artifacts.
RetryBase(p) ==
    /\ At(p, "retry")
    /\ failing' \in BOOLEAN
    /\ \/ /\ manifest' = [whole |-> TRUE, keys |-> {F10Keys}]
          /\ row' = [status |-> IF failing' THEN "PARTIAL" ELSE "COMPLETED", keys |-> {F10Keys}]
       \/ /\ UNCHANGED manifest
          /\ row' = [row EXCEPT !.status = "PARTIAL"]
    /\ active' = FALSE
    /\ Go(p, "reread")
    /\ UNCHANGED <<requested, event, mem, tries, request,
                   sideVars, worker, copy, behind, retries, crashes>>

RetryReread(p) ==
    /\ At(p, "reread")
    /\ IF /\ row.status = "COMPLETED"
          /\ requested # {}
          /\ \E s \in Stages : sidecar[s] \notin {"COMPLETED", "NOT_REQUESTED"}
       THEN Go(p, "relock") /\ mem' = [mem EXCEPT ![p] = row]
       ELSE Go(p, "idle") /\ UNCHANGED mem
    /\ UNCHANGED <<requested, row, failing, active, event, tries, request,
                   sideVars, fileVars, retries, crashes>>

\* Variant: the active set is not asked again.
RetryRelockAnyway(p) ==
    /\ At(p, "relock")
    /\ active' = TRUE
    /\ Save(p, [mem[p] EXCEPT !.status = "RUNNING"])
    /\ Go(p, "stages")
    /\ UNCHANGED <<requested, failing, event, tries, request,
                   sideVars, fileVars, retries, crashes>>

RetryRelock(p) ==
    /\ At(p, "relock")
    /\ IF active
       THEN Go(p, "idle") /\ mem' = [mem EXCEPT ![p] = Nothing] /\ UNCHANGED <<active, row>>
       ELSE /\ active' = TRUE
            /\ Save(p, [mem[p] EXCEPT !.status = "RUNNING"])
            /\ Go(p, "stages")
    /\ UNCHANGED <<requested, failing, event, tries, request,
                   sideVars, fileVars, retries, crashes>>

\* cancel finds an event only while _run_visual has not ended.
RunSteps == {"queued", "fetch", "auto", "wait", "assemble", "export", "skip", "close",
             "stages", "finish"}

Cancel ==
    /\ ~event /\ \E p \in Threads : pc[p] \in RunSteps \ {"stages", "finish"}
    /\ event' = TRUE
    /\ UNCHANGED <<requested, row, failing, active, pc, mem, tries, request,
                   sideVars, fileVars, retries, crashes>>

\* The service is killed and started again: _backfill_legacy_jobs.
Restart ==
    /\ crashes < MaxCrashes
    /\ \E p \in Threads : pc[p] # "idle"
    /\ crashes' = crashes + 1
    /\ row' = [row EXCEPT !.status = IF @ \notin ActiveStatuses THEN @
                                     ELSE IF @ = "PENDING" THEN "FAILED" ELSE "PARTIAL"]
    /\ active' = FALSE /\ event' = FALSE
    /\ pc' = [p \in Threads |-> "idle"]
    /\ mem' = [p \in Threads |-> Nothing]
    /\ tries' = 0
    /\ request' = Nothing
    /\ lock' = "free"
    /\ want' = [p \in Threads \cup Stages |-> NoUpdate]
    /\ held' = [p \in Threads \cup Stages |-> NoSidecar]
    /\ worker' = [s \in Stages |-> "off"]
    /\ copy' = [s \in Stages |-> {}]
    /\ behind' = [s \in Stages |-> FALSE]
    /\ UNCHANGED <<requested, failing, sidecar, manifest, retries>>

-----------------------------------------------------------------------------
Thread(p) ==
    \/ RunStart(p) \/ Fetched(p) \/ RunRaised(p)
    \/ AutoRetry(p) \/ AutoFetched(p) \/ AutoEnd(p)
    \/ Cancelled(p) \/ Continued(p) \/ Exported(p) \/ Close(p)
    \/ Merge(p) \/ Finish(p)
    \/ RetryBase(p) \/ RetryReread(p) \/ RetryRelock(p)
    \/ \E s \in Stages : Skip(p, s) \/ Announce(p, s) \/ Submit(p, s) \/ CollectStage(p, s)

Stage(s) ==
    \/ Begin(s) \/ Progress(s) \/ StageFails(s) \/ Register(s) \/ OpenFile(s) \/ FillFile(s)

\* Nothing runs and nobody asks: anywhere else a state without a step is a
\* deadlock.
Rest ==
    /\ \A p \in Threads : pc[p] = "idle"
    /\ request = Nothing
    /\ UNCHANGED vars

Next ==
    \/ \E p \in Threads : Thread(p) \/ RetrySchedule(p)
    \/ \E s \in Stages : Stage(s)
    \/ \E p \in Threads \cup Stages : SideRead(p) \/ SideWrite(p)
    \/ RetryRead \/ RetryRefused \/ Cancel \/ Restart \/ Rest

Spec == Init /\ [][Next]_vars

-----------------------------------------------------------------------------
\* Types of the job's row, sidecar and files, and of the threads at work on it.
TypeOK ==
    /\ requested \subseteq Stages
    /\ row \in [status : Statuses, keys : SUBSET Keys]
    /\ failing \in BOOLEAN
    /\ sidecar \in [{"f10"} \cup Stages -> StageStatuses]
    /\ active \in BOOLEAN /\ event \in BOOLEAN
    /\ manifest \in [whole : BOOLEAN, keys : SUBSET Keys]
    /\ pc \in [Threads -> RunSteps \cup {"idle", "retry", "reread", "relock"}]
    /\ mem \in [Threads -> [status : Statuses \cup {"none"}, keys : SUBSET Keys]]
    /\ tries \in 0..MaxAuto
    /\ lock \in {"free"} \cup Threads \cup Stages
    /\ want \in [Threads \cup Stages ->
                   {NoUpdate} \cup [stage : {"f10"} \cup Stages, status : StageStatuses]]
    /\ held \in [Threads \cup Stages ->
                   {NoSidecar} \cup [{"f10"} \cup Stages -> StageStatuses]]
    /\ worker \in [Stages -> {"off", "announced", "start", "work", "open", "fill",
                              "done", "failed", "collected"}]
    /\ copy \in [Stages -> SUBSET Keys]
    /\ behind \in [Stages -> BOOLEAN]
    /\ request \in {Nothing} \cup [status : Statuses, keys : SUBSET Keys]
    /\ retries \in 0..MaxRetries /\ crashes \in 0..MaxCrashes

\* The thread of a run, of a retry and of the stages that follow a retry are
\* never at work on the job together, although a retry releases the job and
\* takes it again in between (visual_jobs.py:529-545).
Working(p) == pc[p] \in (RunSteps \ {"queued"}) \cup {"retry"}

OneAtWork == \A p, q \in Threads : Working(p) /\ Working(q) => p = q

\* When no thread is left, a COMPLETED job shows how each requested stage
\* ended: no update of the sidecar, by the job's thread or by the progress of
\* the validation, is undone by the other (visual_jobs_v2.py:124-128).
StagesSettled ==
    /\ \A p \in Threads : pc[p] = "idle"
    /\ row.status = "COMPLETED" /\ crashes = 0
    => \A s \in Stages :
         sidecar[s] \in IF s \in requested THEN {"COMPLETED", "FAILED"} ELSE {"NOT_REQUESTED"}

\* And artifacts.json names the files that the job records of every stage that
\* has completed, whatever the stages' own registrations did to each other and
\* wherever the service was killed (visual_jobs_runtime.py:23-47).
ManifestComplete ==
    /\ \A p \in Threads : pc[p] = "idle"
    /\ row.status = "COMPLETED"
    => \A s \in requested :
         sidecar[s] = "COMPLETED" => JobKeys(s) \in manifest.keys \cap row.keys

\* Not so for the files a stage alone registers, as the raw pack's directory:
\* a registration made from a copy read earlier undoes the other one.
OwnKeysKept ==
    /\ \A p \in Threads : pc[p] = "idle"
    /\ row.status = "COMPLETED" /\ crashes = 0
    => \A s \in requested : sidecar[s] = "COMPLETED" => OwnKeys(s) \in manifest.keys
=============================================================================
