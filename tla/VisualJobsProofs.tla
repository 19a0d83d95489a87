--------------------------- MODULE VisualJobsProofs ---------------------------
(***************************************************************************)
(* VisualJobs for any threads, retries and restarts: one thread at a time  *)
(* works on the job.  A retry releases the job and takes it again later,   *)
(* so the proof follows the claim: whoever is between taking the job and   *)
(* releasing it is the only one there, and the job is in the active set    *)
(* all that time (Claim).  On it rests the rest: the stages and the        *)
(* sidecar they share with the job (Workers, Locking, Wants), and what the *)
(* job has recorded of them when it ends (Recorded, Outcome).              *)
(***************************************************************************)
EXTENDS VisualJobs, TLAPS

Claimed == RunSteps \cup {"retry"}
Pcs == Claimed \cup {"idle", "reread", "relock"}

Claim ==
    /\ pc \in [Threads -> Pcs]
    /\ \A p \in Threads : pc[p] \in Claimed => active
    /\ \A p, q \in Threads : pc[p] \in Claimed /\ pc[q] \in Claimed => p = q

-----------------------------------------------------------------------------
\* create_visual hands the job, already active, to one thread.
LEMMA ClaimInit == Init => Claim
<1> SUFFICES ASSUME Init PROVE Claim
  OBVIOUS
<1>1. PICK p \in Threads : pc = [q \in Threads |-> IF q = p THEN "queued" ELSE "idle"]
  BY DEF Init
<1>2. active
  BY DEF Init
<1> QED BY <1>1, <1>2 DEF Claim, Claimed, Pcs, RunSteps

\* A step that moves nobody keeps the claim, and so does one that moves the
\* thread of the job within what it does for it.
LEMMA ClaimMoves ==
  ASSUME Claim, UNCHANGED active,
         \/ UNCHANGED pc
         \/ \E p \in Threads, l \in Pcs :
              /\ pc' = [pc EXCEPT ![p] = l]
              /\ l \in Claimed => pc[p] \in Claimed
  PROVE  Claim'
<1>1. CASE UNCHANGED pc
  BY <1>1 DEF Claim
<1>2. ASSUME NEW p \in Threads, NEW l \in Pcs, pc' = [pc EXCEPT ![p] = l],
             l \in Claimed => pc[p] \in Claimed
      PROVE  Claim'
  BY <1>2 DEF Claim
<1> QED BY <1>1, <1>2

\* A thread that holds the claim may release the job and leave (the "finally"
\* of _run_visual and of the retries).
LEMMA ClaimReleased ==
  ASSUME Claim, NEW p \in Threads, pc[p] \in Claimed, NEW l \in Pcs \ Claimed,
         pc' = [pc EXCEPT ![p] = l]
  PROVE  Claim'
BY DEF Claim

\* Whoever finds the job not active may take it (retry_failed, the second lock).
LEMMA ClaimTaken ==
  ASSUME Claim, ~active, active', NEW p \in Threads, NEW l \in Claimed,
         pc' = [pc EXCEPT ![p] = l]
  PROVE  Claim'
BY DEF Claim, Pcs

\* The steps of a run (_run_visual and the stages after it).
LEMMA ClaimRun ==
  ASSUME Claim, NEW p \in Threads,
         \/ RunStart(p) \/ Fetched(p) \/ RunRaised(p)
         \/ AutoRetry(p) \/ AutoFetched(p) \/ AutoEnd(p)
         \/ Cancelled(p) \/ Continued(p) \/ Exported(p) \/ Merge(p)
         \/ \E s \in Stages : Skip(p, s) \/ Announce(p, s) \/ Submit(p, s) \/ CollectStage(p, s)
  PROVE  Claim'
<1> USE DEF At, Go, jobVars, Claimed, RunSteps
<1>1. CASE RunStart(p) \/ Fetched(p) \/ RunRaised(p)
  BY <1>1, ClaimMoves DEF RunStart, Fetched, RunRaised, Pcs
<1>2. CASE AutoRetry(p) \/ AutoFetched(p) \/ AutoEnd(p)
  BY <1>2, ClaimMoves DEF AutoRetry, AutoFetched, AutoEnd, Pcs
<1>3. CASE Cancelled(p) \/ Continued(p) \/ Exported(p) \/ Merge(p)
  <2>1. UNCHANGED active /\ pc[p] \in Claimed
        /\ \E l \in Claimed : pc' = [pc EXCEPT ![p] = l]
    BY <1>3 DEF Cancelled, Continued, Exported, Merge
  <2> QED BY <2>1, ClaimMoves DEF Pcs
<1>4. ASSUME NEW s \in Stages, Skip(p, s) \/ Announce(p, s) \/ Submit(p, s) \/ CollectStage(p, s)
      PROVE  Claim'
  BY <1>4, ClaimMoves DEF Skip, Announce, Submit, CollectStage
<1> QED BY <1>1, <1>2, <1>3, <1>4

\* The ends of a run, the steps of a retry and its second claim.
LEMMA ClaimRetry ==
  ASSUME Claim, NEW p \in Threads,
         \/ Close(p) \/ Finish(p) \/ RetryBase(p) \/ RetryReread(p) \/ RetryRelock(p)
         \/ RetrySchedule(p)
  PROVE  Claim'
<1> USE DEF At, Go, Claimed, RunSteps, Pcs
<1>1. CASE Close(p)
  BY <1>1, ClaimReleased DEF Close
<1>2. CASE Finish(p)
  BY <1>2, ClaimReleased DEF Finish
<1>3. CASE RetryBase(p)
  BY <1>3, ClaimReleased DEF RetryBase
<1>4. CASE RetryReread(p)
  BY <1>4, ClaimMoves DEF RetryReread
<1>5. CASE RetryRelock(p)
  <2>1. CASE active
    BY <1>5, <2>1, ClaimMoves DEF RetryRelock
  <2>2. CASE ~active
    BY <1>5, <2>2, ClaimTaken DEF RetryRelock
  <2> QED BY <2>1, <2>2
<1>6. CASE RetrySchedule(p)
  BY <1>6, ClaimTaken DEF RetrySchedule, Busy
<1> QED BY <1>1, <1>2, <1>3, <1>4, <1>5, <1>6

\* Every step keeps the claim; a restart leaves no thread.
LEMMA ClaimStep == Claim /\ [Next]_vars => Claim'
<1> SUFFICES ASSUME Claim, [Next]_vars PROVE Claim'
  OBVIOUS
<1> USE DEF jobVars
<1>1. ASSUME NEW p \in Threads, Thread(p) \/ RetrySchedule(p) PROVE Claim'
  BY <1>1, ClaimRun, ClaimRetry DEF Thread
<1>2. ASSUME NEW s \in Stages, Stage(s) PROVE Claim'
  BY <1>2, ClaimMoves DEF Stage, Begin, Progress, StageFails, Register, OpenFile, FillFile
<1>3. ASSUME NEW p \in Threads \cup Stages, SideRead(p) \/ SideWrite(p) PROVE Claim'
  BY <1>3, ClaimMoves DEF SideRead, SideWrite
<1>4. CASE RetryRead \/ RetryRefused \/ Cancel
  BY <1>4, ClaimMoves DEF RetryRead, RetryRefused, Cancel
<1>5. CASE Restart
  BY <1>5 DEF Restart, Claim, Claimed, Pcs, RunSteps
<1>6. CASE Rest \/ UNCHANGED vars
  BY <1>6, ClaimMoves DEF Rest, vars
<1> QED BY <1>1, <1>2, <1>3, <1>4, <1>5, <1>6 DEF Next

\* The threads of a run, of a retry and of the stages that follow a retry never
\* work on the job together, whatever retries, cancels and restarts come
\* (visual_jobs.py:529-545).
THEOREM OneAtWorkHolds == Spec => []OneAtWork
<1>1. Claim => OneAtWork
  BY DEF Claim, Claimed, OneAtWork, Working
<1> QED BY <1>1, ClaimInit, ClaimStep, PTL DEF Spec
-----------------------------------------------------------------------------
(* How a job ends: what the sidecar and artifacts.json say of its stages.  *)

\* The types the proofs rest on.
JobTypes ==
    /\ requested \subseteq Stages
    /\ row \in [status : Statuses, keys : SUBSET Keys]
    /\ failing \in BOOLEAN
    /\ pc \in [Threads -> Pcs]
    /\ mem \in [Threads -> [status : Statuses \cup {"none"}, keys : SUBSET Keys]]
    /\ request \in {Nothing} \cup [status : Statuses, keys : SUBSET Keys]
    /\ crashes \in Nat

SideTypes ==
    /\ sidecar \in [{"f10"} \cup Stages -> StageStatuses]
    /\ want \in [Threads \cup Stages ->
                   {NoUpdate} \cup [stage : {"f10"} \cup Stages, status : StageStatuses]]
    /\ held \in [Threads \cup Stages ->
                   {NoSidecar} \cup [{"f10"} \cup Stages -> StageStatuses]]

Submitted == {"start", "work", "open", "fill", "done", "failed"}
WorkerTypes == worker \in [Stages -> {"off", "announced", "collected"} \cup Submitted]

\* What a thread does for the job before its stages, and with them.
Late  == {"stages", "finish"}
Early == Claimed \ Late
Ended == {"COMPLETED", "FAILED"}
Actors == Threads \cup Stages

\* A JobState says COMPLETED only when the row is to say so.
Rows ==
    /\ active => \E p \in Threads : pc[p] \in Claimed
    /\ \A p \in Threads :
         /\ pc[p] \in Claimed => row.status \in ActiveStatuses
         /\ pc[p] \in {"fetch", "auto", "wait", "assemble", "export", "stages"} =>
              mem[p].status \in ActiveStatuses
         /\ pc[p] \in {"skip", "close"} => mem[p].status \in Statuses \ {"COMPLETED"}

\* Groups fail only while no stage has run: a request that may still be
\* granted was read from a job with failed groups and no thread.
Failing ==
    /\ row.status = "COMPLETED" => ~failing
    /\ \A p \in Threads : pc[p] \in Late \cup {"relock"} => ~failing
    /\ \A p, q \in Threads : pc[p] = "relock" => pc[q] \notin Early
    /\ request # Nothing /\ request.status \notin ActiveStatuses =>
         failing /\ \A p \in Threads : pc[p] \notin Claimed

\* The sidecar is changed by the holder of the lock only, from what it has read.
Locking ==
    \A q \in Actors : held[q] # NoSidecar => lock = q /\ held[q] = sidecar /\ want[q] # NoUpdate

\* Who may be changing the sidecar, and to what.
Wants ==
    /\ \A p \in Threads : want[p] # NoUpdate =>
         /\ pc[p] \in Claimed \ {"queued", "retry", "finish"}
         /\ want[p].stage \in {"f10"} \cup requested
         /\ want[p].status # "NOT_REQUESTED"
         /\ pc[p] \in Early => want[p].stage = "f10" \/ want[p].status = "SKIPPED_INCOMPLETE_F10"
    /\ \A s \in Stages : want[s] # NoUpdate =>
         worker[s] \in {"work", "done"} /\ want[s] = [stage |-> s, status |-> "RUNNING"]
    /\ \A s \in Stages : sidecar[s] = "NOT_REQUESTED" <=> s \notin requested

\* The update of a stage's status that is under way, if any, says st.
Says(s, st) == \A q \in Actors : want[q].stage = s => want[q].status \in st

\* The stage is shown as completed, or about to be.
Completes(s) ==
    sidecar[s] = "COMPLETED" \/ \E q \in Threads : want[q].stage = s /\ want[q].status = "COMPLETED"

\* A stage runs for the thread that collects it; its status is RUNNING until it
\* is collected, and then its last one is written or on its way.
Workers ==
    \A s \in Stages :
      /\ worker[s] # "off" => s \in requested /\ \E p \in Threads : pc[p] = "stages"
      /\ worker[s] = "announced" =>
           /\ Says(s, {"RUNNING"})
           /\ sidecar[s] = "RUNNING" \/ \E p \in Threads : want[p].stage = s
      /\ worker[s] \in Submitted => sidecar[s] = "RUNNING" /\ Says(s, {"RUNNING"})
      /\ worker[s] = "collected" =>
           /\ Says(s, Ended)
           /\ sidecar[s] \in Ended \/ \E p \in Threads : want[p].stage = s

\* The thread of the job records the files of a stage that has completed.
Recorded ==
    \A p \in Threads, s \in requested :
      /\ pc[p] = "stages" /\ worker[s] = "collected" /\ Completes(s) =>
           JobKeys(s) \in mem[p].keys
      /\ pc[p] = "finish" =>
           /\ sidecar[s] \in Ended
           /\ sidecar[s] = "COMPLETED" => JobKeys(s) \in mem[p].keys \cap manifest.keys

\* No stage has completed before the groups are fetched.
NoneYet ==
    failing \/ (\E p \in Threads : pc[p] \in Early) =>
      \A s \in Stages : sidecar[s] # "COMPLETED"

\* The result, between the calls.
Outcome ==
    row.status = "COMPLETED" =>
      /\ \/ crashes # 0
         \/ \E p \in Threads : pc[p] \in Claimed \cup {"reread", "relock"}
         \/ \A s \in requested : sidecar[s] \in Ended
      /\ \A s \in requested : sidecar[s] = "COMPLETED" => JobKeys(s) \in manifest.keys \cap row.keys

Types == JobTypes /\ SideTypes /\ WorkerTypes
Job   == Rows /\ Failing /\ Claim
Side  == Locking /\ Wants
Good  == Types /\ Job /\ Side /\ Workers /\ Recorded /\ NoneYet /\ Outcome

\* The updates of the sidecar are told apart from none, and the threads of the
\* job from those of its stages.
LEMMA Distinct ==
    /\ Threads \cap Stages = {} /\ "free" \notin Actors /\ "f10" \notin Stages
    /\ \A g, st : g # "none" => [stage |-> g, status |-> st] # NoUpdate
    /\ NoUpdate.stage = "none" /\ "none" \notin Stages
    /\ \A f \in [{"f10"} \cup Stages -> StageStatuses] : f # NoSidecar
<1>1. "none" \notin StageStatuses
  BY DEF StageStatuses, Statuses, ActiveStatuses
<1>2. \A f \in [{"f10"} \cup Stages -> StageStatuses] : f["f10"] \in StageStatuses
  OBVIOUS
<1>3. NoSidecar["f10"] = "none"
  BY DEF NoSidecar
<1> QED BY <1>1, <1>2, <1>3, VisualAssumption DEF Actors, Stages, NoUpdate

\* The new job has a row, no update under way and nothing to show yet.
LEMMA GoodInit == Init => Good
<1> SUFFICES ASSUME Init PROVE Good
  OBVIOUS
<1>1. Claim
  BY ClaimInit
<1>2. PICK p \in Threads : pc = [q \in Threads |-> IF q = p THEN "queued" ELSE "idle"]
  BY DEF Init
<1>3. /\ requested \subseteq Stages /\ row = [status |-> "PENDING", keys |-> {}]
      /\ failing = FALSE /\ request = Nothing /\ crashes = 0
      /\ mem = [q \in Threads |-> Nothing]
      /\ sidecar = [g \in {"f10"} \cup Stages |->
                      IF g = "f10" \/ g \in requested THEN "PENDING" ELSE "NOT_REQUESTED"]
      /\ want = [q \in Actors |-> NoUpdate] /\ held = [q \in Actors |-> NoSidecar]
      /\ worker = [s \in Stages |-> "off"]
  BY DEF Init, Actors
<1>4. row.status = "PENDING" /\ row.status \in ActiveStatuses
  BY <1>3 DEF ActiveStatuses
<1>5. Types
  <2>1. SideTypes
    BY <1>3 DEF SideTypes, Actors, StageStatuses, Statuses, ActiveStatuses
  <2>2. JobTypes
    BY <1>1, <1>3 DEF JobTypes, Claim, Nothing, Statuses, ActiveStatuses, Keys
  <2> QED BY <1>3, <2>1, <2>2 DEF Types, WorkerTypes
<1>6. Rows
  BY <1>2, <1>4 DEF Rows, Claimed, RunSteps
<1>7. Failing
  BY <1>2, <1>3, <1>4 DEF Failing, Claimed, RunSteps, Late
<1>8. Side
  <2>1. Locking
    BY <1>3 DEF Locking
  <2>2. \A q \in Actors : want[q] = NoUpdate
    BY <1>3
  <2>3. \A s \in Stages : sidecar[s] = "NOT_REQUESTED" <=> s \notin requested
    BY <1>3, Distinct
  <2> QED BY <2>1, <2>2, <2>3 DEF Side, Wants, Actors
<1>9. Workers /\ Recorded
  BY <1>2, <1>3 DEF Workers, Recorded, Submitted
<1>10. NoneYet /\ Outcome
  BY <1>3, <1>4 DEF NoneYet, Outcome
<1> QED BY <1>1, <1>5, <1>6, <1>7, <1>8, <1>9, <1>10 DEF Good, Job

-----------------------------------------------------------------------------
\* What the states in which a thread works before the stages have in common.
LEMMA EarlyAlone ==
  ASSUME Good, NEW p \in Threads, pc[p] \in Early
  PROVE  /\ \A q \in Threads \ {p} : pc[q] \notin Claimed \cup {"relock"}
         /\ \A s \in Stages : worker[s] = "off" /\ want[s] = NoUpdate /\ sidecar[s] # "COMPLETED"
         /\ row.status \in ActiveStatuses
         /\ request = Nothing \/ request.status \in ActiveStatuses
<1>1. \A q \in Threads \ {p} : pc[q] \notin Claimed
  BY DEF Good, Job, Claim, Early
<1>2. \A q \in Threads : pc[q] # "relock"
  BY DEF Good, Job, Failing
<1>3. \A s \in Stages : worker[s] = "off"
  BY <1>1 DEF Good, Workers, Early, Late, Claimed, RunSteps
<1>4. \A s \in Stages : want[s] = NoUpdate
  BY <1>3 DEF Good, Side, Wants
<1>5. \A s \in Stages : sidecar[s] # "COMPLETED"
  BY DEF Good, NoneYet
<1>6. row.status \in ActiveStatuses /\ (request = Nothing \/ request.status \in ActiveStatuses)
  BY DEF Good, Job, Rows, Failing, Early
<1> QED BY <1>1, <1>2, <1>3, <1>4, <1>5, <1>6

RowType == [status : Statuses, keys : SUBSET Keys]
MemType == [status : Statuses \cup {"none"}, keys : SUBSET Keys]

\* A step of a run before the stages.
EarlyMove(p, l) ==
    /\ pc[p] \in Early \ {"retry"} /\ want[p] = NoUpdate
    /\ l \in Early \ {"queued", "retry"}
    /\ pc' = [pc EXCEPT ![p] = l]
    /\ failing' \in BOOLEAN
    /\ row' \in RowType /\ row'.status \in ActiveStatuses
    /\ \E m \in MemType :
         /\ mem' = [mem EXCEPT ![p] = m]
         /\ l \in {"fetch", "auto", "wait", "assemble", "export"} => m.status \in ActiveStatuses
         /\ l \in {"skip", "close"} => m.status \in Statuses \ {"COMPLETED"}
    /\ \E w \in {NoUpdate} \cup [stage : {"f10"}, status : Statuses]
                \cup [stage : requested, status : {"SKIPPED_INCOMPLETE_F10"}] :
         want' = [want EXCEPT ![p] = w]
    /\ UNCHANGED <<requested, active, request, crashes, sidecar, lock, held, worker>>

\* It keeps what is said of the job.
LEMMA EarlyGood ==
  ASSUME Good, NEW p \in Threads, NEW l, EarlyMove(p, l)
  PROVE  Good'
<1>1. pc[p] \in Early
  BY DEF EarlyMove
<1>2. /\ \A q \in Threads \ {p} : pc[q] \notin Claimed \cup {"relock"}
      /\ \A s \in Stages : worker[s] = "off" /\ want[s] = NoUpdate /\ sidecar[s] # "COMPLETED"
      /\ request = Nothing \/ request.status \in ActiveStatuses
  BY <1>1, EarlyAlone
<1>3. PICK m \in MemType :
         /\ mem' = [mem EXCEPT ![p] = m]
         /\ l \in {"fetch", "auto", "wait", "assemble", "export"} => m.status \in ActiveStatuses
         /\ l \in {"skip", "close"} => m.status \in Statuses \ {"COMPLETED"}
  BY DEF EarlyMove
<1>4. PICK w \in {NoUpdate} \cup [stage : {"f10"}, status : Statuses]
                 \cup [stage : requested, status : {"SKIPPED_INCOMPLETE_F10"}] :
         want' = [want EXCEPT ![p] = w]
  BY DEF EarlyMove
<1>5. /\ l \in Early \ {"queued", "retry"} /\ pc' = [pc EXCEPT ![p] = l] /\ want[p] = NoUpdate
      /\ failing' \in BOOLEAN /\ row' \in RowType /\ row'.status \in ActiveStatuses
      /\ UNCHANGED <<requested, active, request, crashes, sidecar, lock, held, worker>>
  BY DEF EarlyMove
<1>6. /\ JobTypes /\ SideTypes /\ WorkerTypes
      /\ pc \in [Threads -> Pcs] /\ mem \in [Threads -> MemType]
      /\ want \in [Actors -> {NoUpdate} \cup [stage : {"f10"} \cup Stages, status : StageStatuses]]
  BY DEF Good, Types, JobTypes, SideTypes, MemType, Actors
<1>7. /\ pc'[p] = l /\ mem'[p] = m /\ want'[p] = w
      /\ \A q \in Threads \ {p} : pc'[q] = pc[q] /\ mem'[q] = mem[q]
      /\ \A q \in Actors \ {p} : want'[q] = want[q]
      /\ p \in Actors
  BY <1>3, <1>4, <1>5, <1>6 DEF Actors
<1>8. w = NoUpdate \/ (w.stage \in {"f10"} \cup requested /\ w.status \in StageStatuses \ {"NOT_REQUESTED"}
                       /\ (w.stage = "f10" \/ w.status = "SKIPPED_INCOMPLETE_F10"))
  BY DEF StageStatuses, Statuses, ActiveStatuses
<1>9. Types'
  <2>1. JobTypes'
    BY <1>3, <1>5, <1>6 DEF JobTypes, RowType, MemType, Early, Pcs
  <2>2. w \in {NoUpdate} \cup [stage : {"f10"} \cup Stages, status : StageStatuses]
    BY <1>6 DEF JobTypes, StageStatuses
  <2>3. SideTypes'
    BY <1>4, <1>5, <1>6, <2>2 DEF SideTypes, Actors
  <2> QED BY <1>5, <1>6, <2>1, <2>3 DEF Types, WorkerTypes
<1>10. Job'
  <2>1. Claim'
    BY <1>1, <1>5, ClaimMoves DEF Good, Job, Early, Pcs
  <2>2. Rows'
    BY <1>2, <1>3, <1>5, <1>7 DEF Good, Job, Rows, Early, Late, Claimed, RunSteps
  <2>3. Failing'
    BY <1>2, <1>5, <1>7 DEF Failing, Early, Late, Claimed, RunSteps, ActiveStatuses
  <2> QED BY <2>1, <2>2, <2>3 DEF Job
<1>11. Side'
  <2>1. Locking'
    BY <1>4, <1>5, <1>6, <1>7 DEF Good, Side, Locking, Actors
  <2>2. Wants'
    BY <1>2, <1>4, <1>5, <1>7, <1>8, Distinct DEF Good, Side, Wants, Early, Late, Actors
  <2> QED BY <2>1, <2>2 DEF Side
<1>12. Workers' /\ Recorded'
  BY <1>2, <1>5, <1>7 DEF Workers, Recorded, Submitted, Early, Late, Claimed, RunSteps
<1>13. NoneYet' /\ Outcome'
  BY <1>2, <1>5 DEF NoneYet, Outcome, ActiveStatuses
<1> QED BY <1>9, <1>10, <1>11, <1>12, <1>13 DEF Good

\* The steps of a run before the stages.
LEMMA EarlySteps ==
  ASSUME Good, NEW p \in Threads,
         \/ RunStart(p) \/ Fetched(p) \/ RunRaised(p)
         \/ AutoRetry(p) \/ AutoFetched(p) \/ AutoEnd(p)
         \/ Cancelled(p) \/ Continued(p) \/ \E s \in Stages : Skip(p, s)
  PROVE  Good'
<1> DEFINE Early0 == Early \ {"queued", "retry"}
<1>1. /\ row \in RowType /\ failing \in BOOLEAN /\ pc \in [Threads -> Pcs]
      /\ mem \in [Threads -> MemType] /\ mem[p] \in MemType
      /\ want \in [Actors -> {NoUpdate} \cup [stage : {"f10"} \cup Stages, status : StageStatuses]]
  BY DEF Good, Types, JobTypes, SideTypes, RowType, MemType, Actors
<1>2. pc[p] \in Claimed => row.status \in ActiveStatuses
  BY DEF Good, Job, Rows
<1>3. \A s \in Stages : sidecar[s] = "PENDING" => s \in requested
  BY DEF Good, Side, Wants
<1>4. mem = [mem EXCEPT ![p] = mem[p]] /\ want = [want EXCEPT ![p] = want[p]]
      /\ pc = [pc EXCEPT ![p] = pc[p]]
  BY <1>1 DEF Actors
<1>5. \A st \in Statuses : /\ [row EXCEPT !.status = st] \in RowType \cap MemType
                           /\ [row EXCEPT !.status = st].status = st
                           /\ [mem[p] EXCEPT !.status = st] \in RowType \cap MemType
                           /\ [mem[p] EXCEPT !.status = st].status = st
                           /\ [mem EXCEPT ![p].status = st] = [mem EXCEPT ![p] = [mem[p] EXCEPT !.status = st]]
  BY <1>1 DEF RowType, MemType
<1>6. {"RUNNING", "RETRYING", "FAILED", "CANCELLED"} \subseteq Statuses
      /\ {"RUNNING", "RETRYING"} \subseteq ActiveStatuses
  BY DEF Statuses, ActiveStatuses
<1>7. {"queued", "fetch", "auto", "wait", "assemble", "export", "skip", "close"} \subseteq Early \ {"retry"}
  BY DEF Early, Late, Claimed, RunSteps
<1>8. pc[p] \in {"fetch", "auto", "wait", "assemble", "export"} => mem[p].status \in ActiveStatuses
  BY DEF Good, Job, Rows
<1>9. \A st \in Statuses : [stage |-> "f10", status |-> st] \in [stage : {"f10"}, status : Statuses]
  OBVIOUS
<1> USE DEF At, Ready, Go, Ask, jobVars, fileVars
<1>10. CASE RunStart(p)
  <2>1. EarlyMove(p, "fetch")
    <3>1. pc[p] = "queued" BY <1>10 DEF RunStart
    <3>2. /\ row' = [row EXCEPT !.status = "RUNNING"] /\ mem' = [mem EXCEPT ![p] = row']
      BY <1>10 DEF RunStart, Save
    <3>3. row' \in RowType \cap MemType /\ row'.status = "RUNNING" BY <3>2, <1>5, <1>6
    <3> QED BY <1>10, <3>1, <3>2, <3>3, <1>1, <1>6, <1>7, <1>9 DEF RunStart, EarlyMove
  <2> QED BY <2>1, EarlyGood
<1>11. CASE Fetched(p) \/ AutoFetched(p)
  <2>1. EarlyMove(p, "auto")
    <3>1. pc[p] \in {"fetch", "wait"} BY <1>11 DEF Fetched, AutoFetched
    <3> QED BY <1>11, <3>1, <1>1, <1>2, <1>4, <1>7, <1>8
            DEF Fetched, AutoFetched, EarlyMove, sideVars, Claimed, RunSteps
  <2> QED BY <2>1, EarlyGood
<1>12. CASE RunRaised(p) \/ Cancelled(p)
  <2>1. EarlyMove(p, "close")
    <3>1. pc[p] \in {"fetch", "export", "assemble"} BY <1>12 DEF RunRaised, Cancelled
    <3>2. \E st \in {"FAILED", "CANCELLED"} :
            mem' = [mem EXCEPT ![p].status = st] /\ Ask(p, "f10", st)
      BY <1>12 DEF RunRaised, Cancelled
    <3>3. PICK st \in {"FAILED", "CANCELLED"} :
            mem' = [mem EXCEPT ![p].status = st] /\ Ask(p, "f10", st)
      BY <3>2
    <3>4. st \in Statuses \ {"COMPLETED"} BY <1>6
    <3> QED BY <1>12, <3>1, <3>3, <3>4, <1>1, <1>2, <1>5, <1>7, <1>9
            DEF RunRaised, Cancelled, EarlyMove, Claimed, RunSteps
  <2> QED BY <2>1, EarlyGood
<1>13. CASE AutoRetry(p)
  <2>1. EarlyMove(p, "wait")
    <3>1. pc[p] = "auto" BY <1>13 DEF AutoRetry
    <3>2. /\ row' = [mem[p] EXCEPT !.status = "RETRYING"] /\ mem' = [mem EXCEPT ![p] = row']
      BY <1>13 DEF AutoRetry, Save
    <3>3. row' \in RowType \cap MemType /\ row'.status = "RETRYING" BY <3>2, <1>5, <1>6
    <3> QED BY <1>13, <3>1, <3>2, <3>3, <1>1, <1>6, <1>7, <1>9 DEF AutoRetry, EarlyMove
  <2> QED BY <2>1, EarlyGood
<1>14. CASE AutoEnd(p)
  <2>1. EarlyMove(p, "assemble")
    <3>1. pc[p] \in {"auto", "wait"} BY <1>14 DEF AutoEnd
    <3>2. CASE event
      BY <1>14, <3>1, <3>2, <1>1, <1>2, <1>4, <1>7, <1>8
         DEF AutoEnd, EarlyMove, sideVars, Claimed, RunSteps
    <3>3. CASE ~event
      <4>2. /\ row' = [mem[p] EXCEPT !.status = "RUNNING"] /\ mem' = [mem EXCEPT ![p] = row']
        BY <1>14, <3>3 DEF AutoEnd, Save
      <4>3. row' \in RowType \cap MemType /\ row'.status = "RUNNING" BY <4>2, <1>5, <1>6
      <4> QED BY <1>14, <3>1, <4>2, <4>3, <1>1, <1>4, <1>6, <1>7 DEF AutoEnd, EarlyMove, sideVars
    <3> QED BY <3>2, <3>3
  <2> QED BY <2>1, EarlyGood
<1>15. CASE Continued(p)
  <2>1. EarlyMove(p, "export")
    <3>1. pc[p] = "assemble" BY <1>15 DEF Continued
    <3> QED BY <1>15, <3>1, <1>1, <1>2, <1>4, <1>7, <1>8
            DEF Continued, EarlyMove, sideVars, Claimed, RunSteps
  <2> QED BY <2>1, EarlyGood
<1>16. ASSUME NEW s \in Stages, Skip(p, s) PROVE Good'
  <2>1. EarlyMove(p, "skip")
    <3>1. pc[p] = "skip" /\ s \in requested BY <1>16, <1>3 DEF Skip
    <3>2. mem[p].status \in Statuses \ {"COMPLETED"} BY <3>1 DEF Good, Job, Rows
    <3>3. [stage |-> s, status |-> "SKIPPED_INCOMPLETE_F10"]
            \in [stage : requested, status : {"SKIPPED_INCOMPLETE_F10"}]
      BY <3>1
    <3> QED BY <1>16, <3>1, <3>2, <3>3, <1>1, <1>2, <1>4, <1>7 DEF Skip, EarlyMove, Claimed, RunSteps
  <2> QED BY <2>1, EarlyGood
<1> QED BY <1>10, <1>11, <1>12, <1>13, <1>14, <1>15, <1>16

-----------------------------------------------------------------------------
\* What the states in which a thread runs the stages have in common.
LEMMA LateAlone ==
  ASSUME Good, NEW p \in Threads, pc[p] \in Late
  PROVE  /\ \A q \in Threads \ {p} : pc[q] \notin Claimed /\ want[q] = NoUpdate
         /\ ~failing /\ row.status \in ActiveStatuses
         /\ request = Nothing \/ request.status \in ActiveStatuses
         /\ \A s \in Stages : want[s] # NoUpdate => want[s].stage = s
         /\ want[p] = NoUpdate => \A q \in Threads, s \in Stages : want[q].stage # s
<1>1. pc[p] \in Claimed
  BY DEF Late, Claimed, RunSteps
<1>2. \A q \in Threads \ {p} : pc[q] \notin Claimed
  BY <1>1 DEF Good, Job, Claim
<1>3. \A q \in Threads \ {p} : want[q] = NoUpdate
  BY <1>2 DEF Good, Side, Wants
<1>4. ~failing /\ row.status \in ActiveStatuses
  BY <1>1 DEF Good, Job, Rows, Failing
<1>5. request = Nothing \/ request.status \in ActiveStatuses
  BY <1>1 DEF Good, Job, Failing
<1>6. ASSUME NEW s \in Stages, want[s] # NoUpdate PROVE want[s].stage = s
  <2>1. want[s] = [stage |-> s, status |-> "RUNNING"]
    BY <1>6 DEF Good, Side, Wants
  <2> QED BY <2>1
<1> QED BY <1>2, <1>3, <1>4, <1>5, <1>6, Distinct

\* The thread goes on with the stages or ends them.
LateMove(p, l) ==
    /\ pc[p] \in Early \cup Late
    /\ l \in Late
    /\ pc' = [pc EXCEPT ![p] = l]
    /\ ~failing
    /\ row' \in RowType /\ row'.status \in ActiveStatuses
    /\ \E m \in MemType : mem' = [mem EXCEPT ![p] = m] /\ (l = "stages" => m.status \in ActiveStatuses)
    /\ UNCHANGED <<requested, failing, active, request, crashes>>

\* What is said of the rows then still holds.
LEMMA LateJob ==
  ASSUME Good, NEW p \in Threads, NEW l, LateMove(p, l)
  PROVE  JobTypes' /\ Job' /\ NoneYet' /\ Outcome'
<1>1. /\ l \in Late /\ pc' = [pc EXCEPT ![p] = l] /\ pc[p] \in Claimed /\ ~failing
      /\ row' \in RowType /\ row'.status \in ActiveStatuses
      /\ UNCHANGED <<requested, failing, active, request, crashes>>
  BY DEF LateMove, Early, Late, Claimed, RunSteps
<1>2. PICK m \in MemType : mem' = [mem EXCEPT ![p] = m] /\ (l = "stages" => m.status \in ActiveStatuses)
  BY DEF LateMove
<1>3. JobTypes /\ pc \in [Threads -> Pcs] /\ mem \in [Threads -> MemType]
  BY DEF Good, Types, JobTypes, MemType
<1>4. /\ pc'[p] = l /\ mem'[p] = m
      /\ \A q \in Threads \ {p} : pc'[q] = pc[q] /\ mem'[q] = mem[q] /\ pc[q] \notin Claimed
  BY <1>1, <1>2, <1>3 DEF Good, Job, Claim
<1>5. JobTypes'
  BY <1>1, <1>2, <1>3 DEF JobTypes, RowType, MemType, Late, Pcs, Claimed, RunSteps
<1>6. Claim'
  BY <1>1, ClaimMoves DEF Good, Job, Late, Pcs, Claimed, RunSteps
<1>7. Rows'
  BY <1>1, <1>2, <1>4 DEF Good, Job, Rows, Late, Claimed, RunSteps
<1>8. Failing'
  <2>1. request = Nothing \/ request.status \in ActiveStatuses
    BY <1>1 DEF Good, Job, Failing
  <2>2. \A q \in Threads : pc'[q] \notin Early
    BY <1>1, <1>4 DEF Early, Late
  <2> QED BY <1>1, <2>1, <2>2 DEF Failing
<1>9. NoneYet'
  BY <1>1, <1>4 DEF NoneYet, Early, Late
<1>10. Outcome'
  BY <1>1 DEF Outcome, ActiveStatuses
<1> QED BY <1>5, <1>6, <1>7, <1>8, <1>9, <1>10 DEF Job

\* An update that is asked for touches nothing that is being written.
LEMMA LockingAsk ==
  ASSUME Good, NEW p \in Actors, want[p] = NoUpdate, NEW g, NEW st, g # "none",
         Ask(p, g, st), UNCHANGED <<sidecar, lock, held>>
  PROVE  Locking'
<1>1. want'[p] # NoUpdate /\ \A q \in Actors \ {p} : want'[q] = want[q]
  BY Distinct DEF Good, Types, SideTypes, Ask, Actors
<1> QED BY <1>1 DEF Good, Side, Locking

\* A run whose groups are all there exports them and goes on to the stages.
LEMMA ExportedGood == ASSUME Good, NEW p \in Threads, Exported(p) PROVE Good'
<1>1. /\ pc[p] = "export" /\ want[p] = NoUpdate
      /\ mem' = [mem EXCEPT ![p].keys = {F10Keys}, ![p].status = IF failing THEN "PARTIAL" ELSE @]
      /\ want' = [want EXCEPT ![p] = [stage |-> "f10", status |-> IF failing THEN "PARTIAL" ELSE "COMPLETED"]]
      /\ pc' = [pc EXCEPT ![p] = IF failing THEN "skip" ELSE "stages"]
      /\ UNCHANGED <<requested, row, failing, active, request, crashes, sidecar, lock, held, worker>>
  BY DEF Exported, At, Ready, Ask, Go
<1>2. /\ row \in RowType /\ failing \in BOOLEAN /\ mem \in [Threads -> MemType] /\ mem[p] \in MemType
      /\ mem[p].status \in ActiveStatuses /\ pc[p] \in Early \ {"retry"} /\ row.status \in ActiveStatuses
      /\ JobTypes /\ SideTypes /\ WorkerTypes
  BY <1>1 DEF Good, Types, JobTypes, RowType, MemType, Job, Rows, Early, Late, Claimed, RunSteps
<1>3. {F10Keys} \in SUBSET Keys
  BY DEF Keys
<1>4. PICK m : m = [mem[p] EXCEPT !.keys = {F10Keys},
                                  !.status = IF failing THEN "PARTIAL" ELSE mem[p].status]
  OBVIOUS
<1>5. mem' = [mem EXCEPT ![p] = m] /\ m \in MemType
      /\ m.status = (IF failing THEN "PARTIAL" ELSE mem[p].status)
  <2>1. m \in MemType /\ m.status = (IF failing THEN "PARTIAL" ELSE mem[p].status)
    BY <1>2, <1>3, <1>4 DEF MemType, Statuses, ActiveStatuses
  <2>2. mem' = [mem EXCEPT ![p] = m]
    BY <1>1, <1>2, <1>4 DEF MemType
  <2> QED BY <2>1, <2>2
<1>6. CASE failing
  <2>1. [stage |-> "f10", status |-> "PARTIAL"] \in [stage : {"f10"}, status : Statuses]
    BY DEF Statuses
  <2>2. m.status \in Statuses \ {"COMPLETED"}
    BY <1>5, <1>6 DEF Statuses
  <2>3. "skip" \in Early \ {"queued", "retry"}
    BY DEF Early, Late, Claimed, RunSteps
  <2>4. EarlyMove(p, "skip")
    BY <1>1, <1>2, <1>5, <1>6, <2>1, <2>2, <2>3 DEF EarlyMove
  <2> QED BY <2>4, EarlyGood
<1>7. CASE ~failing
  <2>1. LateMove(p, "stages")
    BY <1>1, <1>2, <1>5, <1>7 DEF LateMove, Late
  <2>2. JobTypes' /\ Job' /\ NoneYet' /\ Outcome'
    BY <2>1, LateJob
  <2>3. /\ \A q \in Threads \ {p} : pc[q] \notin Claimed
        /\ \A s \in Stages : worker[s] = "off" /\ want[s] = NoUpdate
    BY <1>2, EarlyAlone
  <2>4. /\ pc'[p] = "stages" /\ \A q \in Threads \ {p} : pc'[q] = pc[q]
        /\ want'[p] = [stage |-> "f10", status |-> "COMPLETED"]
        /\ \A q \in Actors \ {p} : want'[q] = want[q]
    BY <1>1, <1>2, <1>7 DEF JobTypes, SideTypes, Actors
  <2>5. SideTypes' /\ WorkerTypes'
    BY <1>1, <1>2, <1>7 DEF SideTypes, WorkerTypes, StageStatuses, Statuses
  <2>6. Locking'
    BY <1>1, LockingAsk DEF Ask, Actors
  <2>7. Wants'
    BY <1>1, <2>3, <2>4, Distinct DEF Good, Side, Wants, Early, Late, Claimed, RunSteps, Actors
  <2>8. Workers'
    BY <1>1, <2>3 DEF Workers, Submitted
  <2>9. Recorded'
    BY <1>1, <1>2, <2>3, <2>4 DEF Recorded, JobTypes, Claimed, RunSteps
  <2> QED BY <2>2, <2>5, <2>6, <2>7, <2>8, <2>9 DEF Good, Types, Side
<1> QED BY <1>2, <1>6, <1>7

\* What the thread of the job writes of a stage.
StageEnds == {"RUNNING", "COMPLETED", "FAILED"}

\* The stages' updates of the sidecar, and the job's, after one is asked for.
LEMMA LateAsk ==
  ASSUME Good, NEW p \in Threads, pc[p] = "stages", want[p] = NoUpdate, NEW r \in requested,
         NEW st \in StageEnds,
         want[r] = NoUpdate, Ask(p, r, st), UNCHANGED <<sidecar, lock, held, requested, pc>>,
         \A s \in Stages : worker'[s] # worker[s] => worker'[s] \notin {"off"} /\ want[s] = NoUpdate
  PROVE  /\ SideTypes' /\ Side'
         /\ want'[p] = [stage |-> r, status |-> st]
         /\ \A q \in Actors, s \in Stages : want'[q].stage = s =>
              \/ q = p /\ s = r /\ want'[q].status = st
              \/ q = s /\ want[s].stage = s /\ want'[q] = want[q]
         /\ \A q \in Actors \ {p} : want'[q] = want[q]
<1>1. /\ want \in [Actors -> {NoUpdate} \cup [stage : {"f10"} \cup Stages, status : StageStatuses]]
      /\ SideTypes /\ requested \subseteq Stages /\ r \in Stages /\ p \in Actors
  BY DEF Good, Types, SideTypes, JobTypes, Actors
<1>2. /\ \A q \in Threads \ {p} : pc[q] \notin Claimed /\ want[q] = NoUpdate
      /\ \A s \in Stages : want[s] # NoUpdate => want[s].stage = s
  BY LateAlone DEF Late
<1>3. want' = [want EXCEPT ![p] = [stage |-> r, status |-> st]]
  BY DEF Ask
<1>4. /\ want'[p] = [stage |-> r, status |-> st] /\ \A q \in Actors \ {p} : want'[q] = want[q]
      /\ want'[p] # NoUpdate /\ want'[p].stage = r /\ want'[p].status = st
  BY <1>1, <1>3, Distinct
<1>5. SideTypes'
  <2>1. [stage |-> r, status |-> st] \in [stage : {"f10"} \cup Stages, status : StageStatuses]
    BY <1>1 DEF StageEnds, StageStatuses, Statuses, ActiveStatuses
  <2> QED BY <1>1, <1>3, <2>1 DEF SideTypes, Actors
<1>6. Locking'
  BY <1>1, LockingAsk, Distinct
<1>7. Wants'
  <2>1. \A s \in Stages : want'[s] = want[s]
    BY <1>4, Distinct DEF Actors
  <2>2. \A s \in Stages : want[s] # NoUpdate => worker'[s] \in {"work", "done"}
    BY DEF Good, Side, Wants
  <2>3. \A q \in Threads \ {p} : want'[q] = NoUpdate
    BY <1>2, <1>4 DEF Actors
  <2> QED BY <1>4, <2>1, <2>2, <2>3 DEF Good, Side, Wants, StageEnds, Early, Late, Claimed, RunSteps
<1>8. ASSUME NEW q \in Actors, NEW s \in Stages, want'[q].stage = s
      PROVE  \/ q = p /\ s = r /\ want'[q].status = st
             \/ q = s /\ want[s].stage = s /\ want'[q] = want[q]
  BY <1>2, <1>4, <1>8, Distinct DEF Actors
<1> QED BY <1>4, <1>5, <1>6, <1>7, <1>8 DEF Side

\* The next stage is announced.
LEMMA AnnounceGood == ASSUME Good, NEW p \in Threads, NEW s \in Stages, Announce(p, s) PROVE Good'
<1>1. /\ pc[p] = "stages" /\ want[p] = NoUpdate /\ s \in requested /\ worker[s] = "off"
      /\ Ask(p, s, "RUNNING") /\ worker' = [worker EXCEPT ![s] = "announced"]
      /\ UNCHANGED <<requested, row, failing, active, pc, mem, request, crashes, sidecar, lock, held, manifest>>
  BY DEF Announce, At, Ready, jobVars
<1>2. /\ \A q \in Threads \ {p} : pc[q] \notin Claimed /\ want[q] = NoUpdate
      /\ \A q \in Threads, r \in Stages : want[q].stage # r
      /\ WorkerTypes /\ JobTypes
  BY <1>1, LateAlone DEF Late, Good, Types
<1>3. want[s] = NoUpdate
  BY <1>1 DEF Good, Side, Wants
<1>4. worker'[s] = "announced" /\ \A r \in Stages \ {s} : worker'[r] = worker[r]
  BY <1>1, <1>2 DEF WorkerTypes
<1>5. /\ SideTypes' /\ Side' /\ want'[p] = [stage |-> s, status |-> "RUNNING"]
      /\ \A q \in Actors, r \in Stages : want'[q].stage = r =>
           \/ q = p /\ r = s /\ want'[q].status = "RUNNING"
           \/ q = r /\ want[r].stage = r /\ want'[q] = want[q]
      /\ \A q \in Actors \ {p} : want'[q] = want[q]
  <2>1. Ask(p, s, "RUNNING") /\ "RUNNING" \in StageEnds
    BY <1>1 DEF StageEnds
  <2> QED BY <1>1, <1>3, <1>4, <2>1, LateAsk
<1>6. LateMove(p, "stages")
  BY <1>1 DEF LateMove, Late, Good, Types, JobTypes, RowType, MemType, Job, Rows, Failing, Claimed, RunSteps
<1>7. JobTypes' /\ Job' /\ NoneYet' /\ Outcome'
  BY <1>6, LateJob
<1>8. WorkerTypes'
  BY <1>1, <1>2 DEF WorkerTypes
<1>9. Workers'
  <2>1. ASSUME NEW r \in Stages, NEW z, Says(r, z), r # s \/ "RUNNING" \in z PROVE Says(r, z)'
    BY <1>5, <2>1 DEF Says, Actors
  <2>2. Says(s, {"RUNNING"})'
    BY <1>3, <1>5, Distinct DEF Says
  <2>3. \E q \in Threads : want'[q].stage = s
    BY <1>5
  <2> QED BY <1>1, <1>2, <1>4, <2>1, <2>2, <2>3 DEF Good, Workers, Submitted
<1>10. Recorded'
  <2>1. \A q \in Threads : want'[q].stage \in requested => q = p /\ want'[q].status = "RUNNING"
    BY <1>2, <1>5 DEF JobTypes, Actors
  <2> QED BY <1>1, <1>2, <1>4, <2>1 DEF Good, Recorded, Completes, JobTypes, Claimed, RunSteps
<1> QED BY <1>5, <1>7, <1>8, <1>9, <1>10 DEF Good, Types

\* The announced stage is given to its thread.
LEMMA SubmitGood == ASSUME Good, NEW p \in Threads, NEW s \in Stages, Submit(p, s) PROVE Good'
<1>1. /\ pc[p] = "stages" /\ want[p] = NoUpdate /\ worker[s] = "announced"
      /\ worker' = [worker EXCEPT ![s] = "start"]
      /\ UNCHANGED <<requested, row, failing, active, pc, mem, request, crashes, sidecar, want, lock, held, manifest>>
  BY DEF Submit, At, Ready, jobVars, sideVars
<1>2. /\ \A q \in Threads, r \in Stages : want[q].stage # r
      /\ WorkerTypes /\ JobTypes /\ SideTypes
  BY <1>1, LateAlone DEF Late, Good, Types
<1>3. worker'[s] = "start" /\ \A r \in Stages \ {s} : worker'[r] = worker[r]
  BY <1>1, <1>2 DEF WorkerTypes
<1>4. SideTypes' /\ Side'
  <2>1. Locking'
    BY <1>1 DEF Good, Side, Locking
  <2>2. \A r \in Stages : want[r] # NoUpdate => worker[r] = worker'[r]
    BY <1>1, <1>3 DEF Good, Side, Wants
  <2>3. Wants'
    BY <1>1, <2>2 DEF Good, Side, Wants
  <2> QED BY <1>1, <1>2, <2>1, <2>3 DEF SideTypes, Side
<1>5. LateMove(p, "stages")
  BY <1>1 DEF LateMove, Late, Good, Types, JobTypes, RowType, MemType, Job, Rows, Failing, Claimed, RunSteps
<1>6. JobTypes' /\ Job' /\ NoneYet' /\ Outcome'
  BY <1>5, LateJob
<1>7. WorkerTypes'
  BY <1>1, <1>2 DEF WorkerTypes, Submitted
<1>8. Workers'
  <2>1. ASSUME NEW r \in Stages, NEW z PROVE Says(r, z)' <=> Says(r, z)
    BY <1>1 DEF Says
  <2>2. sidecar[s] = "RUNNING" /\ Says(s, {"RUNNING"})
    BY <1>1, <1>2 DEF Good, Workers
  <2>3. "start" \in Submitted /\ "start" \notin {"off", "announced", "collected"}
    BY DEF Submitted
  <2>4. s \in requested
    BY <1>1 DEF Good, Workers
  <2> QED BY <1>1, <1>3, <2>1, <2>2, <2>3, <2>4 DEF Good, Workers
<1>9. Recorded'
  <2>1. \A r \in Stages : Completes(r)' <=> Completes(r)
    BY <1>1 DEF Completes
  <2> QED BY <1>1, <1>2, <1>3, <2>1 DEF Good, Recorded, JobTypes
<1> QED BY <1>4, <1>6, <1>7, <1>8, <1>9 DEF Good, Types

\* A stage has ended: its files are recorded and its status asked for.
LEMMA CollectGood == ASSUME Good, NEW p \in Threads, NEW s \in Stages, CollectStage(p, s) PROVE Good'
<1>1. PICK st \in {"COMPLETED", "FAILED"} :
        /\ Ask(p, s, st)
        /\ row' = IF st = "COMPLETED" THEN [mem[p] EXCEPT !.keys = @ \cup {JobKeys(s)}] ELSE mem[p]
        /\ mem' = [mem EXCEPT ![p] = row']
  BY DEF CollectStage, Save
<1>2. /\ pc[p] = "stages" /\ want[p] = NoUpdate /\ want[s] = NoUpdate /\ worker[s] \in {"done", "failed"}
      /\ worker' = [worker EXCEPT ![s] = "collected"]
      /\ UNCHANGED <<requested, failing, active, pc, request, crashes, sidecar, lock, held, manifest>>
  BY DEF CollectStage, At, Ready
<1>3. /\ \A q \in Threads \ {p} : pc[q] \notin Claimed /\ want[q] = NoUpdate
      /\ \A q \in Threads, r \in Stages : want[q].stage # r
      /\ ~failing /\ WorkerTypes /\ JobTypes
  BY <1>2, LateAlone DEF Late, Good, Types
<1>4. s \in requested /\ sidecar[s] = "RUNNING"
  BY <1>2 DEF Good, Workers, Submitted
<1>5. worker'[s] = "collected" /\ \A r \in Stages \ {s} : worker'[r] = worker[r]
  BY <1>2, <1>3 DEF WorkerTypes
<1>6. /\ SideTypes' /\ Side' /\ want'[p] = [stage |-> s, status |-> st]
      /\ \A q \in Actors, r \in Stages : want'[q].stage = r =>
           \/ q = p /\ r = s /\ want'[q].status = st
           \/ q = r /\ want[r].stage = r /\ want'[q] = want[q]
      /\ \A q \in Actors \ {p} : want'[q] = want[q]
  <2>1. UNCHANGED <<sidecar, lock, held, requested, pc>>
    BY <1>2
  <2>2. \A r \in Stages : worker'[r] # worker[r] => worker'[r] \notin {"off"} /\ want[r] = NoUpdate
    BY <1>2, <1>5
  <2>3. Ask(p, s, st) /\ st \in StageEnds
    BY <1>1 DEF StageEnds
  <2>4. pc[p] = "stages" /\ want[p] = NoUpdate /\ want[s] = NoUpdate
    BY <1>2
  <2> QED BY <1>4, <2>1, <2>2, <2>3, <2>4, LateAsk
<1>7. /\ mem[p] \in MemType /\ mem[p].status \in ActiveStatuses /\ JobKeys(s) \in Keys
      /\ mem \in [Threads -> MemType]
  BY <1>2, <1>3 DEF JobTypes, MemType, Good, Job, Rows, Keys
<1>8. /\ row' \in RowType \cap MemType /\ row'.status \in ActiveStatuses
      /\ mem[p].keys \subseteq row'.keys /\ (st = "COMPLETED" => JobKeys(s) \in row'.keys)
  <2>1. CASE st = "COMPLETED"
    <3>1. row' = [mem[p] EXCEPT !.keys = mem[p].keys \cup {JobKeys(s)}]
      BY <1>1, <2>1
    <3> QED BY <3>1, <1>7 DEF MemType, RowType, Statuses
  <2>2. CASE st # "COMPLETED"
    BY <1>1, <1>7, <2>2 DEF MemType, RowType, Statuses
  <2> QED BY <2>1, <2>2
<1>9. LateMove(p, "stages")
  BY <1>1, <1>2, <1>3, <1>8 DEF LateMove, Late, JobTypes
<1>10. JobTypes' /\ Job' /\ NoneYet' /\ Outcome'
  BY <1>9, LateJob
<1>11. WorkerTypes'
  BY <1>2, <1>3 DEF WorkerTypes
<1>12. Workers'
  <2>1. ASSUME NEW r \in Stages, NEW z, Says(r, z), r # s PROVE Says(r, z)'
    BY <1>6, <2>1 DEF Says, Actors
  <2>2. Says(s, Ended)'
    BY <1>2, <1>6, Distinct DEF Says, Ended
  <2>3. \E q \in Threads : want'[q].stage = s
    BY <1>6
  <2>4. "collected" \notin Submitted \cup {"off", "announced"}
    BY DEF Submitted
  <2> QED BY <1>2, <1>3, <1>4, <1>5, <2>1, <2>2, <2>3, <2>4 DEF Good, Workers
<1>13. Recorded'
  <2>1. \A q \in Threads : want'[q].stage \in requested => q = p /\ want'[q].stage = s /\ want'[q].status = st
    BY <1>3, <1>6 DEF JobTypes, Actors
  <2>2. mem'[p].keys = row'.keys
    BY <1>1, <1>7
  <2>3. ASSUME NEW r \in requested, worker'[r] = "collected", Completes(r)' PROVE JobKeys(r) \in mem'[p].keys
    <3>1. CASE r = s
      <4>1. st = "COMPLETED"
        BY <1>2, <1>4, <2>1, <2>3, <3>1 DEF Completes
      <4> QED BY <3>1, <4>1, <2>2, <1>8
    <3>2. CASE r # s
      <4>1. worker[r] = "collected" /\ sidecar[r] = "COMPLETED"
        BY <1>2, <1>3, <1>5, <2>1, <2>3, <3>2 DEF Completes, JobTypes
      <4>2. JobKeys(r) \in mem[p].keys
        BY <1>2, <4>1 DEF Good, Recorded, Completes
      <4> QED BY <4>2, <2>2, <1>8
    <3> QED BY <3>1, <3>2
  <2> QED BY <1>2, <1>3, <2>3 DEF Recorded, Claimed, RunSteps
<1> QED BY <1>6, <1>10, <1>11, <1>12, <1>13 DEF Good, Types

\* All stages are collected: their files are merged into artifacts.json.
LEMMA MergeGood == ASSUME Good, NEW p \in Threads, Merge(p) PROVE Good'
<1>1. /\ pc[p] = "stages" /\ want[p] = NoUpdate /\ \A s \in requested : worker[s] = "collected"
      /\ manifest' = [whole |-> TRUE,
                      keys |-> (IF manifest.whole THEN manifest.keys ELSE {}) \cup mem[p].keys]
      /\ worker' = [s \in Stages |-> "off"] /\ pc' = [pc EXCEPT ![p] = "finish"]
      /\ UNCHANGED <<requested, row, failing, active, mem, request, crashes, sidecar, want, lock, held>>
  BY DEF Merge, At, Ready, Go, sideVars
<1>2. /\ \A q \in Threads \ {p} : pc[q] \notin Claimed /\ want[q] = NoUpdate
      /\ \A q \in Threads, r \in Stages : want[q].stage # r
      /\ ~failing /\ row.status \in ActiveStatuses /\ WorkerTypes /\ JobTypes /\ SideTypes
  BY <1>1, LateAlone DEF Late, Good, Types
<1>3. \A s \in Stages : want[s] = NoUpdate
  BY <1>1 DEF Good, Side, Wants, Workers
<1>4. /\ pc'[p] = "finish" /\ \A q \in Threads \ {p} : pc'[q] = pc[q]
  BY <1>1, <1>2 DEF JobTypes
<1>5. LateMove(p, "finish")
  <2>1. row \in RowType /\ mem[p] \in MemType /\ mem' = [mem EXCEPT ![p] = mem[p]]
    BY <1>1, <1>2 DEF JobTypes, RowType, MemType
  <2> QED BY <1>1, <1>2, <2>1 DEF LateMove, Late
<1>6. JobTypes' /\ Job' /\ NoneYet' /\ Outcome'
  BY <1>5, LateJob
<1>7. SideTypes' /\ WorkerTypes'
  BY <1>1, <1>2 DEF SideTypes, WorkerTypes
<1>8. Side'
  <2>1. Locking'
    BY <1>1 DEF Good, Side, Locking
  <2>2. Wants'
    BY <1>1, <1>2, <1>3, <1>4 DEF Good, Side, Wants
  <2> QED BY <2>1, <2>2 DEF Side
<1>9. Workers'
  BY <1>1 DEF Workers, Submitted
<1>10. Recorded'
  <2>1. \A s \in requested : sidecar[s] \in Ended
    BY <1>1, <1>2 DEF Good, Workers, JobTypes
  <2>2. \A s \in requested : sidecar[s] = "COMPLETED" => JobKeys(s) \in mem[p].keys
    BY <1>1 DEF Good, Recorded, Completes
  <2>3. mem[p].keys \subseteq manifest'.keys
    BY <1>1
  <2> QED BY <1>1, <1>2, <1>4, <2>1, <2>2, <2>3 DEF Recorded, Claimed, RunSteps
<1> QED BY <1>6, <1>7, <1>8, <1>9, <1>10 DEF Good, Types

-----------------------------------------------------------------------------
\* A step of the thread of a stage: it may report progress or register files.
WorkerMove(s, l) ==
    /\ worker[s] \in Submitted /\ l \in Submitted
    /\ worker' = [worker EXCEPT ![s] = l]
    /\ \/ UNCHANGED want /\ (want[s] = NoUpdate \/ worker[s] \notin {"work", "done"})
       \/ want[s] = NoUpdate /\ l \in {"work", "done"} /\ Ask(s, s, "RUNNING")
    /\ UNCHANGED <<jobVars, sidecar, lock, held, crashes>>

\* It keeps what is said of the job.
LEMMA WorkerGood ==
  ASSUME Good, NEW s \in Stages, NEW l, WorkerMove(s, l) PROVE Good'
<1>1. /\ worker[s] \in Submitted /\ l \in Submitted /\ worker' = [worker EXCEPT ![s] = l]
      /\ UNCHANGED <<requested, row, failing, active, pc, mem, request, crashes, sidecar, lock, held>>
  BY DEF WorkerMove, jobVars
<1>2. want[s] = NoUpdate
  BY DEF WorkerMove, Good, Side, Wants
<1>3. PICK p \in Threads : pc[p] = "stages"
  BY <1>1 DEF Good, Workers, Submitted
<1>4. /\ \A q \in Threads \ {p} : pc[q] \notin Claimed
      /\ row.status \in ActiveStatuses /\ WorkerTypes /\ JobTypes /\ SideTypes /\ s \in Actors
  BY <1>3, LateAlone DEF Late, Good, Types, Actors
<1>5. worker'[s] = l /\ \A r \in Stages \ {s} : worker'[r] = worker[r]
  BY <1>1, <1>4 DEF WorkerTypes
<1>6. /\ \A q \in Actors \ {s} : want'[q] = want[q]
      /\ \/ want' = want
         \/ want'[s] = [stage |-> s, status |-> "RUNNING"] /\ l \in {"work", "done"}
  BY <1>2, <1>4 DEF WorkerMove, Ask, SideTypes, Actors
<1>7. SideTypes'
  <2>1. [stage |-> s, status |-> "RUNNING"] \in [stage : {"f10"} \cup Stages, status : StageStatuses]
    BY DEF StageStatuses, Statuses, ActiveStatuses
  <2>2. want' = want \/ want' = [want EXCEPT ![s] = [stage |-> s, status |-> "RUNNING"]]
    BY DEF WorkerMove, Ask
  <2> QED BY <1>1, <1>4, <2>1, <2>2 DEF SideTypes, Actors
<1>8. JobTypes' /\ WorkerTypes'
  BY <1>1, <1>4 DEF JobTypes, WorkerTypes
<1>9. Job' /\ NoneYet'
  BY <1>1 DEF Good, Job, Rows, Failing, Claim, NoneYet
<1>10. Outcome'
  BY <1>1, <1>4 DEF Outcome, ActiveStatuses
<1>11. Locking'
  <2>1. CASE want' = want
    BY <1>1, <2>1 DEF Good, Side, Locking
  <2>2. CASE want' # want
    BY <1>1, <1>2, <1>4, <2>2, LockingAsk, Distinct DEF WorkerMove
  <2> QED BY <2>1, <2>2
<1>12. Wants'
  <2>1. \A q \in Threads : want'[q] = want[q]
    BY <1>6, Distinct DEF Actors
  <2>2. \A r \in Stages : want'[r] # NoUpdate =>
          worker'[r] \in {"work", "done"} /\ want'[r] = [stage |-> r, status |-> "RUNNING"]
    BY <1>2, <1>5, <1>6 DEF Good, Side, Wants, Actors
  <2> QED BY <1>1, <2>1, <2>2 DEF Good, Side, Wants
<1>13. Workers'
  <2>1. ASSUME NEW r \in Stages, NEW z, Says(r, z), r # s \/ "RUNNING" \in z PROVE Says(r, z)'
    <3>1. \A q \in Actors : want'[q] = want[q] \/ (q = s /\ want'[q] = [stage |-> s, status |-> "RUNNING"])
      BY <1>6
    <3> QED BY <2>1, <3>1 DEF Says
  <2>2. sidecar[s] = "RUNNING" /\ Says(s, {"RUNNING"}) /\ s \in requested
    BY <1>1 DEF Good, Workers, Submitted
  <2>3. l \notin {"off", "announced", "collected"}
    BY <1>1 DEF Submitted
  <2>4. \A q \in Threads : want'[q] = want[q]
    BY <1>6, Distinct DEF Actors
  <2> QED BY <1>1, <1>3, <1>5, <2>1, <2>2, <2>3, <2>4 DEF Good, Workers
<1>14. Recorded'
  <2>1. \A q \in Threads : want'[q] = want[q]
    BY <1>6, Distinct DEF Actors
  <2>2. \A r \in Stages : Completes(r)' <=> Completes(r)
    BY <1>1, <2>1 DEF Completes
  <2>3. l # "collected"
    BY <1>1 DEF Submitted
  <2> QED BY <1>1, <1>3, <1>4, <1>5, <2>2, <2>3 DEF Good, Recorded, JobTypes, Claimed, RunSteps
<1> QED BY <1>7, <1>8, <1>9, <1>10, <1>11, <1>12, <1>13, <1>14 DEF Good, Types, Side

\* The steps of the threads of the stages.
LEMMA StageGood == ASSUME Good, NEW s \in Stages, Stage(s) PROVE Good'
<1> USE DEF Worker, sideVars, Ready, Submitted
<1>1. worker = [worker EXCEPT ![s] = worker[s]]
  BY DEF Good, Types, WorkerTypes
<1>2. CASE Begin(s)
  BY <1>2, WorkerGood DEF Begin, WorkerMove
<1>3. CASE Progress(s)
  BY <1>1, <1>3, WorkerGood DEF Progress, WorkerMove, fileVars
<1>4. CASE StageFails(s)
  BY <1>4, WorkerGood DEF StageFails, WorkerMove
<1>5. CASE Register(s)
  <2>1. \E l \in {"open", "failed"} : worker' = [worker EXCEPT ![s] = l]
    BY <1>5 DEF Register
  <2> QED BY <1>5, <2>1, WorkerGood DEF Register, WorkerMove
<1>6. CASE OpenFile(s)
  BY <1>6, WorkerGood DEF OpenFile, WorkerMove
<1>7. CASE FillFile(s)
  <2>1. want[s] = NoUpdate
    BY <1>7 DEF FillFile, Good, Side, Wants
  <2>2. WorkerMove(s, "done")
    BY <1>7, <2>1 DEF FillFile, WorkerMove
  <2> QED BY <2>2, WorkerGood
<1> QED BY <1>2, <1>3, <1>4, <1>5, <1>6, <1>7 DEF Stage

-----------------------------------------------------------------------------
\* Whoever is changing the sidecar works for the thread of the job.
LEMMA WantsClaimed ==
  ASSUME Good, NEW p \in Actors, want[p] # NoUpdate
  PROVE  /\ \E q \in Threads : pc[q] \in Claimed \ {"queued", "retry", "finish"}
         /\ row.status \in ActiveStatuses
         /\ want[p].stage \in {"f10"} \cup requested /\ want[p].status # "NOT_REQUESTED"
         /\ p \in Stages => want[p].status = "RUNNING"
<1>1. CASE p \in Threads
  BY <1>1, Distinct DEF Good, Side, Wants, Job, Rows
<1>2. CASE p \in Stages
  <2>1. worker[p] \in Submitted /\ want[p] = [stage |-> p, status |-> "RUNNING"]
    BY <1>2 DEF Good, Side, Wants, Submitted
  <2>2. p \in requested /\ \E q \in Threads : pc[q] = "stages"
    BY <1>2, <2>1 DEF Good, Workers, Submitted
  <2> QED BY <2>1, <2>2 DEF Good, Job, Rows, Claimed, RunSteps
<1> QED BY <1>1, <1>2 DEF Actors

\* Without such a thread nobody is, and no stage runs.
LEMMA Quiet ==
  ASSUME Good, \A p \in Threads : pc[p] \notin Claimed \ {"queued", "retry", "finish"}
  PROVE  /\ \A q \in Actors : want[q] = NoUpdate
         /\ \A s \in Stages : worker[s] = "off"
<1>1. \A q \in Actors : want[q] = NoUpdate
  BY WantsClaimed
<1>2. \A s \in Stages : worker[s] = "off"
  BY DEF Good, Workers, Claimed, RunSteps
<1> QED BY <1>1, <1>2

\* The sidecar is read for a change once its lock is free.
LEMMA SideReadGood == ASSUME Good, NEW p \in Actors, SideRead(p) PROVE Good'
<1>1. /\ want[p] # NoUpdate /\ lock = "free" /\ lock' = p /\ held' = [held EXCEPT ![p] = sidecar]
      /\ UNCHANGED <<sidecar, want, requested, row, failing, active, pc, mem, request, crashes, worker, manifest>>
  BY DEF SideRead, jobVars, fileVars
<1>2. \A q \in Actors : held[q] = NoSidecar
  BY <1>1, Distinct DEF Good, Side, Locking
<1>3. held \in [Actors -> {NoSidecar} \cup [{"f10"} \cup Stages -> StageStatuses]]
  BY DEF Good, Types, SideTypes, Actors
<1>4. Types'
  BY <1>1, <1>3 DEF Good, Types, JobTypes, SideTypes, WorkerTypes, Actors
<1>5. Locking'
  BY <1>1, <1>2, <1>3 DEF Locking
<1>6. Wants'
  BY <1>1 DEF Good, Side, Wants
<1>7. Job' /\ NoneYet' /\ Outcome'
  BY <1>1 DEF Good, Job, Claim, Rows, Failing, NoneYet, Outcome
<1>8. Workers' /\ Recorded'
  BY <1>1 DEF Good, Workers, Recorded, Says, Completes
<1> QED BY <1>4, <1>5, <1>6, <1>7, <1>8 DEF Good, Side

\* The change is made to the sidecar as it still is.
LEMMA SideWriteGood == ASSUME Good, NEW p \in Actors, SideWrite(p) PROVE Good'
<1>1. /\ held[p] # NoSidecar /\ lock' = "free"
      /\ sidecar' = [held[p] EXCEPT ![want[p].stage] = want[p].status]
      /\ want' = [want EXCEPT ![p] = NoUpdate] /\ held' = [held EXCEPT ![p] = NoSidecar]
      /\ UNCHANGED <<requested, row, failing, active, pc, mem, request, crashes, worker, manifest>>
  BY DEF SideWrite, jobVars, fileVars
<1>2. PICK u : u = want[p]
  OBVIOUS
<1>3. /\ held[p] = sidecar /\ u # NoUpdate /\ lock = p
      /\ sidecar \in [{"f10"} \cup Stages -> StageStatuses]
      /\ want \in [Actors -> {NoUpdate} \cup [stage : {"f10"} \cup Stages, status : StageStatuses]]
      /\ held \in [Actors -> {NoSidecar} \cup [{"f10"} \cup Stages -> StageStatuses]]
      /\ u.stage \in {"f10"} \cup Stages /\ u.status \in StageStatuses
  BY <1>1, <1>2 DEF Good, Side, Locking, Types, SideTypes, Actors
<1>4. /\ \E q \in Threads : pc[q] \in Claimed \ {"queued", "retry", "finish"}
      /\ row.status \in ActiveStatuses
      /\ u.stage \in {"f10"} \cup requested /\ u.status # "NOT_REQUESTED"
      /\ p \in Stages => u.status = "RUNNING"
  BY <1>2, <1>3, WantsClaimed
<1>5. /\ sidecar' = [sidecar EXCEPT ![u.stage] = u.status]
      /\ sidecar'[u.stage] = u.status
      /\ \A s \in Stages : s # u.stage => sidecar'[s] = sidecar[s]
  BY <1>1, <1>2, <1>3
<1>6. /\ want'[p] = NoUpdate /\ held'[p] = NoSidecar
      /\ \A q \in Actors \ {p} : want'[q] = want[q] /\ held'[q] = held[q]
  BY <1>1, <1>3
<1>7. Types'
  BY <1>1, <1>3, <1>5 DEF Good, Types, JobTypes, SideTypes, WorkerTypes, Actors
<1>8. Side'
  <2>1. Locking'
    BY <1>3, <1>6 DEF Good, Side, Locking
  <2>2. \A s \in Stages : sidecar'[s] = "NOT_REQUESTED" <=> s \notin requested
    BY <1>4, <1>5, Distinct DEF Good, Side, Wants
  <2>3. \A q \in Actors : want'[q] # NoUpdate => want'[q] = want[q] /\ want[q] # NoUpdate
    BY <1>6
  <2>4. \A q \in Threads : want'[q] # NoUpdate =>
          /\ pc[q] \in Claimed \ {"queued", "retry", "finish"}
          /\ want'[q].stage \in {"f10"} \cup requested
          /\ want'[q].status # "NOT_REQUESTED"
          /\ pc[q] \in Early => want'[q].stage = "f10" \/ want'[q].status = "SKIPPED_INCOMPLETE_F10"
    <3>1. ASSUME NEW q \in Threads, want'[q] # NoUpdate PROVE want'[q] = want[q] /\ want[q] # NoUpdate
      <4>1. q \in Actors
        BY DEF Actors
      <4> QED BY <2>3, <3>1, <4>1
    <3> QED BY <3>1 DEF Good, Side, Wants
  <2>5. \A s \in Stages : want'[s] # NoUpdate =>
          worker[s] \in {"work", "done"} /\ want'[s] = [stage |-> s, status |-> "RUNNING"]
    BY <2>3 DEF Good, Side, Wants, Actors
  <2>6. Wants'
    BY <1>1, <2>2, <2>4, <2>5 DEF Wants
  <2> QED BY <2>1, <2>6 DEF Side
<1>9. Job'
  BY <1>1 DEF Good, Job, Claim, Rows, Failing
<1>10. \A s \in Stages : sidecar'[s] # sidecar[s] => u.stage = s /\ sidecar'[s] = u.status
  BY <1>5
<1>11. NoneYet'
  <2>1. ASSUME NEW s \in Stages, sidecar'[s] = "COMPLETED", sidecar[s] # "COMPLETED",
               failing \/ \E q \in Threads : pc[q] \in Early
        PROVE  FALSE
    <3>1. u.stage = s /\ u.status = "COMPLETED"
      BY <1>10, <2>1
    <3>2. p \in Threads
      BY <1>4, <3>1 DEF Actors
    <3>3. pc[p] \in Claimed \ Early
      BY <1>2, <1>3, <3>1, <3>2, Distinct DEF Good, Side, Wants
    <3> QED BY <2>1, <3>2, <3>3 DEF Good, Job, Claim, Failing, Early, Late
  <2> QED BY <1>1, <2>1 DEF Good, NoneYet
<1>12. Outcome'
  BY <1>1, <1>4 DEF Outcome, ActiveStatuses
<1>13. Workers'
  <2>1. ASSUME NEW s \in Stages, NEW z, Says(s, z) PROVE Says(s, z)' /\ (u.stage = s => u.status \in z)
    BY <1>2, <1>6, <2>1, Distinct DEF Says
  <2>2. ASSUME NEW s \in Stages, NEW z, Says(s, z),
               sidecar[s] \in z \/ \E q \in Threads : want[q].stage = s
        PROVE  sidecar'[s] \in z \/ \E q \in Threads : want'[q].stage = s
    BY <1>2, <1>5, <1>6, <2>1, <2>2 DEF Actors
  <2>3. ASSUME NEW s \in Stages, worker[s] = "announced"
        PROVE  Says(s, {"RUNNING"})' /\ (sidecar'[s] = "RUNNING" \/ \E q \in Threads : want'[q].stage = s)
    BY <2>1, <2>2, <2>3 DEF Good, Workers
  <2>4. ASSUME NEW s \in Stages, worker[s] \in Submitted
        PROVE  Says(s, {"RUNNING"})' /\ sidecar'[s] = "RUNNING"
    BY <1>10, <2>1, <2>4 DEF Good, Workers
  <2>5. ASSUME NEW s \in Stages, worker[s] = "collected"
        PROVE  Says(s, Ended)' /\ (sidecar'[s] \in Ended \/ \E q \in Threads : want'[q].stage = s)
    BY <2>1, <2>2, <2>5 DEF Good, Workers
  <2> QED BY <1>1, <2>3, <2>4, <2>5 DEF Good, Workers
<1>14. Recorded'
  <2>1. \A q \in Threads : pc[q] # "finish"
    BY <1>4 DEF Good, Job, Claim, Claimed, RunSteps
  <2>2. ASSUME NEW s \in Stages, Completes(s)' PROVE Completes(s)
    <3>1. CASE sidecar'[s] = "COMPLETED"
      <4>1. CASE sidecar'[s] = sidecar[s]
        BY <3>1, <4>1 DEF Completes
      <4>2. CASE sidecar'[s] # sidecar[s]
        <5>1. u.stage = s /\ u.status = "COMPLETED" /\ p \in Threads
          BY <1>4, <1>10, <3>1, <4>2 DEF Actors
        <5> QED BY <1>2, <5>1 DEF Completes
      <4> QED BY <4>1, <4>2
    <3>2. CASE \E q \in Threads : want'[q].stage = s /\ want'[q].status = "COMPLETED"
      BY <1>6, <3>2, Distinct DEF Completes, Actors
    <3> QED BY <2>2, <3>1, <3>2 DEF Completes
  <2> QED BY <1>1, <2>1, <2>2 DEF Good, Recorded, Types, JobTypes
<1> QED BY <1>7, <1>8, <1>9, <1>11, <1>12, <1>13, <1>14 DEF Good

-----------------------------------------------------------------------------
\* The run ends without its stages: the row is saved, not COMPLETED.
LEMMA CloseGood == ASSUME Good, NEW p \in Threads, Close(p) PROVE Good'
<1>1. /\ pc[p] \in {"close", "skip"} /\ want[p] = NoUpdate
      /\ row' = mem[p] /\ mem' = [mem EXCEPT ![p] = Nothing] /\ active' = FALSE
      /\ pc' = [pc EXCEPT ![p] = "idle"]
      /\ UNCHANGED <<requested, failing, request, crashes, sidecar, lock, want, held, manifest, worker>>
  BY DEF Close, At, Ready, Go, sideVars, fileVars
<1>2. /\ pc[p] \in Early /\ pc \in [Threads -> Pcs] /\ mem \in [Threads -> MemType]
      /\ mem[p].status \in Statuses \ {"COMPLETED"}
  BY <1>1 DEF Good, Types, JobTypes, MemType, Job, Rows, Early, Late, Claimed, RunSteps
<1>3. /\ \A q \in Threads \ {p} : pc[q] \notin Claimed \cup {"relock"}
      /\ \A s \in Stages : worker[s] = "off" /\ want[s] = NoUpdate /\ sidecar[s] # "COMPLETED"
      /\ request = Nothing \/ request.status \in ActiveStatuses
  BY <1>2, EarlyAlone
<1>4. \A q \in Threads : pc'[q] \notin Claimed \cup {"relock"}
  BY <1>1, <1>2, <1>3 DEF Claimed, RunSteps
<1>5. \A q \in Actors : want[q] = NoUpdate
  BY <1>1, <1>3 DEF Good, Side, Wants, Actors
<1>6. row' \in RowType /\ row'.status # "COMPLETED"
  BY <1>1, <1>2 DEF RowType, MemType
<1>7. Types'
  <2>1. Nothing \in MemType
    BY DEF MemType, Nothing
  <2>2. mem' \in [Threads -> MemType] /\ pc' \in [Threads -> Pcs]
    BY <1>1, <1>2, <2>1 DEF Pcs
  <2> QED BY <1>1, <1>6, <2>2 DEF Good, Types, JobTypes, SideTypes, WorkerTypes, RowType, MemType
<1>8. Job'
  <2>1. Claim'
    BY <1>4, <1>7 DEF Claim, Types, JobTypes
  <2>2. Rows'
    BY <1>1, <1>4 DEF Rows, Claimed, RunSteps
  <2>3. Failing'
    BY <1>1, <1>3, <1>4, <1>6 DEF Failing, Late, Claimed, RunSteps
  <2> QED BY <2>1, <2>2, <2>3 DEF Job
<1>9. Side'
  BY <1>1, <1>5 DEF Good, Side, Locking, Wants, Actors
<1>10. Workers' /\ Recorded'
  BY <1>1, <1>3, <1>4 DEF Workers, Recorded, Submitted, Claimed, RunSteps
<1>11. NoneYet' /\ Outcome'
  BY <1>1, <1>3, <1>6 DEF NoneYet, Outcome
<1> QED BY <1>7, <1>8, <1>9, <1>10, <1>11 DEF Good

\* The run or the retry ends with its stages: the row is COMPLETED.
LEMMA FinishGood == ASSUME Good, NEW p \in Threads, Finish(p) PROVE Good'
<1>1. /\ pc[p] = "finish" /\ want[p] = NoUpdate
      /\ row' = [mem[p] EXCEPT !.status = "COMPLETED"] /\ mem' = [mem EXCEPT ![p] = Nothing]
      /\ active' = FALSE /\ pc' = [pc EXCEPT ![p] = "idle"]
      /\ UNCHANGED <<requested, failing, request, crashes, sidecar, lock, want, held, manifest, worker>>
  BY DEF Finish, At, Ready, Go, sideVars, fileVars
<1>2. /\ pc \in [Threads -> Pcs] /\ mem \in [Threads -> MemType]
  BY DEF Good, Types, JobTypes, MemType
<1>3. /\ \A q \in Threads \ {p} : pc[q] \notin Claimed /\ ~failing
      /\ ~failing /\ (request = Nothing \/ request.status \in ActiveStatuses)
  BY <1>1, LateAlone DEF Late
<1>4. \A q \in Threads : pc'[q] \notin Claimed
  BY <1>1, <1>2, <1>3 DEF Claimed, RunSteps
<1>5. /\ \A q \in Actors : want[q] = NoUpdate
      /\ \A s \in Stages : worker[s] = "off"
  BY <1>1, <1>3, Quiet
<1>6. /\ row' \in RowType /\ row'.keys = mem[p].keys
      /\ \A q \in Threads : pc'[q] = "relock" => pc[q] = "relock"
  BY <1>1, <1>2 DEF RowType, MemType, Statuses
<1>7. Types'
  <2>1. Nothing \in MemType
    BY DEF MemType, Nothing
  <2>2. mem' \in [Threads -> MemType] /\ pc' \in [Threads -> Pcs]
    BY <1>1, <1>2, <2>1 DEF Pcs
  <2> QED BY <1>1, <1>6, <2>2 DEF Good, Types, JobTypes, SideTypes, WorkerTypes, RowType, MemType
<1>8. Job'
  <2>1. Claim'
    BY <1>4, <1>7 DEF Claim, Types, JobTypes
  <2>2. Rows'
    BY <1>1, <1>4 DEF Rows, Claimed, RunSteps
  <2>3. Failing'
    BY <1>1, <1>3, <1>4 DEF Failing, Early
  <2> QED BY <2>1, <2>2, <2>3 DEF Job
<1>9. Side'
  BY <1>1, <1>5 DEF Good, Side, Locking, Wants, Actors
<1>10. Workers' /\ Recorded'
  BY <1>1, <1>4, <1>5 DEF Workers, Recorded, Submitted, Claimed, RunSteps
<1>11. NoneYet'
  BY <1>1, <1>3, <1>4 DEF NoneYet, Early
<1>12. Outcome'
  BY <1>1, <1>6 DEF Good, Recorded, Outcome
<1> QED BY <1>7, <1>8, <1>9, <1>10, <1>11, <1>12 DEF Good

-----------------------------------------------------------------------------
\* The retry of the base class exports again and releases the job.
LEMMA RetryBaseGood == ASSUME Good, NEW p \in Threads, RetryBase(p) PROVE Good'
<1>1. /\ pc[p] = "retry" /\ want[p] = NoUpdate /\ failing' \in BOOLEAN
      /\ active' = FALSE /\ pc' = [pc EXCEPT ![p] = "reread"]
      /\ UNCHANGED <<requested, mem, request, crashes, sidecar, lock, want, held, worker>>
  BY DEF RetryBase, At, Ready, Go, sideVars
<1>2. pc[p] \in Early /\ pc \in [Threads -> Pcs] /\ row \in RowType
  BY <1>1 DEF Good, Types, JobTypes, RowType, Early, Late, Claimed
<1>3. row' \in RowType /\ (row'.status = "COMPLETED" => ~failing')
  <2>1. \/ row' = [status |-> IF failing' THEN "PARTIAL" ELSE "COMPLETED", keys |-> {F10Keys}]
        \/ row' = [row EXCEPT !.status = "PARTIAL"]
    BY DEF RetryBase
  <2>2. {F10Keys} \in SUBSET Keys
    BY DEF Keys
  <2>3. {"PARTIAL", "COMPLETED"} \subseteq Statuses
    BY DEF Statuses
  <2>4. CASE row' = [status |-> IF failing' THEN "PARTIAL" ELSE "COMPLETED", keys |-> {F10Keys}]
    BY <2>2, <2>3, <2>4 DEF RowType
  <2>5. CASE row' = [row EXCEPT !.status = "PARTIAL"]
    BY <1>2, <2>3, <2>5 DEF RowType
  <2> QED BY <2>1, <2>4, <2>5
<1>4. /\ \A q \in Threads \ {p} : pc[q] \notin Claimed \cup {"relock"}
      /\ \A s \in Stages : worker[s] = "off" /\ want[s] = NoUpdate /\ sidecar[s] # "COMPLETED"
      /\ request = Nothing \/ request.status \in ActiveStatuses
  BY <1>2, EarlyAlone
<1>5. \A q \in Threads : pc'[q] \notin Claimed \cup {"relock"}
  BY <1>1, <1>2, <1>4 DEF Claimed, RunSteps
<1>6. \A q \in Actors : want[q] = NoUpdate
  BY <1>1, <1>4 DEF Good, Side, Wants, Actors
<1>7. Types'
  BY <1>1, <1>2, <1>3 DEF Good, Types, JobTypes, SideTypes, WorkerTypes, RowType, Pcs
<1>8. Job'
  <2>1. Claim'
    BY <1>5, <1>7 DEF Claim, Types, JobTypes
  <2>2. Rows'
    BY <1>1, <1>5 DEF Rows, Claimed, RunSteps
  <2>3. Failing'
    BY <1>1, <1>3, <1>4, <1>5 DEF Failing, Late, Claimed, RunSteps
  <2> QED BY <2>1, <2>2, <2>3 DEF Job
<1>9. Side'
  BY <1>1, <1>6 DEF Good, Side, Locking, Wants, Actors
<1>10. Workers' /\ Recorded'
  BY <1>1, <1>4, <1>5 DEF Workers, Recorded, Submitted, Claimed, RunSteps
<1>11. NoneYet'
  BY <1>1, <1>4 DEF NoneYet
<1>12. Outcome'
  <2>1. \E q \in Threads : pc'[q] = "reread"
    BY <1>1, <1>2
  <2> QED BY <1>1, <1>4, <2>1 DEF Good, Types, JobTypes, Outcome
<1> QED BY <1>7, <1>8, <1>9, <1>10, <1>11, <1>12 DEF Good

\* The row that the retry has saved is read again: the stages are left to do,
\* or the retry ends.
LEMMA RetryRereadGood == ASSUME Good, NEW p \in Threads, RetryReread(p) PROVE Good'
<1>1. /\ pc[p] = "reread" /\ want[p] = NoUpdate
      /\ UNCHANGED <<requested, row, failing, active, request, crashes, sidecar, lock, want, held, manifest, worker>>
  BY DEF RetryReread, At, Ready, sideVars, fileVars
<1>2. /\ pc \in [Threads -> Pcs] /\ mem \in [Threads -> MemType] /\ row \in RowType
      /\ requested \subseteq Stages /\ row \in MemType
  BY DEF Good, Types, JobTypes, RowType, MemType
<1>3. PICK l \in {"relock", "idle"} :
        /\ pc' = [pc EXCEPT ![p] = l]
        /\ l = "relock" => row.status = "COMPLETED" /\ mem' = [mem EXCEPT ![p] = row]
        /\ l = "idle" => /\ UNCHANGED mem
                         /\ row.status = "COMPLETED" =>
                              \/ requested = {}
                              \/ \A s \in Stages : sidecar[s] \in {"COMPLETED", "NOT_REQUESTED"}
  BY DEF RetryReread, Go
<1>4. pc'[p] = l /\ \A q \in Threads \ {p} : pc'[q] = pc[q]
  BY <1>2, <1>3
<1>5. /\ \A q \in Threads \ {p} : mem'[q] = mem[q]
      /\ \A q \in Threads : pc'[q] \in Claimed <=> pc[q] \in Claimed
      /\ \A q \in Threads : pc'[q] \in Claimed => pc'[q] = pc[q] /\ mem'[q] = mem[q]
      /\ \A q \in Threads : pc[q] \in Claimed => pc'[q] = pc[q] /\ mem'[q] = mem[q]
      /\ "relock" \notin Claimed /\ "idle" \notin Claimed
  BY <1>1, <1>2, <1>3, <1>4 DEF Claimed, RunSteps
<1>6. Types'
  <2>1. mem' \in [Threads -> MemType] /\ pc' \in [Threads -> Pcs]
    BY <1>2, <1>3 DEF Pcs
  <2> QED BY <1>1, <2>1 DEF Good, Types, JobTypes, SideTypes, WorkerTypes, MemType
<1>7. Job'
  <2>1. Claim'
    BY <1>1, <1>5, <1>6 DEF Good, Job, Claim, Types, JobTypes
  <2>2. Rows'
    BY <1>1, <1>5 DEF Good, Job, Rows, Claimed, RunSteps
  <2>3. row.status = "COMPLETED" => ~failing /\ \A q \in Threads : pc[q] \notin Claimed
    BY DEF Good, Job, Rows, Failing, Statuses, ActiveStatuses
  <2>4. Failing'
    BY <1>1, <1>3, <1>4, <1>5, <2>3 DEF Good, Job, Failing, Early, Late, Claimed, RunSteps
  <2> QED BY <2>1, <2>2, <2>4 DEF Job
<1>8. Side'
  <2>1. \A q \in Threads : want[q] # NoUpdate => pc'[q] = pc[q]
    BY <1>5 DEF Good, Side, Wants
  <2> QED BY <1>1, <2>1 DEF Good, Side, Locking, Wants
<1>9. Workers'
  BY <1>1, <1>5 DEF Good, Workers, Says, Claimed, RunSteps
<1>10. Recorded'
  BY <1>1, <1>5 DEF Good, Recorded, Completes, Claimed, RunSteps
<1>11. NoneYet'
  BY <1>1, <1>5 DEF Good, NoneYet, Early
<1>12. Outcome'
  <2>1. ASSUME row.status = "COMPLETED"
        PROVE  \/ crashes # 0 \/ \E q \in Threads : pc'[q] \in Claimed \cup {"reread", "relock"}
               \/ \A s \in requested : sidecar[s] \in Ended
    <3>1. CASE l = "relock"
      BY <1>4, <3>1
    <3>2. CASE l = "idle"
      BY <1>2, <1>3, <2>1, <3>2 DEF Good, Side, Wants, Ended
    <3> QED BY <3>1, <3>2
  <2> QED BY <1>1, <2>1 DEF Good, Outcome
<1> QED BY <1>6, <1>7, <1>8, <1>9, <1>10, <1>11, <1>12 DEF Good

\* The retry takes the job again for its stages, unless someone else has it.
LEMMA RetryRelockGood == ASSUME Good, NEW p \in Threads, RetryRelock(p) PROVE Good'
<1>1. /\ pc[p] = "relock" /\ want[p] = NoUpdate
      /\ UNCHANGED <<requested, failing, request, crashes, sidecar, lock, want, held, manifest, worker>>
  BY DEF RetryRelock, At, Ready, sideVars, fileVars
<1>2. /\ pc \in [Threads -> Pcs] /\ mem \in [Threads -> MemType] /\ row \in RowType /\ ~failing
      /\ \A q \in Threads : pc[q] \notin Early
  BY <1>1 DEF Good, Types, JobTypes, RowType, MemType, Job, Failing
<1>3. CASE active
  <2>1. /\ pc' = [pc EXCEPT ![p] = "idle"] /\ mem' = [mem EXCEPT ![p] = Nothing] /\ UNCHANGED <<active, row>>
    BY <1>3 DEF RetryRelock, Go
  <2>2. PICK r \in Threads : pc[r] \in Claimed
    BY <1>3 DEF Good, Job, Rows
  <2>3. row.status \in ActiveStatuses
    BY <2>2 DEF Good, Job, Rows
  <2>4. pc'[p] = "idle" /\ \A q \in Threads \ {p} : pc'[q] = pc[q] /\ mem'[q] = mem[q]
    BY <1>2, <2>1
  <2>5. /\ \A q \in Threads : pc'[q] \in Claimed <=> pc[q] \in Claimed
        /\ \A q \in Threads : pc[q] \in Claimed => pc'[q] = pc[q] /\ mem'[q] = mem[q]
        /\ \A q \in Threads : pc'[q] \notin {"idle"} => pc'[q] = pc[q]
        /\ "idle" \notin Claimed
    BY <1>1, <2>4 DEF Claimed, RunSteps
  <2>6. Types'
    <3>1. Nothing \in MemType
      BY DEF MemType, Nothing
    <3>2. mem' \in [Threads -> MemType] /\ pc' \in [Threads -> Pcs]
      BY <1>2, <2>1, <3>1 DEF Pcs
    <3> QED BY <1>1, <2>1, <3>2 DEF Good, Types, JobTypes, SideTypes, WorkerTypes, MemType
  <2>7. Job'
    <3>1. Claim'
      BY <1>1, <2>1, <2>5, <2>6 DEF Good, Job, Claim, Types, JobTypes
    <3>2. Rows'
      BY <2>1, <2>5 DEF Good, Job, Rows, Claimed, RunSteps
    <3>3. Failing'
      BY <1>1, <1>2, <2>1, <2>3, <2>5 DEF Good, Job, Failing, Early
    <3> QED BY <3>1, <3>2, <3>3 DEF Job
  <2>8. Side'
    <3>1. \A q \in Threads : want[q] # NoUpdate => pc'[q] = pc[q]
      BY <2>5 DEF Good, Side, Wants
    <3> QED BY <1>1, <3>1 DEF Good, Side, Locking, Wants
  <2>9. Workers'
    BY <1>1, <2>5 DEF Good, Workers, Says, Claimed, RunSteps
  <2>10. Recorded'
    BY <1>1, <2>5 DEF Good, Recorded, Completes, Claimed, RunSteps
  <2>11. NoneYet'
    BY <1>1, <1>2, <2>5 DEF NoneYet, Early
  <2>12. Outcome'
    BY <2>1, <2>3 DEF Outcome, ActiveStatuses
  <2> QED BY <2>6, <2>7, <2>8, <2>9, <2>10, <2>11, <2>12 DEF Good
<1>4. CASE ~active
  <2>1. /\ pc' = [pc EXCEPT ![p] = "stages"] /\ active' = TRUE
        /\ row' = [mem[p] EXCEPT !.status = "RUNNING"] /\ mem' = [mem EXCEPT ![p] = row']
    BY <1>4 DEF RetryRelock, Go, Save
  <2>2. \A q \in Threads : pc[q] \notin Claimed
    BY <1>4 DEF Good, Job, Claim
  <2>3. /\ \A q \in Actors : want[q] = NoUpdate
        /\ \A s \in Stages : worker[s] = "off"
    BY <2>2, Quiet
  <2>4. /\ row' \in RowType \cap MemType /\ row'.status = "RUNNING"
        /\ row'.status \in ActiveStatuses
    BY <1>2, <2>1 DEF RowType, MemType, Statuses, ActiveStatuses
  <2>5. /\ pc'[p] = "stages" /\ mem'[p] = row'
        /\ \A q \in Threads \ {p} : pc'[q] = pc[q] /\ mem'[q] = mem[q] /\ pc'[q] \notin Claimed
        /\ "stages" \in Claimed
    BY <1>2, <2>1, <2>2 DEF Claimed, RunSteps
  <2>6. Types'
    BY <1>1, <1>2, <2>1, <2>4 DEF Good, Types, JobTypes, SideTypes, WorkerTypes, MemType, RowType, Pcs, Claimed, RunSteps
  <2>7. Job'
    <3>1. Claim'
      BY <2>1, <2>5, <2>6 DEF Claim, Types, JobTypes
    <3>2. Rows'
      BY <2>1, <2>4, <2>5 DEF Rows, Claimed, RunSteps
    <3>3. request = Nothing \/ request.status \in ActiveStatuses
      BY <1>1, <1>2 DEF Good, Job, Failing
    <3>4. Failing'
      BY <1>1, <1>2, <2>5, <3>3 DEF Failing, Early, Late
    <3> QED BY <3>1, <3>2, <3>4 DEF Job
  <2>8. Side'
    BY <1>1, <2>3 DEF Good, Side, Locking, Wants, Actors
  <2>9. Workers'
    BY <1>1, <2>3 DEF Workers, Submitted
  <2>10. Recorded'
    BY <1>1, <2>3, <2>5 DEF Good, Recorded, Types, JobTypes, Claimed, RunSteps
  <2>11. NoneYet'
    BY <1>1, <1>2, <2>5 DEF NoneYet, Early, Late
  <2>12. Outcome'
    BY <2>4 DEF Outcome
  <2> QED BY <2>6, <2>7, <2>8, <2>9, <2>10, <2>11, <2>12 DEF Good
<1> QED BY <1>3, <1>4

\* A retry that is granted was asked for while groups had failed, so that no
\* stage has completed.
LEMMA RetryScheduleGood == ASSUME Good, NEW p \in Threads, RetrySchedule(p) PROVE Good'
<1>1. /\ request # Nothing /\ ~active /\ request.status \notin ActiveStatuses /\ pc[p] = "idle"
      /\ active' = TRUE /\ row' = [request EXCEPT !.status = "RETRYING"] /\ request' = Nothing
      /\ pc' = [pc EXCEPT ![p] = "retry"]
      /\ UNCHANGED <<requested, failing, mem, crashes, sidecar, lock, want, held, manifest, worker>>
  BY DEF RetrySchedule, Busy, Go, sideVars, fileVars
<1>2. /\ pc \in [Threads -> Pcs] /\ request \in RowType /\ failing
      /\ \A q \in Threads : pc[q] \notin Claimed /\ pc[q] # "relock"
  BY <1>1 DEF Good, Types, JobTypes, RowType, Job, Failing
<1>3. /\ \A q \in Actors : want[q] = NoUpdate
      /\ \A s \in Stages : worker[s] = "off"
  BY <1>2, Quiet
<1>4. /\ pc'[p] = "retry" /\ \A q \in Threads \ {p} : pc'[q] = pc[q]
      /\ "retry" \in Early
  BY <1>1, <1>2 DEF Early, Late, Claimed
<1>5. row' \in RowType /\ row'.status = "RETRYING" /\ row'.status \in ActiveStatuses
  BY <1>1, <1>2 DEF RowType, Statuses, ActiveStatuses
<1>6. Types'
  BY <1>1, <1>2, <1>5 DEF Good, Types, JobTypes, SideTypes, WorkerTypes, RowType, Pcs, Claimed
<1>7. Job'
  <2>1. Claim'
    BY <1>1, <1>2, <1>4, <1>6 DEF Claim, Types, JobTypes
  <2>2. Rows'
    BY <1>1, <1>2, <1>4, <1>5 DEF Rows, Early, Claimed, RunSteps
  <2>3. Failing'
    BY <1>1, <1>2, <1>4, <1>5 DEF Failing, Late, Claimed, RunSteps, ActiveStatuses
  <2> QED BY <2>1, <2>2, <2>3 DEF Job
<1>8. Side'
  BY <1>1, <1>3 DEF Good, Side, Locking, Wants, Actors
<1>9. Workers'
  BY <1>1, <1>3 DEF Workers, Submitted
<1>10. Recorded'
  BY <1>2, <1>4 DEF Recorded, Claimed, RunSteps
<1>11. NoneYet'
  BY <1>1, <1>2 DEF Good, NoneYet
<1>12. Outcome'
  BY <1>5 DEF Outcome, ActiveStatuses
<1> QED BY <1>6, <1>7, <1>8, <1>9, <1>10, <1>11, <1>12 DEF Good

\* A request reads the row, or is refused.
LEMMA RequestGood == ASSUME Good, RetryRead \/ RetryRefused PROVE Good'
<1>1. /\ UNCHANGED <<requested, row, failing, active, pc, mem, crashes,
                     sidecar, lock, want, held, worker, manifest>>
      /\ request' = Nothing \/ (failing /\ request' = row)
  BY DEF RetryRead, RetryRefused, sideVars, fileVars
<1>2. Types'
  BY <1>1 DEF Good, Types, JobTypes, SideTypes, WorkerTypes
<1>3. Job'
  <2>1. Claim' /\ Rows'
    BY <1>1 DEF Good, Job, Claim, Rows
  <2>2. Failing'
    BY <1>1 DEF Good, Job, Rows, Failing
  <2> QED BY <2>1, <2>2 DEF Job
<1>4. Side'
  BY <1>1 DEF Good, Side, Locking, Wants
<1>5. Workers' /\ Recorded'
  BY <1>1 DEF Good, Workers, Recorded, Says, Completes
<1>6. NoneYet' /\ Outcome'
  BY <1>1 DEF Good, NoneYet, Outcome
<1> QED BY <1>2, <1>3, <1>4, <1>5, <1>6 DEF Good

\* After a restart no thread and no request is left; the row, the sidecar and
\* artifacts.json are as they were, but that the row is closed.
LEMMA RestartGood == ASSUME Good, Restart PROVE Good'
<1>1. /\ crashes' = crashes + 1 /\ active' = FALSE /\ request' = Nothing /\ lock' = "free"
      /\ pc' = [p \in Threads |-> "idle"] /\ mem' = [p \in Threads |-> Nothing]
      /\ want' = [p \in Actors |-> NoUpdate] /\ held' = [p \in Actors |-> NoSidecar]
      /\ worker' = [s \in Stages |-> "off"]
      /\ UNCHANGED <<requested, failing, sidecar, manifest>>
  BY DEF Restart, Actors
<1>2. /\ row' \in RowType /\ row'.keys = row.keys
      /\ row'.status = "COMPLETED" => row.status = "COMPLETED"
  <2>1. row \in RowType
    BY DEF Good, Types, JobTypes, RowType
  <2>2. PICK st \in {row.status, "FAILED", "PARTIAL"} : row' = [row EXCEPT !.status = st]
    <3>1. \E st \in {row.status, "FAILED", "PARTIAL"} : row' = [row EXCEPT !.status = st]
      BY DEF Restart
    <3> QED BY <3>1
  <2>3. {"FAILED", "PARTIAL"} \subseteq Statuses
    BY DEF Statuses
  <2> QED BY <2>1, <2>2, <2>3 DEF RowType
<1>3. "idle" \notin Claimed \cup {"relock", "reread"} /\ "idle" \in Pcs
  BY DEF Claimed, RunSteps, Pcs
<1>4. crashes' \in Nat /\ crashes' # 0
  BY <1>1 DEF Good, Types, JobTypes
<1>5. Types'
  <2>1. Nothing \in MemType
    BY DEF MemType, Nothing
  <2>2. JobTypes'
    BY <1>1, <1>2, <1>3, <1>4, <2>1 DEF Good, Types, JobTypes, RowType, MemType
  <2>3. SideTypes' /\ WorkerTypes'
    BY <1>1 DEF Good, Types, SideTypes, WorkerTypes, Actors
  <2> QED BY <2>2, <2>3 DEF Types
<1>6. \A p \in Threads : pc'[p] = "idle"
  BY <1>1
<1>7. Job'
  <2>1. Claim'
    BY <1>3, <1>5, <1>6 DEF Claim, Types, JobTypes
  <2>2. Rows'
    BY <1>1, <1>3, <1>6 DEF Rows
  <2>3. Failing'
    BY <1>1, <1>2, <1>3, <1>6 DEF Good, Job, Failing, Late
  <2> QED BY <2>1, <2>2, <2>3 DEF Job
<1>8. Side'
  BY <1>1 DEF Good, Side, Locking, Wants, Actors
<1>9. Workers' /\ Recorded'
  BY <1>1, <1>6 DEF Workers, Recorded, Submitted
<1>10. NoneYet'
  BY <1>1, <1>3, <1>6 DEF Good, NoneYet, Early
<1>11. Outcome'
  BY <1>1, <1>2, <1>4 DEF Good, Outcome
<1> QED BY <1>5, <1>7, <1>8, <1>9, <1>10, <1>11 DEF Good

\* Every step keeps what is said of the job.
LEMMA GoodStep == Good /\ [Next]_vars => Good'
<1> SUFFICES ASSUME Good, [Next]_vars PROVE Good'
  OBVIOUS
<1>1. ASSUME NEW p \in Threads, Thread(p) \/ RetrySchedule(p) PROVE Good'
  <2>1. CASE \/ RunStart(p) \/ Fetched(p) \/ RunRaised(p)
             \/ AutoRetry(p) \/ AutoFetched(p) \/ AutoEnd(p)
             \/ Cancelled(p) \/ Continued(p) \/ \E s \in Stages : Skip(p, s)
    BY <2>1, EarlySteps
  <2>2. CASE Exported(p) \/ Merge(p) \/ Finish(p) \/ Close(p)
    BY <2>2, ExportedGood, MergeGood, FinishGood, CloseGood
  <2>3. CASE RetryBase(p) \/ RetryReread(p) \/ RetryRelock(p) \/ RetrySchedule(p)
    BY <2>3, RetryBaseGood, RetryRereadGood, RetryRelockGood, RetryScheduleGood
  <2>4. ASSUME NEW s \in Stages, Announce(p, s) \/ Submit(p, s) \/ CollectStage(p, s) PROVE Good'
    BY <2>4, AnnounceGood, SubmitGood, CollectGood
  <2> QED BY <1>1, <2>1, <2>2, <2>3, <2>4 DEF Thread
<1>2. ASSUME NEW s \in Stages, Stage(s) PROVE Good'
  BY <1>2, StageGood
<1>3. ASSUME NEW p \in Actors, SideRead(p) \/ SideWrite(p) PROVE Good'
  BY <1>3, SideReadGood, SideWriteGood
<1>4. CASE RetryRead \/ RetryRefused
  BY <1>4, RequestGood
<1>5. CASE Restart
  BY <1>5, RestartGood
<1>6. CASE Cancel \/ Rest \/ UNCHANGED vars
  <2>1. UNCHANGED <<requested, row, failing, active, pc, mem, request, crashes,
                    sidecar, lock, want, held, worker, manifest>>
    BY <1>6 DEF Cancel, Rest, vars, jobVars, sideVars, fileVars
  <2> QED BY <2>1 DEF Good, Types, JobTypes, SideTypes, WorkerTypes, Job, Claim, Rows, Failing,
                      Side, Locking, Wants, Workers, Says, Recorded, Completes, NoneYet, Outcome
<1> QED BY <1>1, <1>2, <1>3, <1>4, <1>5, <1>6 DEF Next, Actors

\* The invariant of what the sidecar and the files say, in every state.
LEMMA GoodHolds == Spec => []Good
BY GoodInit, GoodStep, PTL DEF Spec

\* A COMPLETED job shows how each of its requested stages ended, in every order
\* of the updates of its thread and of its stages (visual_jobs_v2.py:124-128).
THEOREM StagesHold == Spec => []StagesSettled
<1>1. Good => StagesSettled
  <2> SUFFICES ASSUME Good, \A p \in Threads : pc[p] = "idle",
                      row.status = "COMPLETED", crashes = 0, NEW s \in Stages
               PROVE  sidecar[s] \in IF s \in requested THEN {"COMPLETED", "FAILED"} ELSE {"NOT_REQUESTED"}
    BY DEF StagesSettled
  <2>1. s \notin requested => sidecar[s] = "NOT_REQUESTED"
    BY DEF Good, Side, Wants
  <2>2. s \in requested => sidecar[s] \in Ended
    BY DEF Good, Outcome, Claimed, RunSteps
  <2> QED BY <2>1, <2>2 DEF Ended
<1> QED BY <1>1, GoodHolds, PTL

\* artifacts.json names what a COMPLETED job records of its completed stages,
\* wherever the service was killed (visual_jobs_runtime.py:23-47).
THEOREM ManifestHolds == Spec => []ManifestComplete
<1>1. Good => ManifestComplete
  BY DEF Good, Outcome, ManifestComplete
<1> QED BY <1>1, GoodHolds, PTL

=============================================================================
