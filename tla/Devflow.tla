------------------------------- MODULE Devflow -------------------------------
(***************************************************************************)
(* How the end of a task, or the failure of a workflow, reaches the issue  *)
(* of the task and the phone of its owner: commits on main, the workflow   *)
(* runs they and others start, Auto Recovery (recovery_policy.py), the     *)
(* scan for completions (terminal_notification_scan.py), and the runs of   *)
(* the Incident workflow, one at a time for each task, with the receipt of *)
(* the Bark request (bark_delivery_result.py and its comment).  What the   *)
(* workflow files do is in src/.github/workflows: devflow-incident.yml,    *)
(* devflow-auto-recovery.yml, devflow-terminal-state-notify.yml and        *)
(* devflow-state-consistency.yml.  The authors of commits and the queues   *)
(* of GitHub are external.                                                 *)
(***************************************************************************)
EXTENDS TaskState

CONSTANTS
    Tasks,
    Branches,    \* names of branches
    Trees,       \* what main may hold at first
    Failures,    \* Failures[w]: how a run of workflow w may fail
    MaxPushes,   \* bound on the commits
    MaxRuns,     \* bound on the runs of the other workflows and of State Consistency
    MaxReruns    \* bound on the incident runs that are started again

ASSUME DevflowAssumption ==
    MaxPushes \in Nat /\ MaxReruns \in Nat /\ MaxRuns \in Nat

ASSUME TreesAssumption ==
    /\ \A tree \in Trees : TreeOf(Tasks, Branches, tree)
    /\ "main" \in Branches
    /\ Consistency \in DOMAIN Failures

VARIABLES
    commits,    \* main, commit by commit
    runs,       \* runs of the workflows that Auto Recovery listens to
    incidents,  \* runs of the Incident workflow for each task, as they were dispatched
    issue,      \* the control issue of each task
    sent        \* the requests made to Bark

vars == <<commits, runs, incidents, issue, sent>>

-----------------------------------------------------------------------------
Workflows == DOMAIN Failures
Success == [conclusion |-> "success", steps |-> {}, found |-> {}]
CheckFailed == [conclusion |-> "failure", steps |-> {"other"}, found |-> {}]
Main == Last(commits)

\* What a run checks out never changes: sound says whether its trees pass.
NewRun(workflow, commit, sound) ==
    [workflow |-> workflow, commit |-> commit, sound |-> sound, attempt |-> 1,
     answer |-> "running"]
\* Of a run: it passed; its failure is dispatched to a task; it is not, for GitHub has
\* refused the call or no single task is open; nothing was tried.
Answers == {"passed", "escalated", "untold", "ignored"}

\* An incident run holds the slot of its task, waits for it, or is done with it.
Active == {"queued", "commenting", "barking"}
Over == {"over", "cancelled"}
Incident(event, phase) == [event |-> event, phase |-> phase, attempt |-> 1]

Held(queue) == \E i \in DOMAIN queue : queue[i].phase \in Active
Waiting(queue, phase) ==
    [i \in DOMAIN queue |->
        IF queue[i].phase = "pending" THEN [queue[i] EXCEPT !.phase = phase] ELSE queue[i]]

\* A free slot goes to the run that waits; of those that wait, the newest is kept.
Enqueued(queue, event) ==
    LET served == IF Held(queue) THEN queue ELSE Waiting(queue, "queued")
    IN  IF Held(served)
        THEN Append(Waiting(served, "cancelled"), Incident(event, "pending"))
        ELSE Append(served, Incident(event, "queued"))

\* No two events are of one task.
Dispatched(events) ==
    [t \in Tasks |->
        IF \E event \in events : event.task = t
        THEN Enqueued(incidents[t], CHOOSE event \in events : event.task = t)
        ELSE incidents[t]]

Init ==
    /\ commits \in {<<tree>> : tree \in Trees}
    /\ runs = <<>> /\ sent = <<>>
    /\ incidents = [t \in Tasks |-> <<>>]
    /\ issue = [t \in Tasks |-> [markers |-> {}, completed |-> FALSE, receipts |-> {}]]

-----------------------------------------------------------------------------
\* What an author commits: the closing of a task by the finalizer or by hand, too early or with part of the files.
Reopened(s) ==
    [s EXCEPT !.status = "RUNNING", !.execution = "RUNNING", !.postMerge = "RUNNING",
              !.stage = 6, !.last = 5]
Edited(tree, task) ==
    IF tree.state[task].status # "DONE" THEN {}
    ELSE {[tree EXCEPT !.state[task].acknowledged = TRUE],
          [tree EXCEPT !.state[task] = Reopened(@),
                       !.index = [k \in DOMAIN @ |->
                           IF @[k].task = task
                           THEN [@[k] EXCEPT !.status = "RUNNING", !.stage = 6] ELSE @[k]]]}
Closed(tree, task) ==
    LET done == finalize(tree, task, TRUE)
    IN  {done, finalize(tree, task, FALSE),
         [done EXCEPT !.state[task].postMerge = "RUNNING"],
         [done EXCEPT !.files[task] = @ \ {"report"}]}

\* A push may bring several commits; the run it starts is for the last one.
Commit(task, tip) ==
    /\ Len(commits) <= MaxPushes
    /\ Len(commits) = MaxPushes => tip
    /\ Len(runs) < MaxRuns
    /\ \E tree \in (Edited(Main, task) \cup Closed(Main, task)) \ {Main} :
           /\ commits' = Append(commits, tree)
           /\ runs' = IF tip THEN Append(runs, NewRun(Consistency, Len(commits) + 1,
                                                     validate_all(tree, "main")))
                      ELSE runs
    /\ UNCHANGED <<incidents, issue, sent>>

\* A run that no commit of main starts: of a branch, or asked for.
StartOther(workflow) ==
    /\ Len(runs) < MaxRuns
    /\ runs' = Append(runs, NewRun(workflow, 0, TRUE))
    /\ UNCHANGED <<commits, incidents, issue, sent>>

-----------------------------------------------------------------------------
\* How a run may end.
Ends(run) ==
    IF run.sound THEN {Success} \cup Failures[run.workflow]
    ELSE {CheckFailed} \cup {f \in Failures[run.workflow] : Transient(f)}

Answered(r, answer) == runs' = [runs EXCEPT ![r].answer = answer]
Retried(r) == runs' = [runs EXCEPT ![r].attempt = @ + 1]

\* Variant: the conclusion of the run is not looked at.
ScannedAny(run, end) == run.commit > 1

\* The completions are looked for after a push to main that passed.
Scanned(run, end) == run.commit > 1 /\ end = Success

\* Each completion is dispatched by a call of its own; one that fails ends the step.
Scan(r) ==
    LET c == runs[r].commit
    IN  \E events \in SUBSET scan_terminal_completions(commits[c - 1], commits[c]) :
            incidents' = Dispatched(events)

\* Auto Recovery; GitHub may refuse its call.  The table of its decisions is computed
\* once.
FailuresSeen == {CheckFailed} \cup UNION {Failures[w] : w \in Workflows}
Decision ==
    [x \in Workflows \X (1..(InfrastructureRetryLimit + 1)) \X FailuresSeen |->
        classify(x[1], x[2], x[3])]

Escalate(r, decision, end) ==
    \/ \E task \in Tasks :
          /\ OpenResolves(Main, task)
          /\ LET event == [task |-> task, type |-> decision.action,
                           fingerprint |-> Fingerprint(runs[r].workflow, decision.code, end.steps, 0)]
             IN  Answered(r, "escalated") /\ incidents' = Dispatched({event})
    \/ Answered(r, "untold") /\ UNCHANGED incidents

Recover(r, end) ==
    LET decision == Decision[<<runs[r].workflow, runs[r].attempt, end>>]
    IN  CASE decision.action = "RETRY" ->
                 (Retried(r) \/ Answered(r, "untold")) /\ UNCHANGED incidents
          [] decision.action \in NotifiedActions -> Escalate(r, decision, end)
          [] OTHER -> Answered(r, "ignored") /\ UNCHANGED incidents

\* A run ends, and the workflow that listens to it does its work: the scan reads what
\* the run itself had checked out, Auto Recovery the main of that moment.
Complete(r) ==
    /\ runs[r].answer = "running"
    /\ \E end \in Ends(runs[r]) :
        CASE Scanned(runs[r], end) ->
                 Scan(r) /\ Answered(r, IF end = Success THEN "passed" ELSE "untold")
          [] end = Success /\ ~Scanned(runs[r], end) ->
                 Answered(r, "passed") /\ UNCHANGED incidents
          [] OTHER -> Recover(r, end)
    /\ UNCHANGED <<commits, issue, sent>>

-----------------------------------------------------------------------------
\* The Incident workflow.  A step that cannot reach GitHub, or loses its runner, ends
\* the run where it is.
Moved(t, i, phase) == incidents' = [incidents EXCEPT ![t][i].phase = phase]

\* Variant: only the marker of the event is looked for.
RecordedMarker(event) == Marker(event) \in issue[event.task].markers

Recorded(event) ==
    \/ Marker(event) \in issue[event.task].markers
    \/ event.type = "COMPLETED" /\ issue[event.task].completed

\* The run starts: it checks the payload against main and reads the issue's comments.
Start(t, i) ==
    LET event == incidents[t][i].event
    IN  /\ \/ incidents[t][i].phase = "queued"
           \/ incidents[t][i].phase = "pending" /\ ~Held(incidents[t])
        /\ Moved(t, i, IF validate_notification(Main, event) /\ ~Recorded(event)
                    THEN "commenting" ELSE "over")
        /\ UNCHANGED <<commits, runs, issue, sent>>

Break(t, i) ==
    /\ incidents[t][i].phase \in Active
    /\ Moved(t, i, "over")
    /\ UNCHANGED <<commits, runs, issue, sent>>

\* After the comment the issue of a completed task is closed; if that call fails, so does
\* the run.  The job of Bark follows on the first attempt only.
Comment(t, i) ==
    LET event == incidents[t][i].event
    IN  /\ incidents[t][i].phase = "commenting"
        /\ issue' = [issue EXCEPT
               ![t].markers = @ \cup {Marker(event)},
               ![t].completed = @ \/ event.type = "COMPLETED"]
        /\ \/ incidents[t][i].attempt = 1 /\ Moved(t, i, "barking")
           \/ (incidents[t][i].attempt > 1 \/ event.type = "COMPLETED") /\ Moved(t, i, "over")
        /\ UNCHANGED <<commits, runs, sent>>

\* What curl reports of the one request, and what the step makes of it.
Transports == {<<0, 200>>, <<0, 302>>, <<28, -1>>}
NoOutputs == [status |-> "FAILED", initiated |-> FALSE, attempts |-> 0, curl |-> -1, http |-> -1]
Skipped == [status |-> "SKIPPED", initiated |-> FALSE, attempts |-> 0, curl |-> -1, http |-> -1]
Outputs(transport) ==
    [status |-> IF transport[1] = 0 /\ transport[2] \in 200..299 THEN "DELIVERED" ELSE "FAILED",
     initiated |-> TRUE, attempts |-> 1, curl |-> transport[1], http |-> transport[2]]

\* Variant: a failure is believed without the request.
ValidUnlessDelivered(outputs) ==
    outputs.status = "DELIVERED" => outputs.initiated /\ outputs.http \in 200..299

validate_delivery_result(outputs) ==
    CASE outputs.status = "DELIVERED" ->
             /\ outputs.initiated /\ outputs.attempts = 1
             /\ outputs.curl = 0 /\ outputs.http \in 200..299
      [] outputs.status = "FAILED" ->
             /\ outputs.initiated /\ outputs.attempts = 1 /\ outputs.curl # -1
             /\ ~(outputs.curl = 0 /\ outputs.http \in 200..299)
      [] OTHER ->
             /\ ~outputs.initiated /\ outputs.attempts = 0
             /\ outputs.curl = -1 /\ outputs.http = -1

\* One receipt for a marker, and only a valid one.
Receipts(known, event, outputs) ==
    IF validate_delivery_result(outputs) /\ Marker(event) \notin {receipt.marker : receipt \in known}
    THEN known \cup {[marker |-> Marker(event), status |-> outputs.status,
                       attempts |-> outputs.attempts]}
    ELSE known

\* The job of Bark.  Its step may end after the request and before its outputs, or the
\* receipt's steps may fail: the defaults stand for the outputs, and no receipt is left.
Bark(t, i) ==
    LET event == incidents[t][i].event
        Report(outputs) == issue' = [issue EXCEPT ![t].receipts =
                                        Receipts(@, event, outputs)]
    IN  /\ incidents[t][i].phase = "barking"
        /\ \/ /\ ~validate_notification(Main, event)
              /\ UNCHANGED <<issue, sent>>
           \/ /\ validate_notification(Main, event)
              /\ Report(Skipped)
              /\ UNCHANGED sent
           \/ /\ validate_notification(Main, event)
              /\ \E transport \in Transports :
                    /\ sent' = Append(sent, [task |-> event.task, marker |-> Marker(event),
                                             status |-> Outputs(transport).status])
                    /\ \E outputs \in {Outputs(transport), NoOutputs} : Report(outputs)
        /\ Moved(t, i, "over")
        /\ UNCHANGED <<commits, runs>>

\* Someone starts a run again.
StartedAgain ==
    UNION {{<<t, i>> : i \in {j \in DOMAIN incidents[t] : incidents[t][j].attempt > 1}} : t \in Tasks}

Rerun(t, i) ==
    /\ incidents[t][i].phase \in Over /\ incidents[t][i].attempt = 1
    /\ Cardinality(StartedAgain) < MaxReruns
    /\ LET again(queue, phase) == [queue EXCEPT ![i].phase = phase, ![i].attempt = 2]
       IN  incidents' = [incidents EXCEPT ![t] =
                            IF Held(@) THEN again(Waiting(@, "cancelled"), "pending")
                            ELSE again(@, "queued")]
    /\ UNCHANGED <<commits, runs, issue, sent>>

Next ==
    \/ \E task \in Tasks, tip \in BOOLEAN : Commit(task, tip)
    \/ \E workflow \in Workflows : StartOther(workflow)
    \/ \E r \in DOMAIN runs : Complete(r)
    \/ \E t \in Tasks : \E i \in DOMAIN incidents[t] :
           Start(t, i) \/ Comment(t, i) \/ Bark(t, i) \/ Break(t, i) \/ Rerun(t, i)

\* A job that GitHub has taken runs to its end, or to its time limit.
Fairness == WF_vars(\E r \in DOMAIN runs : Complete(r))

Spec == Init /\ [][Next]_vars /\ Fairness

-----------------------------------------------------------------------------
\* States, runs and incidents are well formed, and no run is started again beyond the
\* budget of Auto Recovery (recovery_policy.py:323-341).
TypeOK ==
    /\ \A c \in DOMAIN commits : TreeOf(Tasks, Branches, commits[c])
    /\ \A r \in DOMAIN runs :
           /\ runs[r].workflow \in Workflows /\ runs[r].commit \in 0..Len(commits)
           /\ runs[r].attempt \in 1..InfrastructureRetryLimit
           /\ runs[r].answer \in Answers \cup {"running"}
    /\ \A t \in Tasks : \A i \in DOMAIN incidents[t] :
           /\ incidents[t][i].event.task = t
           /\ incidents[t][i].event.type \in ALLOWED_NOTIFICATION_TYPES
           /\ incidents[t][i].phase \in Active \cup Over \cup {"pending"}
           /\ incidents[t][i].attempt \in 1..2

\* Bark is asked once for a notification, and once for the completion of a task
\* whatever its generations, the repeated runs and the order of the dispatches
\* (docs/process/policies/notification-policy.md:97-114).
OneRequest ==
    \A j, k \in DOMAIN sent :
        (j # k /\ sent[j].task = sent[k].task) =>
            /\ sent[j].marker # sent[k].marker
            /\ ~(sent[j].marker[2] = "COMPLETED" /\ sent[k].marker[2] = "COMPLETED")

\* A completion is on the issue only for a commit of main that closed the task in full
\* with that generation and passed State Consistency
\* (docs/process/policies/notification-policy.md:231-240).
CompletionEarned ==
    \A t \in Tasks : \A marker \in issue[t].markers :
        marker[2] = "COMPLETED" =>
            \E r \in DOMAIN runs :
                /\ runs[r].workflow = Consistency /\ runs[r].commit > 0
                /\ runs[r].answer = "passed"
                /\ StrictDone(commits[runs[r].commit].state[t])
                /\ marker[1] = CompletionFingerprint(commits[runs[r].commit].state[t].generation)

\* The receipt on the issue says of the request what happened to it: how many were
\* made, and delivered only when the server took it
\* (bark_delivery_result.py:218-247).
ReceiptTrue ==
    \A t \in Tasks : \A receipt \in issue[t].receipts :
        LET made == {k \in DOMAIN sent : sent[k].task = t /\ sent[k].marker = receipt.marker}
        IN  /\ Cardinality(made) = receipt.attempts
            /\ \A k \in made : receipt.status = sent[k].status

\* A run that fails is started again until it passes, or its failure is dispatched to the
\* one open task, unless GitHub refuses the call or no single task is open: no failure is
\* classified as nothing (devflow-auto-recovery.yml:83-148).  What is dispatched may still
\* be replaced in the queue of the task: see SecurityReported.
FailureAnswered == <>[](\A r \in DOMAIN runs : runs[r].answer \in Answers \ {"ignored"})

\* No security block is lost on its way to the issue of an open task.  It does not
\* hold: the queue keeps one pending run.
SecurityReported ==
    \A t \in Tasks : \A i \in DOMAIN incidents[t] :
        incidents[t][i].event.type = "SECURITY_BLOCKED" => incidents[t][i].phase # "cancelled"
=============================================================================
