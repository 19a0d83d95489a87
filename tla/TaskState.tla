------------------------------ MODULE TaskState ------------------------------
(***************************************************************************)
(* The records by which the repository follows its own tasks, and what the *)
(* devflow scripts read in them: docs/implementation/<task>/task_state.yaml*)
(* (state_model.py), its entry in ACTIVE_TASKS.yaml (validate_state.py),   *)
(* the closing of a task (finalize_task.py), and the notifications that    *)
(* main allows (notification_event.py, terminal_notification_scan.py).     *)
(*                                                                         *)
(* A tree is what a commit of main holds: the state and the documents of   *)
(* every task, and the index.  Stages W00 to W08 are 0..8, -1 for none.    *)
(***************************************************************************)
EXTENDS FiniteSets, SequencesExt, RecoveryPolicy

TASK_STATUSES == {"PLANNING", "READY", "RUNNING", "VERIFYING", "WAITING_HUMAN", "BLOCKED",
                  "POST_MERGE_BLOCKED", "DONE"}
EXECUTION_STATUSES == {"PENDING", "RUNNING", "COMPLETED", "FAILED", "BLOCKED"}
ACCEPTANCE_STATUSES == {"PENDING", "PASS", "REVIEW_REQUIRED", "FAIL"}
SECURITY_STATUSES == {"PENDING", "PASS", "BLOCKED", "FAIL"}
POST_MERGE_STATUSES == {"PENDING", "RUNNING", "PASS", "FAIL"}
Stage == 0..8
Absent == ""    \* what a field holds that is not filled
Documents == {"plan", "result", "report"}
ALLOWED_NOTIFICATION_TYPES == {"COMPLETED", "INTERRUPTED", "HUMAN_REQUIRED", "SECURITY_BLOCKED"}

\* A tree holds a state and documents for every task, and entries for some.
States(branches) ==
    [schema : {1, 2}, status : TASK_STATUSES, execution : EXECUTION_STATUSES,
     acceptance : ACCEPTANCE_STATUSES, security : SECURITY_STATUSES \cup {Absent},
     postMerge : POST_MERGE_STATUSES, human : BOOLEAN, stage : Stage, last : Stage \cup {-1},
     branch : branches, pullRequest : BOOLEAN, generation : Nat, lastType : {Absent, "COMPLETED"},
     acknowledged : BOOLEAN]
Entries(tasks, branches) ==
    [task : tasks, path : tasks, status : TASK_STATUSES, branch : branches, stage : Stage]
TreeOf(tasks, branches, tree) ==
    tree \in [state : [tasks -> States(branches)], files : [tasks -> SUBSET Documents],
              index : Seq(Entries(tasks, branches))]

\* The reader of a state.  A task of schema 1 may lack security_status.
Security(s) ==
    IF s.schema = 1 /\ s.security = Absent THEN IF s.status = "DONE" THEN "PASS" ELSE "PENDING"
    ELSE s.security

StagesValid(s) ==
    IF s.status = "DONE" THEN s.last = s.stage
    ELSE s.last < s.stage

DoneValid(s) ==
    s.status = "DONE" =>
        /\ s.execution = "COMPLETED" /\ s.acceptance = "PASS" /\ Security(s) = "PASS"
        /\ s.postMerge = "PASS" /\ ~s.human

StateValid(s) ==
    /\ s.schema \in {1, 2} /\ s.stage \in Stage
    /\ StagesValid(s)
    /\ s.status \in TASK_STATUSES /\ s.execution \in EXECUTION_STATUSES
    /\ s.acceptance \in ACCEPTANCE_STATUSES /\ Security(s) \in SECURITY_STATUSES
    /\ s.postMerge \in POST_MERGE_STATUSES
    /\ DoneValid(s)

required_task_files(s) ==
    {"plan"} \cup {d \in {"result"} : s.last >= 0} \cup {d \in {"report"} : s.status = "DONE"}

-----------------------------------------------------------------------------
Matches(tree, task) == SelectSeq(tree.index, LAMBDA entry : entry.task = task)

\* What State Consistency checks: the tasks of the index, one by one.
branch_matches_state(branch, s) ==
    \/ s.status = "DONE"
    \/ branch = s.branch
    \/ branch = "main" /\ s.pullRequest /\ s.stage >= 5

IndexValid(tree, task) ==
    LET s == tree.state[task]
        found == Matches(tree, task)
    IN  IF s.status = "DONE" THEN Len(found) <= 1
        ELSE /\ Len(found) = 1
             /\ found[1] = [task |-> task, path |-> task, status |-> s.status,
                            branch |-> s.branch, stage |-> s.stage]

validate(tree, task, branch) ==
    LET s == tree.state[task]
    IN  /\ StateValid(s)
        /\ required_task_files(s) \subseteq tree.files[task]
        /\ IndexValid(tree, task)
        /\ branch_matches_state(branch, s)

active_task_dirs(tree) == {tree.index[k].path : k \in DOMAIN tree.index}
IndexReadable(tree) == IsInjective([k \in DOMAIN tree.index |-> tree.index[k].task])

validate_all(tree, branch) ==
    /\ IndexReadable(tree)
    /\ \A task \in active_task_dirs(tree) : validate(tree, task, branch)

-----------------------------------------------------------------------------
\* Closing a task: the state first, its entry in the index last.
FinalState(s) ==
    [s EXCEPT !.status = "DONE", !.execution = "COMPLETED", !.acceptance = "PASS",
              !.branch = "main", !.stage = 8, !.last = 8, !.human = FALSE,
              !.postMerge = "PASS", !.generation = @ + 1, !.lastType = "COMPLETED",
              !.acknowledged = FALSE]

FinalEntries(index, task) ==
    [k \in DOMAIN index |->
        IF index[k].task = task
        THEN [index[k] EXCEPT !.status = "DONE", !.branch = "main", !.stage = 8, !.path = task]
        ELSE index[k]]

FinalFiles(files) == files \cup {"result", "report"}

\* All that finalize leaves; FALSE for reached stands for the raise (or the kill)
\* between the state and the index.
finalize(tree, task, reached) ==
    [tree EXCEPT !.state[task] = FinalState(@), !.files[task] = FinalFiles(@),
                 !.index = IF reached THEN FinalEntries(@, task) ELSE @]

-----------------------------------------------------------------------------
\* The notifications that main allows.
StrictDone(s) ==
    /\ s.status = "DONE" /\ s.execution = "COMPLETED" /\ s.acceptance = "PASS"
    /\ Security(s) = "PASS" /\ s.postMerge = "PASS" /\ ~s.human
    /\ s.lastType = "COMPLETED" /\ ~s.acknowledged

EntryResolves(tree, entry) ==
    /\ entry.path = entry.task
    /\ entry.status = tree.state[entry.task].status

\* With a task id, and without one: then a single task may be open.
TaskResolves(tree, task) ==
    /\ Len(Matches(tree, task)) = 1
    /\ EntryResolves(tree, Matches(tree, task)[1])
OpenEntries(tree) == {k \in DOMAIN tree.index : tree.index[k].status # "DONE"}
OpenResolves(tree, task) ==
    \E k \in OpenEntries(tree) :
        /\ OpenEntries(tree) = {k}
        /\ EntryResolves(tree, tree.index[k])
        /\ task = tree.index[k].task

\* A root cause; of a completion, the generation it was recorded with.
Fingerprint(source, code, steps, generation) ==
    [source |-> source, code |-> code, steps |-> steps, generation |-> generation]
CompletionFingerprint(generation) ==
    Fingerprint(Consistency, "TASK_COMPLETED", {}, generation)

validate_notification(tree, event) ==
    LET s == tree.state[event.task]
    IN  /\ TaskResolves(tree, event.task)
        /\ event.type \in ALLOWED_NOTIFICATION_TYPES
        /\ IF event.type = "COMPLETED"
           THEN /\ StrictDone(s)
                /\ s.generation > 0
                /\ event.fingerprint = CompletionFingerprint(s.generation)
           ELSE s.status # "DONE"

Marker(event) == <<event.fingerprint, event.type>>

\* The completions that a commit adds to the one before it; none at all when one of
\* them is refused.
NewCompletions(before, after) ==
    {task \in DOMAIN after.state :
        /\ after.state[task] # before.state[task]
        /\ after.state[task].generation > before.state[task].generation
        /\ after.state[task].lastType = "COMPLETED" /\ ~after.state[task].acknowledged}

CompletionEvent(task, generation) ==
    [task |-> task, type |-> "COMPLETED", fingerprint |-> CompletionFingerprint(generation)]

scan_terminal_completions(before, after) ==
    LET events == {CompletionEvent(task, after.state[task].generation) :
                       task \in NewCompletions(before, after)}
    IN  IF \A event \in events : validate_notification(after, event) THEN events ELSE {}
=============================================================================
