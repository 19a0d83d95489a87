-------------------------------- MODULE Rollout --------------------------------
(***************************************************************************)
(* The rollout over all batches of a request package                       *)
(* (ascope_bridge/rollout.py): a smoke run of the first batch, then the    *)
(* whole first batch, then the others, at most two at a time.              *)
(*                                                                         *)
(* The module keeps one value, rollout_state.json, which its functions     *)
(* take and return.  They are the operators PlannedActions, Marked and     *)
(* Recorded below.  Around them is the controller that calls them: it asks *)
(* for the plan, starts the planned actions one by one, and records the    *)
(* result of each run when it arrives.  A result may be recorded again     *)
(* later, by a controller that was interrupted before it had noted that    *)
(* it was recorded.                                                        *)
(***************************************************************************)
EXTENDS Integers, FiniteSets

CONSTANTS
  BatchCount,     \* batches of the package: B001 is 1
  MaxAttempts,    \* bound: runs of a batch
  MaxDuplicates   \* bound: results recorded again

ASSUME RolloutAssumption ==
  /\ BatchCount \in Nat \ {0}
  /\ MaxAttempts \in Nat /\ MaxDuplicates \in Nat

Batches == 1..BatchCount
MaxActive == 2

SUCCESS_BATCH == {"PASS", "PASS_WITH_GAPS"}
Outcomes == SUCCESS_BATCH \cup {"FAILED", "DEFERRED"}
Statuses == Outcomes \cup {"PENDING", "RUNNING"}
SmokeStatuses == SUCCESS_BATCH \cup {"PENDING", "RUNNING", "FAILED"}
\* ROLLOUT_PHASES; no function enters WAITING_FOR_INPUT or COMPLETED.
Phases == {"B001_SMOKE_READY", "B001_SMOKE_RUNNING", "B001_SMOKE_PASS", "B001_FULL_RUNNING",
           "B001_FULL_PASS", "FULL_ROLLOUT_RUNNING", "FULL_ROLLOUT_PARTIAL",
           "FULL_REDUCTION_READY", "BLOCKED", "WAITING_FOR_INPUT", "COMPLETED"}
FullPhases == {"B001_FULL_PASS", "FULL_ROLLOUT_RUNNING", "FULL_ROLLOUT_PARTIAL"}

States == [phase : Phases, active : SUBSET Batches, smoke : SmokeStatuses,
           status : [Batches -> Statuses], attempts : [Batches -> Nat]]
Actions == [batch : Batches, smoke : BOOLEAN]

VARIABLES
  state,       \* rollout_state.json
  plan,        \* planned actions the controller has not yet carried out
  flying,      \* runs started whose result has not been recorded
  delivered,   \* history: results recorded
  duplicates   \* history: results recorded again

rolloutVars == <<state, plan, flying, delivered, duplicates>>

Runs    == [batch : Batches, smoke : BOOLEAN, attempt : Nat]
Results == [batch : Batches, smoke : BOOLEAN, attempt : Nat, outcome : Outcomes]

RolloutTypeOK ==
  /\ state \in States
  /\ plan \subseteq Actions
  /\ flying \subseteq Runs
  /\ delivered \subseteq Results
  /\ duplicates \in Nat

\* initialize_rollout
RolloutInit ==
  /\ state = [phase |-> "B001_SMOKE_READY", active |-> {}, smoke |-> "PENDING",
              status |-> [b \in Batches |-> "PENDING"], attempts |-> [b \in Batches |-> 0]]
  /\ plan = {} /\ flying = {} /\ delivered = {} /\ duplicates = 0

----------------------------------------------------------------------------
(* The functions of rollout.py.                                            *)

\* (Variant: a deferred batch is not started again.)
StartableUndeferred(st) ==
  {b \in Batches \ {1} : b \notin st.active /\ st.status[b] \in {"PENDING", "FAILED"}}

\* Batches that wait for a run.
Startable(st) ==
  {b \in Batches \ {1} : b \notin st.active /\ st.status[b] \in {"PENDING", "FAILED", "DEFERRED"}}

\* The first batches of a list, as many as there are free slots.  The loop
\* compares after it has appended, so with no slot left it still takes one.
Chosen(st) ==
  LET free == MaxActive - Cardinality(st.active)
      rank(b) == Cardinality({c \in Startable(st) : c < b})
  IN  {b \in Startable(st) : rank(b) = 0 \/ rank(b) < free}

PlannedActions(st) ==
  IF st.phase = "B001_SMOKE_READY" THEN {[batch |-> 1, smoke |-> TRUE]}
  ELSE IF st.phase = "B001_SMOKE_PASS" THEN {[batch |-> 1, smoke |-> FALSE]}
  ELSE IF st.phase \in FullPhases THEN {[batch |-> b, smoke |-> FALSE] : b \in Chosen(st)}
  ELSE {}

\* (Variant: the slots are not counted.)
MarkableUncounted(st, a) ==
  IF a.smoke THEN a.batch = 1 /\ st.phase = "B001_SMOKE_READY"
  ELSE /\ st.status[a.batch] \notin SUCCESS_BATCH
       /\ IF a.batch = 1 THEN st.phase = "B001_SMOKE_PASS" ELSE st.phase \in FullPhases

\* mark_running does not raise.
Markable(st, a) ==
  IF a.smoke THEN a.batch = 1 /\ st.phase = "B001_SMOKE_READY"
  ELSE /\ st.status[a.batch] \notin SUCCESS_BATCH
       /\ IF a.batch = 1 THEN st.phase = "B001_SMOKE_PASS" ELSE st.phase \in FullPhases
       /\ Cardinality(st.active \cup {a.batch}) <= MaxActive

Marked(st, a) ==
  IF a.smoke THEN [st EXCEPT !.phase = "B001_SMOKE_RUNNING", !.smoke = "RUNNING"]
  ELSE [st EXCEPT !.phase = IF a.batch = 1 THEN "B001_FULL_RUNNING" ELSE "FULL_ROLLOUT_RUNNING",
                  !.active = @ \cup {a.batch},
                  !.status[a.batch] = "RUNNING",
                  !.attempts[a.batch] = @ + 1]

\* (Variant: batches that were never started are forgotten.)
NextPhaseFailedOnly(active, status) ==
  IF \E b \in Batches \ {1} : status[b] \in {"FAILED", "DEFERRED"} THEN "FULL_ROLLOUT_PARTIAL"
  ELSE IF active = {} THEN "FULL_REDUCTION_READY" ELSE "FULL_ROLLOUT_RUNNING"

\* The phase after a result of a batch other than the first.
NextPhase(active, status) ==
  LET remaining == {b \in Batches \ {1} : status[b] \notin SUCCESS_BATCH}
  IN  IF remaining = {} /\ active = {} THEN "FULL_REDUCTION_READY"
      ELSE IF \E b \in remaining : status[b] \in {"FAILED", "DEFERRED"} THEN "FULL_ROLLOUT_PARTIAL"
      ELSE "FULL_ROLLOUT_RUNNING"

\* (Variant: a smoke result is taken in every phase.)
SmokeRecordedUnordered(st, outcome) ==
  IF outcome \in SUCCESS_BATCH THEN [st EXCEPT !.smoke = outcome, !.phase = "B001_SMOKE_PASS"]
  ELSE [st EXCEPT !.smoke = "FAILED", !.phase = "BLOCKED"]

\* record_batch_result for a smoke run: refused out of order.
SmokeRecorded(st, outcome) ==
  IF st.phase # "B001_SMOKE_RUNNING" THEN st
  ELSE IF outcome \in SUCCESS_BATCH THEN [st EXCEPT !.smoke = outcome, !.phase = "B001_SMOKE_PASS"]
  ELSE [st EXCEPT !.smoke = "FAILED", !.phase = "BLOCKED"]

\* Any other result is taken in every phase, whichever run of the batch it is from.
BatchRecorded(st, b, outcome) ==
  LET active == st.active \ {b}
      status == [st.status EXCEPT ![b] = outcome]
  IN  [st EXCEPT !.active = active, !.status = status,
                 !.phase = IF b # 1 THEN NextPhase(active, status)
                           ELSE IF outcome \in SUCCESS_BATCH THEN "B001_FULL_PASS" ELSE "BLOCKED"]

Recorded(st, r) ==
  IF r.smoke THEN SmokeRecorded(st, r.outcome) ELSE BatchRecorded(st, r.batch, r.outcome)

----------------------------------------------------------------------------
(* The controller.                                                         *)

\* It asks for the plan when it has carried out the last one.
Plan ==
  /\ plan = {} /\ plan' = PlannedActions(state)
  /\ UNCHANGED <<state, flying, delivered, duplicates>>

\* It starts a planned run, or drops the action when mark_running refuses it;
\* results may have been recorded since the plan was made.
Run(a) ==
  /\ a \in plan /\ plan' = plan \ {a}
  /\ IF Markable(state, a)
     THEN /\ state.attempts[a.batch] < MaxAttempts
          /\ state' = Marked(state, a)
          /\ flying' = flying \cup
               {[batch |-> a.batch, smoke |-> a.smoke, attempt |-> state'.attempts[a.batch]]}
     ELSE UNCHANGED <<state, flying>>
  /\ UNCHANGED <<delivered, duplicates>>

\* The result of a run arrives.
Record(r, outcome) ==
  LET result == [batch |-> r.batch, smoke |-> r.smoke, attempt |-> r.attempt, outcome |-> outcome]
  IN  /\ r \in flying /\ flying' = flying \ {r}
      /\ state' = Recorded(state, result)
      /\ delivered' = delivered \cup {result}
      /\ UNCHANGED <<plan, duplicates>>

\* It arrives again.
RecordAgain(d) ==
  /\ duplicates < MaxDuplicates /\ duplicates' = duplicates + 1
  /\ d \in delivered
  /\ state' = Recorded(state, d)
  /\ UNCHANGED <<plan, flying, delivered>>

RolloutNext ==
  \/ Plan
  \/ \E a \in plan : Run(a)
  \/ \E r \in flying, outcome \in Outcomes : Record(r, outcome)
  \/ \E d \in delivered : RecordAgain(d)

RolloutSpec == RolloutInit /\ [][RolloutNext]_rolloutVars

----------------------------------------------------------------------------
(* Properties *)

Passed(b) == state.status[b] \in SUCCESS_BATCH

\* "Smoke/full transitions cannot be bypassed": nothing of the first batch before
\* its smoke run has passed, nothing of another batch before the first has, also
\* when results are recorded again.
GatesHeld ==
  /\ state.status[1] # "PENDING" => state.smoke \in SUCCESS_BATCH
  /\ \A b \in Batches \ {1} : state.status[b] # "PENDING" => Passed(1)

\* The reduction is not declared ready while a batch lacks a success or a run is
\* active, not even after a late result has taken a success back.
ReadyMeansAll ==
  state.phase = "FULL_REDUCTION_READY" => state.active = {} /\ \A b \in Batches : Passed(b)

\* As long as every result is recorded once, active_batches are the batches that
\* are really being processed: no more than two, and each by one run.
TwoAtATime ==
  duplicates = 0 =>
    /\ {r.batch : r \in {q \in flying : ~q.smoke}} = state.active
    /\ \A r, q \in flying : r.batch = q.batch => r = q
    /\ Cardinality(state.active) <= MaxActive

\* As long as every result is recorded once, a rollout of several batches in which
\* nothing is running has something to start, unless it is done or blocked.
NeverStalls ==
  duplicates = 0 /\ BatchCount > 1 /\ flying = {} /\ state.phase \notin {"FULL_REDUCTION_READY", "BLOCKED"}
    => PlannedActions(state) # {}

\* Two running batches leave nothing to plan.
NothingBeyondTwo == Cardinality(state.active) = MaxActive => PlannedActions(state) = {}
=============================================================================
