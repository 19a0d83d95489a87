---------------------------- MODULE DevflowProofs ----------------------------
(***************************************************************************)
(* Devflow for any tasks, failures, pushes and reruns.  The run of the     *)
(* Incident workflow that holds the slot of a task is the only one there   *)
(* (Serial), so what it has read on the issue before it comments is still  *)
(* so when it comments, and nothing was asked of Bark for a marker before  *)
(* it is on the issue (Asked).                                             *)
(***************************************************************************)
EXTENDS Devflow, FiniteSetTheorems, SequenceTheorems, TLAPS

-----------------------------------------------------------------------------
(* The decisions of Auto Recovery.                                         *)

\* Of positions among which the last one is, one is the first.
LEMMA FirstOfMany ==
  ASSUME NEW W \in SUBSET (1..18), 18 \in W
  PROVE  Min(W) \in W
<1>1. \E x \in W : \A y \in W : x <= y
  <2> SUFFICES ASSUME \A x \in W : \E y \in W : y < x PROVE FALSE
    OBVIOUS
  <2>1. 1 \notin W
    OBVIOUS
  <2>2. 2 \notin W
    BY <2>1
  <2>3. 3 \notin W
    BY <2>1, <2>2
  <2>4. 4 \notin W
    BY <2>1, <2>2, <2>3
  <2>5. 5 \notin W
    BY <2>1, <2>2, <2>3, <2>4
  <2>6. W \cap (1..5) = {}
    BY <2>1, <2>2, <2>3, <2>4, <2>5
  <2>7. 6 \notin W
    BY <2>6
  <2>8. 7 \notin W
    BY <2>6, <2>7
  <2>9. 8 \notin W
    BY <2>6, <2>7, <2>8
  <2>10. 9 \notin W
    BY <2>6, <2>7, <2>8, <2>9
  <2>11. W \cap (1..9) = {}
    BY <2>6, <2>7, <2>8, <2>9, <2>10
  <2>12. 10 \notin W
    BY <2>11
  <2>13. 11 \notin W
    BY <2>11, <2>12
  <2>14. 12 \notin W
    BY <2>11, <2>12, <2>13
  <2>15. 13 \notin W
    BY <2>11, <2>12, <2>13, <2>14
  <2>16. W \cap (1..13) = {}
    BY <2>11, <2>12, <2>13, <2>14, <2>15
  <2>17. 14 \notin W
    BY <2>16
  <2>18. 15 \notin W
    BY <2>16, <2>17
  <2>19. 16 \notin W
    BY <2>16, <2>17, <2>18
  <2>20. 17 \notin W
    BY <2>16, <2>17, <2>18, <2>19
  <2> QED BY <2>16, <2>17, <2>18, <2>19, <2>20
<1> QED BY <1>1 DEF Min

\* A run is started again only within the budget.
LEMMA RetryWithin ==
  ASSUME NEW workflow, NEW attempt \in Nat, NEW failure,
         classify(workflow, attempt, failure).action = "RETRY"
  PROVE  attempt < InfrastructureRetryLimit
<1> DEFINE safety == SafetyRules(workflow, failure)
           recovery == RecoveryRules(workflow, attempt, failure)
           rules == safety \o recovery
           W == {k \in DOMAIN rules : rules[k].when}
<1>1. /\ Len(safety) = 9
      /\ \A k \in 1..9 : safety[k].action # "RETRY"
  BY DEF SafetyRules, Rule
<1>2. /\ Len(recovery) = 9 /\ recovery[9].when
      /\ \A k \in 1..9 : recovery[k].action = "RETRY" => k = 2
      /\ recovery[2].when => attempt < InfrastructureRetryLimit
  <2>1. Len(recovery) = 9
    BY DEF RecoveryRules
  <2>2. recovery[9].when
    BY DEF RecoveryRules, Rule
  <2>3. recovery[2].when => attempt < InfrastructureRetryLimit
    BY DEF RecoveryRules, Rule
  <2>4. \A k \in 1..9 : recovery[k].action = "RETRY" => k = 2
    BY DEF RecoveryRules, Rule
  <2> QED BY <2>1, <2>2, <2>3, <2>4
<1>3. /\ DOMAIN rules = 1..18
      /\ \A k \in 1..9 : rules[k] = safety[k]
      /\ \A k \in 10..18 : rules[k] = recovery[k - 9]
  <2>1. \E S : safety \in Seq(S) /\ recovery \in Seq(S)
    <3> DEFINE S == {safety[k] : k \in 1..9} \cup {recovery[k] : k \in 1..9}
    <3>1. safety \in [1..9 -> S] /\ recovery \in [1..9 -> S]
      BY <1>1, <1>2 DEF SafetyRules, RecoveryRules
    <3>2. \A n \in Nat : \A s \in [1..n -> S] : s \in Seq(S)
      OBVIOUS
    <3> QED BY <3>1, <3>2
  <2> HIDE DEF safety, recovery
  <2>2. PICK S : safety \in Seq(S) /\ recovery \in Seq(S)
    BY <2>1
  <2>3. /\ rules \in Seq(S) /\ Len(rules) = 18
        /\ \A k \in 1..18 : rules[k] = IF k <= 9 THEN safety[k] ELSE recovery[k - 9]
    <3>1. /\ rules \in Seq(S) /\ Len(rules) = Len(safety) + Len(recovery)
          /\ \A k \in 1..(Len(safety) + Len(recovery)) :
               rules[k] = IF k <= Len(safety) THEN safety[k] ELSE recovery[k - Len(safety)]
      BY <2>2, ConcatProperties
    <3> HIDE DEF rules
    <3> QED BY <1>1, <1>2, <3>1
  <2> HIDE DEF rules
  <2> QED BY <2>3
<1> HIDE DEF safety, recovery, rules
<1>4. W \in SUBSET (1..18) /\ 18 \in W
  BY <1>2, <1>3
<1>5. PICK m \in W : m = Min(W)
  BY <1>4, FirstOfMany
<1>6. classify(workflow, attempt, failure) = rules[m]
  BY <1>5 DEF classify, FirstOf, rules, safety, recovery
<1>7. m \in 1..18 /\ rules[m].when
  BY <1>3, <1>5
<1>8. CASE m \in 1..9
  BY <1>1, <1>3, <1>6, <1>8
<1>9. CASE m \in 10..18
  <2>1. rules[m] = recovery[m - 9] /\ m - 9 \in 1..9
    BY <1>3, <1>9
  <2>2. m - 9 = 2
    BY <1>2, <1>6, <2>1
  <2> QED BY <1>2, <1>7, <2>1, <2>2
<1> QED BY <1>7, <1>8, <1>9

-----------------------------------------------------------------------------
(* What is true of every state.                                            *)

TreeSet ==
    [state : [Tasks -> States(Branches)], files : [Tasks -> SUBSET Documents],
     index : Seq(Entries(Tasks, Branches))]
RunSet ==
    [workflow : Workflows, commit : Nat, sound : BOOLEAN,
     attempt : 1..InfrastructureRetryLimit, answer : Answers \cup {"running"}]

Codes == {Decision[x].code : x \in DOMAIN Decision} \cup {"TASK_COMPLETED"}
StepSets == {f.steps : f \in FailuresSeen} \cup {{}}
Fingerprints == [source : Workflows, code : Codes, steps : StepSets, generation : Nat]
Markers == Fingerprints \X ALLOWED_NOTIFICATION_TYPES
EventsOf(t) == [task : {t}, type : ALLOWED_NOTIFICATION_TYPES, fingerprint : Fingerprints]
Phases == Active \cup Over \cup {"pending"}
Queues(t) == Seq([event : EventsOf(t), phase : Phases, attempt : 1..2])

Types ==
    /\ commits \in Seq(TreeSet) /\ Len(commits) > 0
    /\ runs \in Seq(RunSet)
    /\ \A r \in DOMAIN runs :
         runs[r].commit # 0 => runs[r].workflow = Consistency /\ runs[r].commit \in DOMAIN commits

ReceiptSet == [marker : Markers, status : {"DELIVERED", "FAILED", "SKIPPED"}, attempts : 0..1]
IssueSet == [markers : SUBSET Markers, completed : BOOLEAN, receipts : SUBSET ReceiptSet]
RequestSet == [task : Tasks, marker : Markers, status : {"DELIVERED", "FAILED"}]
IssueTypes ==
    /\ issue \in [Tasks -> IssueSet]
    /\ sent \in Seq(RequestSet)

\* One run holds the slot of a task, and one waits for it.
Serial(queue) ==
    /\ \A i, j \in DOMAIN queue :
         queue[i].phase \in Active /\ queue[j].phase \in Active => i = j
    /\ \A i, j \in DOMAIN queue :
         queue[i].phase = "pending" /\ queue[j].phase = "pending" => i = j

\* The completion was earned by a commit of main.
Earned(t, marker) ==
    marker[2] = "COMPLETED" =>
      \E r \in DOMAIN runs :
        /\ runs[r].workflow = Consistency /\ runs[r].commit > 0
        /\ runs[r].answer = "passed"
        /\ StrictDone(commits[runs[r].commit].state[t])
        /\ marker[1] = CompletionFingerprint(commits[runs[r].commit].state[t].generation)

\* The marker is on the issue, and with it the completion.
Shown(t, marker) ==
    /\ marker \in issue[t].markers
    /\ marker[2] = "COMPLETED" => issue[t].completed

\* Bark has not been asked for it, and no receipt speaks of it.
Unasked(t, marker) ==
    /\ \A k \in DOMAIN sent : sent[k].task = t =>
         /\ sent[k].marker # marker
         /\ ~(sent[k].marker[2] = "COMPLETED" /\ marker[2] = "COMPLETED")
    /\ \A receipt \in issue[t].receipts : receipt.marker # marker

\* The completions that the runs of a task report were earned.
EventsEarned(t) == \A i \in DOMAIN incidents[t] : Earned(t, Marker(incidents[t][i].event))

\* What a run that holds the slot knows of the issue and of Bark.
Knows(t, slot) ==
    /\ slot.phase = "commenting" => ~Recorded(slot.event)
    /\ slot.phase = "barking" => Shown(t, Marker(slot.event)) /\ Unasked(t, Marker(slot.event))

Queued(t) ==
    /\ incidents[t] \in Queues(t)
    /\ Serial(incidents[t])
    /\ EventsEarned(t)
    /\ \A i \in DOMAIN incidents[t] : Knows(t, incidents[t][i])

Asked ==
    /\ \A k \in DOMAIN sent : Shown(sent[k].task, sent[k].marker)
    /\ \A t \in Tasks : \A receipt \in issue[t].receipts : receipt.marker \in issue[t].markers
    /\ \A t \in Tasks : \A marker \in issue[t].markers : Earned(t, marker)

Good ==
    /\ Types /\ IssueTypes
    /\ incidents = [t \in Tasks |-> incidents[t]]
    /\ \A t \in Tasks : Queued(t)
    /\ Asked /\ OneRequest /\ ReceiptTrue

-----------------------------------------------------------------------------
(* The queue of a task.                                                    *)

Slots(t) == [event : EventsOf(t), phase : Phases, attempt : 1..2]

\* Whoever is commenting or asking Bark is where it was.
Follows(new, old) ==
    \A i \in DOMAIN new :
      new[i].phase \in {"commenting", "barking"} => i \in DOMAIN old /\ new[i] = old[i]

\* The events of a queue are those of another, or e.
EventsFrom(new, old, e) ==
    \A i \in DOMAIN new : new[i].event = e \/ \E j \in DOMAIN old : new[i].event = old[j].event

\* The pending run of a queue goes on or is given up.
LEMMA WaitingQueue ==
  ASSUME NEW t, NEW q \in Queues(t), Serial(q), NEW phase \in {"queued", "cancelled"},
         phase = "queued" => ~Held(q)
  PROVE  LET w == Waiting(q, phase)
         IN  /\ w \in Queues(t) /\ Serial(w) /\ DOMAIN w = DOMAIN q
             /\ \A i \in DOMAIN q : w[i].event = q[i].event /\ w[i].attempt = q[i].attempt
             /\ \A i \in DOMAIN q : w[i].phase = IF q[i].phase = "pending" THEN phase ELSE q[i].phase
             /\ Follows(w, q)
             /\ \A i \in DOMAIN q : w[i].phase # "pending"
<1> DEFINE w == Waiting(q, phase)
<1>1. q \in [1..Len(q) -> Slots(t)] /\ DOMAIN q = 1..Len(q) /\ Len(q) \in Nat
  <2>1. q \in Seq(Slots(t))
    BY DEF Queues, Slots
  <2> QED BY <2>1
<1>2. ASSUME NEW i \in DOMAIN q
      PROVE  /\ w[i] \in Slots(t) /\ w[i].event = q[i].event /\ w[i].attempt = q[i].attempt
             /\ w[i].phase = IF q[i].phase = "pending" THEN phase ELSE q[i].phase
             /\ q[i].phase # "pending" => w[i] = q[i]
  <2>1. q[i] \in Slots(t)
    BY <1>1
  <2>2. w[i] = IF q[i].phase = "pending" THEN [q[i] EXCEPT !.phase = phase] ELSE q[i]
    BY DEF Waiting
  <2>3. phase \in Phases
    BY DEF Phases, Active, Over
  <2> QED BY <2>1, <2>2, <2>3 DEF Slots
<1>3. DOMAIN w = 1..Len(q) /\ w = [i \in 1..Len(q) |-> w[i]]
  BY <1>1 DEF Waiting
<1> HIDE DEF w
<1>4. w \in [1..Len(q) -> Slots(t)]
  BY <1>1, <1>2, <1>3
<1>5. w \in Queues(t)
  BY <1>1, <1>4 DEF Queues, Slots
<1>6. Serial(w)
  BY <1>1, <1>2, <1>3 DEF Serial, Held, Active
<1>7. Follows(w, q)
  BY <1>1, <1>2, <1>3 DEF Follows
<1> QED BY <1>1, <1>2, <1>3, <1>5, <1>6, <1>7 DEF w

\* A run moves on where it is, and others stay.
LEMMA MovedQueue ==
  ASSUME NEW t, NEW q \in Queues(t), Serial(q), NEW i \in DOMAIN q, NEW slot \in Slots(t),
         slot.event = q[i].event,
         slot.phase \in Active => \A j \in DOMAIN q \ {i} : q[j].phase \notin Active,
         slot.phase = "pending" => \A j \in DOMAIN q \ {i} : q[j].phase # "pending"
  PROVE  LET w == [q EXCEPT ![i] = slot]
         IN  /\ w \in Queues(t) /\ Serial(w) /\ DOMAIN w = DOMAIN q /\ w[i] = slot
             /\ \A j \in DOMAIN q \ {i} : w[j] = q[j]
<1> DEFINE w == [q EXCEPT ![i] = slot]
<1>1. q \in Seq(Slots(t))
  BY DEF Queues, Slots
<1>2. w \in Seq(Slots(t)) /\ DOMAIN w = DOMAIN q /\ w[i] = slot /\ \A j \in DOMAIN q \ {i} : w[j] = q[j]
  BY <1>1
<1> HIDE DEF w
<1>3. Serial(w)
  BY <1>2 DEF Serial
<1> QED BY <1>2, <1>3 DEF Queues, Slots, w

\* A run joins the queue.
LEMMA JoinedQueue ==
  ASSUME NEW t, NEW q \in Queues(t), Serial(q), NEW slot \in Slots(t),
         slot.phase \in Active => \A j \in DOMAIN q : q[j].phase \notin Active,
         slot.phase = "pending" => \A j \in DOMAIN q : q[j].phase # "pending",
         slot.phase \in {"queued", "pending"}
  PROVE  LET w == Append(q, slot)
         IN  w \in Queues(t) /\ Serial(w) /\ Follows(w, q) /\ EventsFrom(w, q, slot.event)
<1> DEFINE w == Append(q, slot)
<1>1. q \in Seq(Slots(t)) /\ DOMAIN q = 1..Len(q)
  BY DEF Queues, Slots
<1>2. w \in Seq(Slots(t)) /\ Len(w) = Len(q) + 1 /\ DOMAIN w = 1..(Len(q) + 1)
      /\ w[Len(q) + 1] = slot /\ \A j \in DOMAIN q : w[j] = q[j]
  BY <1>1
<1> HIDE DEF w
<1>3. \A j \in DOMAIN w : j \in DOMAIN q \/ (w[j] = slot /\ j = Len(q) + 1)
  BY <1>1, <1>2
<1>4. Serial(w)
  BY <1>2, <1>3 DEF Serial
<1>5. Follows(w, q) /\ EventsFrom(w, q, slot.event)
  BY <1>2, <1>3 DEF Follows, EventsFrom
<1> QED BY <1>2, <1>4, <1>5 DEF Queues, Slots, w

\* What a dispatch leaves of the queue of its task.
LEMMA EnqueuedQueue ==
  ASSUME NEW t, NEW q \in Queues(t), Serial(q), NEW e \in EventsOf(t)
  PROVE  LET w == Enqueued(q, e)
         IN  w \in Queues(t) /\ Serial(w) /\ Follows(w, q) /\ EventsFrom(w, q, e)
<1>1. PICK s : s = IF Held(q) THEN q ELSE Waiting(q, "queued")
  OBVIOUS
<1>2. /\ s \in Queues(t) /\ Serial(s) /\ Follows(s, q) /\ DOMAIN s = DOMAIN q
      /\ \A i \in DOMAIN q : s[i].event = q[i].event
      /\ ~Held(s) => \A i \in DOMAIN s : s[i].phase # "pending"
  <2>1. CASE Held(q)
    BY <1>1, <2>1 DEF Follows
  <2>2. CASE ~Held(q)
    <3>1. s = Waiting(q, "queued")
      BY <1>1, <2>2
    <3> QED BY <2>2, <3>1, WaitingQueue
  <2> QED BY <2>1, <2>2
<1>3. \A phase \in {"queued", "pending"} :
        Incident(e, phase) \in Slots(t) /\ Incident(e, phase).phase = phase /\ Incident(e, phase).event = e
  BY DEF Incident, Slots, Phases, Active
<1>4. CASE Held(s)
  <2>1. PICK w : w = Waiting(s, "cancelled")
    OBVIOUS
  <2>2. /\ w \in Queues(t) /\ Serial(w) /\ Follows(w, s) /\ DOMAIN w = DOMAIN s
        /\ \A i \in DOMAIN s : w[i].event = s[i].event
        /\ \A i \in DOMAIN s : w[i].phase # "pending"
    BY <1>2, <2>1, WaitingQueue
  <2>3. PICK v : v = Append(w, Incident(e, "pending"))
    OBVIOUS
  <2>4. "pending" \notin Active
    BY DEF Active
  <2>5. v \in Queues(t) /\ Serial(v) /\ Follows(v, w) /\ EventsFrom(v, w, e)
    BY <1>3, <2>2, <2>3, <2>4, JoinedQueue
  <2>6. Enqueued(q, e) = v
    BY <1>1, <1>4, <2>1, <2>3 DEF Enqueued
  <2>7. Follows(v, q) /\ EventsFrom(v, q, e)
    BY <1>2, <2>2, <2>5 DEF Follows, EventsFrom
  <2> QED BY <2>5, <2>6, <2>7
<1>5. CASE ~Held(s)
  <2>1. PICK v : v = Append(s, Incident(e, "queued"))
    OBVIOUS
  <2>2. \A i \in DOMAIN s : s[i].phase \notin Active
    BY <1>5 DEF Held
  <2>3. v \in Queues(t) /\ Serial(v) /\ Follows(v, s) /\ EventsFrom(v, s, e)
    BY <1>2, <1>3, <2>1, <2>2, JoinedQueue
  <2>4. Enqueued(q, e) = v
    BY <1>1, <1>5, <2>1 DEF Enqueued
  <2>5. Follows(v, q) /\ EventsFrom(v, q, e)
    BY <1>2, <2>3 DEF Follows, EventsFrom
  <2> QED BY <2>3, <2>4, <2>5
<1> QED BY <1>4, <1>5

-----------------------------------------------------------------------------
(* What no step takes back.                                                *)

Grows ==
    /\ \A c \in DOMAIN commits : c \in DOMAIN commits' /\ commits'[c] = commits[c]
    /\ \A r \in DOMAIN runs :
         /\ r \in DOMAIN runs'
         /\ runs'[r].workflow = runs[r].workflow /\ runs'[r].commit = runs[r].commit
         /\ runs[r].answer = "passed" => runs'[r].answer = "passed"

\* A completion that was earned stays earned.
LEMMA EarnedKept ==
  ASSUME Types, Grows, NEW t, NEW marker, Earned(t, marker)
  PROVE  Earned(t, marker)'
<1> SUFFICES ASSUME marker[2] = "COMPLETED" PROVE Earned(t, marker)'
  BY DEF Earned
<1>1. PICK r \in DOMAIN runs :
        /\ runs[r].workflow = Consistency /\ runs[r].commit > 0
        /\ runs[r].answer = "passed"
        /\ StrictDone(commits[runs[r].commit].state[t])
        /\ marker[1] = CompletionFingerprint(commits[runs[r].commit].state[t].generation)
  BY DEF Earned
<1>2. runs[r].commit \in DOMAIN commits
  BY <1>1 DEF Types, RunSet
<1>3. /\ r \in DOMAIN runs' /\ runs'[r].workflow = Consistency /\ runs'[r].commit = runs[r].commit
      /\ runs'[r].answer = "passed" /\ commits'[runs[r].commit] = commits[runs[r].commit]
  BY <1>1, <1>2 DEF Grows
<1> QED BY <1>1, <1>3 DEF Earned

\* The queue of a task whose issue and requests are as they were.
LEMMA QueuedAfter ==
  ASSUME NEW t \in Tasks, Queued(t), issue'[t] = issue[t],
         \A k \in DOMAIN sent' : sent'[k].task = t => k \in DOMAIN sent /\ sent'[k] = sent[k],
         incidents'[t] \in Queues(t), Serial(incidents'[t]), Follows(incidents'[t], incidents[t]),
         EventsEarned(t)'
  PROVE  Queued(t)'
<1>1. ASSUME NEW i \in DOMAIN incidents'[t], NEW slot, slot = incidents'[t][i]
      PROVE  Knows(t, slot)'
  <2>1. slot.event.task = t
    <3>1. incidents'[t] \in Seq(Slots(t))
      BY DEF Queues, Slots
    <3>2. slot \in Slots(t)
      BY <1>1, <3>1
    <3>3. slot.event \in EventsOf(t)
      BY <3>2 DEF Slots
    <3> QED BY <3>3 DEF EventsOf
  <2>2. slot.phase \in {"commenting", "barking"} => Knows(t, slot)
    BY <1>1 DEF Queued, Follows
  <2>3. CASE slot.phase = "commenting"
    BY <2>1, <2>2, <2>3 DEF Knows, Recorded
  <2>4. CASE slot.phase = "barking"
    BY <2>2, <2>4 DEF Knows, Shown, Unasked
  <2> QED BY <2>3, <2>4 DEF Knows
<1>2. ASSUME NEW i \in DOMAIN incidents'[t]
      PROVE  Knows(t, incidents[t][i])'
  <2>1. PICK slot : slot = incidents'[t][i]
    OBVIOUS
  <2>2. Knows(t, slot)'
    BY <1>1, <2>1
  <2> QED BY <2>1, <2>2 DEF Knows, Recorded, Shown, Unasked
<1> QED BY <1>2 DEF Queued

\* A step that says nothing on the issues and asks nothing of Bark.
LEMMA QuietStep ==
  ASSUME Good, Types', Grows, UNCHANGED <<issue, sent>>,
         incidents' = [t \in Tasks |-> incidents'[t]],
         \A t \in Tasks : /\ incidents'[t] \in Queues(t) /\ Serial(incidents'[t])
                          /\ Follows(incidents'[t], incidents[t])
                          /\ EventsEarned(t)'
  PROVE  Good'
<1>1. \A t \in Tasks : Queued(t)'
  BY QueuedAfter DEF Good
<1>2. IssueTypes' /\ OneRequest' /\ ReceiptTrue'
  <2>1. IssueTypes'
    BY DEF Good, IssueTypes
  <2>2. OneRequest'
    BY DEF Good, OneRequest
  <2>3. ReceiptTrue'
    BY DEF Good, ReceiptTrue
  <2> QED BY <2>1, <2>2, <2>3
<1>3. Asked'
  <2>1. \A t \in Tasks : \A marker \in issue[t].markers : Earned(t, marker)'
    BY EarnedKept DEF Good, Asked
  <2> QED BY <2>1 DEF Good, Asked, Shown
<1> QED BY <1>1, <1>2, <1>3 DEF Good

\* A queue that does not change.
LEMMA SameQueue ==
  ASSUME Good, Grows, NEW t \in Tasks, incidents'[t] = incidents[t]
  PROVE  /\ incidents'[t] \in Queues(t) /\ Serial(incidents'[t]) /\ Follows(incidents'[t], incidents[t])
         /\ EventsEarned(t)'
<1>1. EventsEarned(t)'
  <2> SUFFICES ASSUME NEW i \in DOMAIN incidents[t], NEW m, m = Marker(incidents[t][i].event)
               PROVE  Earned(t, m)'
    BY DEF EventsEarned
  <2>1. Earned(t, m)
    BY DEF Good, Queued, EventsEarned
  <2> QED BY <2>1, EarnedKept DEF Good
<1> QED BY <1>1 DEF Good, Queued, Follows

-----------------------------------------------------------------------------
(* The commits of the authors.                                             *)

\* A state is edited within its type.
LEMMA StateEdits ==
  ASSUME NEW s \in States(Branches)
  PROVE  /\ FinalState(s) \in States(Branches) /\ Reopened(s) \in States(Branches)
         /\ [s EXCEPT !.acknowledged = TRUE] \in States(Branches)
         /\ [s EXCEPT !.postMerge = "RUNNING"] \in States(Branches)
<1>1. ASSUME NEW r \in States(Branches)
      PROVE  /\ \A v \in TASK_STATUSES : [r EXCEPT !.status = v] \in States(Branches)
             /\ \A v \in EXECUTION_STATUSES : [r EXCEPT !.execution = v] \in States(Branches)
             /\ \A v \in ACCEPTANCE_STATUSES : [r EXCEPT !.acceptance = v] \in States(Branches)
             /\ \A v \in POST_MERGE_STATUSES : [r EXCEPT !.postMerge = v] \in States(Branches)
             /\ \A v \in Branches : [r EXCEPT !.branch = v] \in States(Branches)
             /\ \A v \in Stage : [r EXCEPT !.stage = v] \in States(Branches)
             /\ \A v \in Stage : [r EXCEPT !.last = v] \in States(Branches)
             /\ \A v \in BOOLEAN : [r EXCEPT !.human = v] \in States(Branches)
             /\ \A v \in BOOLEAN : [r EXCEPT !.acknowledged = v] \in States(Branches)
             /\ [r EXCEPT !.lastType = "COMPLETED"] \in States(Branches)
             /\ [r EXCEPT !.generation = r.generation + 1] \in States(Branches)
  BY DEF States
<1>2. /\ {"DONE", "RUNNING"} \subseteq TASK_STATUSES
      /\ {"COMPLETED", "RUNNING"} \subseteq EXECUTION_STATUSES
      /\ "PASS" \in ACCEPTANCE_STATUSES
      /\ {"PASS", "RUNNING"} \subseteq POST_MERGE_STATUSES
      /\ {5, 6, 8} \subseteq Stage /\ "main" \in Branches
  BY TreesAssumption
     DEF TASK_STATUSES, EXECUTION_STATUSES, ACCEPTANCE_STATUSES, POST_MERGE_STATUSES, Stage
<1>3. FinalState(s) \in States(Branches)
  <2>1. PICK s1 \in States(Branches) : s1 = [s EXCEPT !.status = "DONE"]
    BY <1>1, <1>2
  <2>2. PICK s2 \in States(Branches) : s2 = [s1 EXCEPT !.execution = "COMPLETED"]
    BY <1>1, <1>2
  <2>3. PICK s3 \in States(Branches) : s3 = [s2 EXCEPT !.acceptance = "PASS"]
    BY <1>1, <1>2
  <2>4. PICK s4 \in States(Branches) : s4 = [s3 EXCEPT !.branch = "main"]
    BY <1>1, <1>2
  <2>5. PICK s5 \in States(Branches) : s5 = [s4 EXCEPT !.stage = 8]
    BY <1>1, <1>2
  <2>6. PICK s6 \in States(Branches) : s6 = [s5 EXCEPT !.last = 8]
    BY <1>1, <1>2
  <2>7. PICK s7 \in States(Branches) : s7 = [s6 EXCEPT !.human = FALSE]
    BY <1>1, <1>2
  <2>8. PICK s8 \in States(Branches) : s8 = [s7 EXCEPT !.postMerge = "PASS"]
    BY <1>1, <1>2
  <2>9. PICK s9 \in States(Branches) : s9 = [s8 EXCEPT !.generation = s8.generation + 1]
    BY <1>1, <1>2
  <2>10. PICK s10 \in States(Branches) : s10 = [s9 EXCEPT !.lastType = "COMPLETED"]
    BY <1>1, <1>2
  <2>11. PICK s11 \in States(Branches) : s11 = [s10 EXCEPT !.acknowledged = FALSE]
    BY <1>1, <1>2
  <2> QED BY <2>1, <2>2, <2>3, <2>4, <2>5, <2>6, <2>7, <2>8, <2>9, <2>10, <2>11 DEF FinalState
<1>4. Reopened(s) \in States(Branches)
  BY <1>1, <1>2 DEF Reopened
<1> QED BY <1>1, <1>2, <1>3, <1>4

\* So is an index.
LEMMA IndexEdits ==
  ASSUME NEW index \in Seq(Entries(Tasks, Branches)), NEW task \in Tasks
  PROVE  /\ FinalEntries(index, task) \in Seq(Entries(Tasks, Branches))
         /\ [k \in DOMAIN index |->
                IF index[k].task = task
                THEN [index[k] EXCEPT !.status = "RUNNING", !.stage = 6] ELSE index[k]]
            \in Seq(Entries(Tasks, Branches))
<1> DEFINE E == Entries(Tasks, Branches)
<1>1. index \in [1..Len(index) -> E] /\ DOMAIN index = 1..Len(index) /\ Len(index) \in Nat
  OBVIOUS
<1>2. \A n \in Nat : \A q \in [1..n -> E] : q \in Seq(E)
  OBVIOUS
<1>3. ASSUME NEW e \in E
      PROVE  /\ [e EXCEPT !.status = "DONE", !.branch = "main", !.stage = 8, !.path = task] \in E
             /\ [e EXCEPT !.status = "RUNNING", !.stage = 6] \in E
  <2>1. ASSUME NEW r \in E
        PROVE  /\ [r EXCEPT !.status = "DONE"] \in E /\ [r EXCEPT !.status = "RUNNING"] \in E
               /\ [r EXCEPT !.branch = "main"] \in E
               /\ [r EXCEPT !.stage = 8] \in E /\ [r EXCEPT !.stage = 6] \in E
               /\ [r EXCEPT !.path = task] \in E
    BY TreesAssumption DEF Entries, Stage, TASK_STATUSES
  <2> HIDE DEF E
  <2>2. PICK a \in E : a = [e EXCEPT !.status = "DONE"]
    BY <2>1, <1>3
  <2>3. PICK b \in E : b = [a EXCEPT !.branch = "main"]
    BY <2>1
  <2>4. PICK c \in E : c = [b EXCEPT !.stage = 8]
    BY <2>1
  <2>5. PICK d \in E : d = [c EXCEPT !.path = task]
    BY <2>1
  <2>6. PICK f \in E : f = [e EXCEPT !.status = "RUNNING"]
    BY <2>1, <1>3
  <2>7. PICK g \in E : g = [f EXCEPT !.stage = 6]
    BY <2>1
  <2> QED BY <2>2, <2>3, <2>4, <2>5, <2>6, <2>7
<1> HIDE DEF E
<1>4. FinalEntries(index, task) \in [1..Len(index) -> E]
  BY <1>1, <1>3 DEF FinalEntries
<1>5. [k \in DOMAIN index |->
          IF index[k].task = task
          THEN [index[k] EXCEPT !.status = "RUNNING", !.stage = 6] ELSE index[k]]
      \in [1..Len(index) -> E]
  BY <1>1, <1>3
<1> QED BY <1>1, <1>2, <1>4, <1>5 DEF E

\* A tree with one task edited.
LEMMA TreeEdits ==
  ASSUME NEW tree \in TreeSet, NEW task \in Tasks, NEW s \in States(Branches),
         NEW files \in SUBSET Documents, NEW index \in Seq(Entries(Tasks, Branches))
  PROVE  /\ [tree EXCEPT !.state[task] = s] \in TreeSet
         /\ [tree EXCEPT !.files[task] = files] \in TreeSet
         /\ [tree EXCEPT !.index = index] \in TreeSet
  BY DEF TreeSet

\* Every tree that an author commits is well formed.
LEMMA AuthorsTrees ==
  ASSUME NEW tree \in TreeSet, NEW task \in Tasks
  PROVE  Edited(tree, task) \cup Closed(tree, task) \subseteq TreeSet
<1>1. /\ tree.state[task] \in States(Branches) /\ tree.files[task] \in SUBSET Documents
      /\ tree.index \in Seq(Entries(Tasks, Branches))
  BY DEF TreeSet
<1>2. ASSUME NEW reached \in BOOLEAN
      PROVE  finalize(tree, task, reached) \in TreeSet
  <2>1. PICK a \in TreeSet : a = [tree EXCEPT !.state[task] = FinalState(tree.state[task])]
    BY <1>1, StateEdits, TreeEdits
  <2>2. FinalFiles(a.files[task]) \in SUBSET Documents /\ a.index \in Seq(Entries(Tasks, Branches))
    BY DEF FinalFiles, Documents, TreeSet
  <2>3. PICK b \in TreeSet : b = [a EXCEPT !.files[task] = FinalFiles(a.files[task])]
    BY <2>2, <1>1, TreeEdits
  <2>4. b.index \in Seq(Entries(Tasks, Branches))
    BY DEF TreeSet
  <2>5. PICK i : i = IF reached THEN FinalEntries(b.index, task) ELSE b.index
    OBVIOUS
  <2>6. i \in Seq(Entries(Tasks, Branches))
    BY <2>4, <2>5, IndexEdits
  <2>7. PICK c \in TreeSet : c = [b EXCEPT !.index = i]
    BY <1>1, <2>6, TreeEdits
  <2>8. finalize(tree, task, reached) = c
    BY <2>1, <2>3, <2>5, <2>7 DEF finalize
  <2> QED BY <2>8
<1>3. Edited(tree, task) \subseteq TreeSet
  <2>1. [tree EXCEPT !.state[task].acknowledged = TRUE] \in TreeSet
    BY <1>1, StateEdits, TreeEdits
  <2>2. PICK i : i = [k \in DOMAIN tree.index |->
                        IF tree.index[k].task = task
                        THEN [tree.index[k] EXCEPT !.status = "RUNNING", !.stage = 6]
                        ELSE tree.index[k]]
    OBVIOUS
  <2>3. i \in Seq(Entries(Tasks, Branches))
    BY <1>1, <2>2, IndexEdits
  <2>4. [[tree EXCEPT !.state[task] = Reopened(tree.state[task])] EXCEPT !.index = i] \in TreeSet
    BY <1>1, <2>3, StateEdits, TreeEdits
  <2> QED BY <2>1, <2>2, <2>4 DEF Edited, TreeSet
<1>4. Closed(tree, task) \subseteq TreeSet
  <2>1. PICK done : done = finalize(tree, task, TRUE)
    OBVIOUS
  <2>2. done \in TreeSet /\ finalize(tree, task, FALSE) \in TreeSet
    BY <1>2, <2>1
  <2>3. done.state[task] \in States(Branches) /\ done.files[task] \in SUBSET Documents
    BY <2>2 DEF TreeSet
  <2>4. [done EXCEPT !.state[task].postMerge = "RUNNING"] \in TreeSet
    <3>1. PICK s \in States(Branches) : s = [done.state[task] EXCEPT !.postMerge = "RUNNING"]
      BY <2>3, StateEdits
    <3>2. [done EXCEPT !.state[task] = s] \in TreeSet
      BY <1>1, <2>2, TreeEdits
    <3> QED BY <3>1, <3>2
  <2>5. [done EXCEPT !.files[task] = @ \ {"report"}] \in TreeSet
    <3>1. PICK f \in SUBSET Documents : f = done.files[task] \ {"report"}
      BY <2>3
    <3>2. [done EXCEPT !.files[task] = f] \in TreeSet
      BY <1>1, <2>2, TreeEdits
    <3> QED BY <3>1, <3>2
  <2> QED BY <2>1, <2>2, <2>4, <2>5 DEF Closed
<1> QED BY <1>3, <1>4

\* main grows, and with it, or without, the runs.
LEMMA RunsGrow ==
  ASSUME Types, NEW more \in Seq(TreeSet), commits' = commits \o more,
         \/ runs' = runs
         \/ \E run \in RunSet :
              /\ runs' = Append(runs, run)
              /\ run.commit # 0 => run.workflow = Consistency /\ run.commit \in DOMAIN commits'
  PROVE  Types' /\ Grows
<1>1. /\ commits \in Seq(TreeSet) /\ Len(commits) > 0 /\ runs \in Seq(RunSet)
      /\ \A r \in DOMAIN runs :
           runs[r].commit # 0 => runs[r].workflow = Consistency /\ runs[r].commit \in DOMAIN commits
  BY DEF Types
<1>2. /\ commits' \in Seq(TreeSet) /\ Len(commits') = Len(commits) + Len(more)
      /\ \A c \in DOMAIN commits : c \in DOMAIN commits' /\ commits'[c] = commits[c]
  <2>1. /\ commits \o more \in Seq(TreeSet) /\ Len(commits \o more) = Len(commits) + Len(more)
        /\ \A c \in 1..(Len(commits) + Len(more)) :
             (commits \o more)[c] = IF c <= Len(commits) THEN commits[c] ELSE more[c - Len(commits)]
    BY <1>1, ConcatProperties
  <2> QED BY <1>1, <2>1
<1>3. /\ runs' \in Seq(RunSet)
      /\ \A r \in DOMAIN runs : r \in DOMAIN runs' /\ runs'[r] = runs[r]
      /\ \A r \in DOMAIN runs' \ DOMAIN runs :
           runs'[r].commit # 0 => runs'[r].workflow = Consistency /\ runs'[r].commit \in DOMAIN commits'
  <2>1. CASE runs' = runs
    BY <1>1, <2>1
  <2>2. ASSUME NEW run \in RunSet, runs' = Append(runs, run),
               run.commit # 0 => run.workflow = Consistency /\ run.commit \in DOMAIN commits'
        PROVE  <1>3!:
    <3> DEFINE longer == Append(runs, run)
    <3>1. /\ longer \in Seq(RunSet) /\ DOMAIN longer = 1..(Len(runs) + 1)
          /\ longer[Len(runs) + 1] = run
          /\ \A r \in 1..Len(runs) : longer[r] = runs[r]
      BY <1>1
    <3>2. DOMAIN runs = 1..Len(runs) /\ Len(runs) \in Nat
      BY <1>1
    <3> HIDE DEF longer
    <3>3. runs' = longer
      BY <2>2 DEF longer
    <3>4. \A r \in DOMAIN longer \ DOMAIN runs : r = Len(runs) + 1
      BY <3>1, <3>2
    <3> QED BY <2>2, <3>1, <3>2, <3>3, <3>4
  <2> QED BY <2>1, <2>2
<1>4. Types'
  <2>1. Len(commits') > 0
    BY <1>1, <1>2
  <2>2. ASSUME NEW r \in DOMAIN runs', runs'[r].commit # 0
        PROVE  runs'[r].workflow = Consistency /\ runs'[r].commit \in DOMAIN commits'
    BY <1>1, <1>2, <1>3, <2>2
  <2> QED BY <1>2, <1>3, <2>1, <2>2 DEF Types
<1>5. Grows
  BY <1>2, <1>3 DEF Grows
<1> QED BY <1>4, <1>5

\* A new run is well formed.
LEMMA NewRunTyped ==
  ASSUME NEW workflow \in Workflows, NEW commit \in Nat, NEW sound \in BOOLEAN
  PROVE  /\ NewRun(workflow, commit, sound) \in RunSet
         /\ NewRun(workflow, commit, sound).commit = commit
         /\ NewRun(workflow, commit, sound).workflow = workflow
  BY DEF NewRun, RunSet, InfrastructureRetryLimit

LEMMA CommitStep ==
  ASSUME Good, NEW task \in Tasks, NEW tip \in BOOLEAN, Commit(task, tip)
  PROVE  Good'
<1>1. PICK tree \in (Edited(Main, task) \cup Closed(Main, task)) \ {Main} :
        /\ commits' = Append(commits, tree)
        /\ runs' = IF tip THEN Append(runs, NewRun(Consistency, Len(commits) + 1,
                                                  validate_all(tree, "main")))
                   ELSE runs
  BY DEF Commit
<1>2. commits \in Seq(TreeSet) /\ Len(commits) > 0 /\ Types
  BY DEF Good, Types
<1>3. tree \in TreeSet
  <2>1. Main \in TreeSet
    BY <1>2 DEF Main, Last
  <2> QED BY <1>1, <2>1, AuthorsTrees
<1>4. PICK more : more = <<tree>>
  OBVIOUS
<1>5. more \in Seq(TreeSet) /\ commits' = commits \o more
  <2>1. more \in Seq(TreeSet)
    BY <1>3, <1>4
  <2>2. \A q \in Seq(TreeSet) : Append(q, tree) = q \o <<tree>>
    BY <1>3
  <2>3. Append(commits, tree) = commits \o <<tree>>
    BY <1>2, <2>2
  <2> QED BY <1>1, <1>4, <2>1, <2>3
<1>6. PICK sound \in BOOLEAN : sound = validate_all(tree, "main")
  BY DEF validate_all
<1>7. PICK run \in RunSet : /\ run = NewRun(Consistency, Len(commits) + 1, sound)
                            /\ run.workflow = Consistency /\ run.commit = Len(commits) + 1
  BY <1>2, NewRunTyped, TreesAssumption DEF Workflows
<1>8. run.commit \in DOMAIN commits'
  BY <1>1, <1>2, <1>3, <1>7
<1>9. Types' /\ Grows
  <2>1. runs' = runs \/ runs' = Append(runs, run)
    BY <1>1, <1>6, <1>7
  <2> QED BY <1>2, <1>5, <1>7, <1>8, <2>1, RunsGrow
<1>10. incidents' = incidents /\ issue' = issue /\ sent' = sent
  BY DEF Commit
<1>11. \A t \in Tasks : /\ incidents'[t] \in Queues(t) /\ Serial(incidents'[t])
                        /\ Follows(incidents'[t], incidents[t]) /\ EventsEarned(t)'
  BY <1>9, <1>10, SameQueue
<1>12. incidents' = [t \in Tasks |-> incidents'[t]]
  BY <1>10 DEF Good
<1> QED BY <1>9, <1>10, <1>11, <1>12, QuietStep

LEMMA StartOtherStep ==
  ASSUME Good, NEW workflow \in Workflows, StartOther(workflow)
  PROVE  Good'
<1>1. commits' = commits /\ incidents' = incidents /\ issue' = issue /\ sent' = sent
  BY DEF StartOther
<1>2. PICK run \in RunSet : run = NewRun(workflow, 0, TRUE) /\ run.commit = 0
  BY NewRunTyped
<1>3. runs' = Append(runs, run)
  BY <1>2 DEF StartOther
<1>4. <<>> \in Seq(TreeSet) /\ commits' = commits \o <<>> /\ Types
  BY <1>1 DEF Good, Types
<1>5. Types' /\ Grows
  BY <1>2, <1>3, <1>4, RunsGrow
<1>6. \A t \in Tasks : /\ incidents'[t] \in Queues(t) /\ Serial(incidents'[t])
                       /\ Follows(incidents'[t], incidents[t]) /\ EventsEarned(t)'
  BY <1>1, <1>5, SameQueue
<1>7. incidents' = [t \in Tasks |-> incidents'[t]]
  BY <1>1 DEF Good
<1> QED BY <1>1, <1>5, <1>6, <1>7, QuietStep

-----------------------------------------------------------------------------
(* The end of a run of a workflow.                                         *)

\* A run is answered, or started again.
LEMMA RunMoves ==
  ASSUME Types, NEW r \in DOMAIN runs, runs[r].answer = "running", UNCHANGED commits,
         \/ \E answer \in Answers : runs' = [runs EXCEPT ![r].answer = answer]
         \/ /\ runs' = [runs EXCEPT ![r].attempt = @ + 1]
            /\ runs[r].attempt < InfrastructureRetryLimit
  PROVE  Types' /\ Grows
<1>1. runs \in Seq(RunSet) /\ runs[r] \in RunSet
  BY DEF Types
<1>2. \E run \in RunSet : /\ runs' = [runs EXCEPT ![r] = run]
                          /\ run.workflow = runs[r].workflow /\ run.commit = runs[r].commit
  <2>1. ASSUME NEW answer \in Answers, runs' = [runs EXCEPT ![r].answer = answer]
        PROVE  <1>2!:
    <3>1. PICK run : run = [runs[r] EXCEPT !.answer = answer]
      OBVIOUS
    <3>2. run \in RunSet /\ run.workflow = runs[r].workflow /\ run.commit = runs[r].commit
      BY <1>1, <3>1 DEF RunSet
    <3>3. runs' = [runs EXCEPT ![r] = run]
      BY <2>1, <3>1
    <3> QED BY <3>2, <3>3
  <2>2. ASSUME runs' = [runs EXCEPT ![r].attempt = @ + 1],
               runs[r].attempt < InfrastructureRetryLimit
        PROVE  <1>2!:
    <3>1. PICK attempt \in 1..InfrastructureRetryLimit : attempt = runs[r].attempt + 1
      BY <1>1, <2>2 DEF RunSet, InfrastructureRetryLimit
    <3>2. PICK run : run = [runs[r] EXCEPT !.attempt = attempt]
      OBVIOUS
    <3>3. run \in RunSet /\ run.workflow = runs[r].workflow /\ run.commit = runs[r].commit
      BY <1>1, <3>2 DEF RunSet
    <3>4. runs' = [runs EXCEPT ![r] = run]
      BY <2>2, <3>1, <3>2
    <3> QED BY <3>3, <3>4
  <2> QED BY <2>1, <2>2
<1>3. PICK run \in RunSet : /\ runs' = [runs EXCEPT ![r] = run]
                            /\ run.workflow = runs[r].workflow /\ run.commit = runs[r].commit
  BY <1>2
<1>4. runs' \in Seq(RunSet)
  BY <1>1, <1>3
<1>5. /\ DOMAIN runs' = DOMAIN runs
      /\ \A s \in DOMAIN runs :
           /\ runs'[s].workflow = runs[s].workflow /\ runs'[s].commit = runs[s].commit
           /\ s # r => runs'[s] = runs[s]
  BY <1>1, <1>3
<1>6. Types'
  BY <1>4, <1>5 DEF Types
<1>7. Grows
  BY <1>5 DEF Grows
<1> QED BY <1>6, <1>7

\* The queues after a dispatch.
LEMMA DispatchedQueues ==
  ASSUME Good, Grows, NEW events, incidents' = Dispatched(events),
         \A e \in events : e.task \in Tasks => e \in EventsOf(e.task),
         \A e \in events : e.task \in Tasks => Earned(e.task, Marker(e))'
  PROVE  /\ incidents' = [t \in Tasks |-> incidents'[t]]
         /\ \A t \in Tasks : /\ incidents'[t] \in Queues(t) /\ Serial(incidents'[t])
                             /\ Follows(incidents'[t], incidents[t]) /\ EventsEarned(t)'
<1>1. /\ incidents' = [t \in Tasks |-> incidents'[t]]
      /\ \A t \in Tasks :
           incidents'[t] = IF \E e \in events : e.task = t
                           THEN Enqueued(incidents[t], CHOOSE e \in events : e.task = t)
                           ELSE incidents[t]
  BY DEF Dispatched
<1>2. ASSUME NEW t \in Tasks
      PROVE  /\ incidents'[t] \in Queues(t) /\ Serial(incidents'[t])
             /\ Follows(incidents'[t], incidents[t]) /\ EventsEarned(t)'
  <2>1. CASE \E e \in events : e.task = t
    <3>1. PICK e \in events : /\ e.task = t
                              /\ e = CHOOSE f \in events : f.task = t
      BY <2>1
    <3>2. PICK q, w : q = incidents[t] /\ w = Enqueued(q, e)
      OBVIOUS
    <3>3. w = incidents'[t]
      BY <1>1, <2>1, <3>1, <3>2
    <3>4. q \in Queues(t) /\ Serial(q)
      BY <3>2 DEF Good, Queued
    <3>5. e \in EventsOf(t)
      BY <3>1
    <3>6. w \in Queues(t) /\ Serial(w) /\ Follows(w, q) /\ EventsFrom(w, q, e)
      BY <3>2, <3>4, <3>5, EnqueuedQueue
    <3>7. ASSUME NEW i \in DOMAIN w, NEW m, m = Marker(w[i].event)
          PROVE  Earned(t, m)'
      <4>1. CASE w[i].event = e
        <5>1. Earned(t, Marker(e))'
          BY <3>1
        <5>2. m = Marker(e)
          BY <3>7, <4>1
        <5> QED BY <5>1, <5>2 DEF Earned, Marker
      <4>2. ASSUME NEW j \in DOMAIN q, w[i].event = q[j].event
            PROVE  Earned(t, m)'
        <5>1. Earned(t, Marker(q[j].event))
          BY <3>2 DEF Good, Queued, EventsEarned
        <5>2. Earned(t, m)
          BY <3>7, <4>2, <5>1
        <5> QED BY <5>2, EarnedKept DEF Good
      <4> QED BY <3>6, <4>1, <4>2 DEF EventsFrom
    <3>8. EventsEarned(t)'
      <4>1. ASSUME NEW i \in DOMAIN incidents'[t]
            PROVE  Earned(t, Marker(incidents[t][i].event))'
        <5>1. PICK m : m = Marker(w[i].event)
          OBVIOUS
        <5>2. Earned(t, m)'
          BY <3>3, <3>7, <5>1
        <5> QED BY <3>3, <5>1, <5>2 DEF Earned, Marker
      <4> QED BY <4>1 DEF EventsEarned
    <3> QED BY <3>2, <3>3, <3>6, <3>8
  <2>2. CASE ~\E e \in events : e.task = t
    BY <1>1, <2>2, SameQueue
  <2> QED BY <2>1, <2>2
<1> QED BY <1>1, <1>2

\* The decision on a failure is one of the table.
LEMMA DecisionTyped ==
  ASSUME NEW workflow \in Workflows, NEW attempt \in 1..InfrastructureRetryLimit,
         NEW failure \in FailuresSeen
  PROVE  /\ Decision[<<workflow, attempt, failure>>] = classify(workflow, attempt, failure)
         /\ Decision[<<workflow, attempt, failure>>].code \in Codes
<1>1. attempt \in 1..(InfrastructureRetryLimit + 1)
  BY DEF InfrastructureRetryLimit
<1>2. /\ <<workflow, attempt, failure>> \in DOMAIN Decision
      /\ Decision[<<workflow, attempt, failure>>] = classify(workflow, attempt, failure)
  BY <1>1 DEF Decision
<1> QED BY <1>2 DEF Codes

\* Nothing is said of a run but to its task, if at all.
LEMMA AnswerStep ==
  ASSUME Good, NEW r \in DOMAIN runs, runs[r].answer = "running",
         UNCHANGED <<commits, issue, sent>>, Types', Grows,
         incidents' = incidents
  PROVE  Good'
<1>1. \A t \in Tasks : /\ incidents'[t] \in Queues(t) /\ Serial(incidents'[t])
                       /\ Follows(incidents'[t], incidents[t]) /\ EventsEarned(t)'
  BY SameQueue
<1>2. incidents' = [t \in Tasks |-> incidents'[t]]
  BY DEF Good
<1> QED BY <1>1, <1>2, QuietStep

LEMMA EscalateStep ==
  ASSUME Good, NEW r \in DOMAIN runs, runs[r].answer = "running",
         NEW decision, decision.action \in NotifiedActions, decision.code \in Codes,
         NEW end \in FailuresSeen, UNCHANGED <<commits, issue, sent>>, Escalate(r, decision, end)
  PROVE  Good'
<1>1. Types /\ runs[r] \in RunSet
  BY DEF Good, Types
<1>2. \E answer \in Answers : runs' = [runs EXCEPT ![r].answer = answer]
  BY DEF Escalate, Answered, Answers
<1>3. Types' /\ Grows
  BY <1>1, <1>2, RunMoves
<1>4. CASE incidents' = incidents
  BY <1>3, <1>4, AnswerStep
<1>5. CASE incidents' # incidents
  <2>1. PICK task \in Tasks : \E event :
          /\ event = [task |-> task, type |-> decision.action,
                      fingerprint |-> Fingerprint(runs[r].workflow, decision.code, end.steps, 0)]
          /\ incidents' = Dispatched({event})
    BY <1>5 DEF Escalate
  <2> PICK event :
          /\ event = [task |-> task, type |-> decision.action,
                      fingerprint |-> Fingerprint(runs[r].workflow, decision.code, end.steps, 0)]
          /\ incidents' = Dispatched({event})
    BY <2>1
  <2>2. event.fingerprint \in Fingerprints
    BY <1>1, <2>1 DEF Fingerprint, Fingerprints, RunSet, StepSets
  <2>3. event \in EventsOf(task) /\ event.task = task /\ event.type # "COMPLETED"
    BY <2>1, <2>2 DEF EventsOf, NotifiedActions, ALLOWED_NOTIFICATION_TYPES
  <2>4. Earned(task, Marker(event))'
    BY <2>3 DEF Earned, Marker
  <2>5. \A e \in {event} : e = event
    OBVIOUS
  <2>6. /\ incidents' = [t \in Tasks |-> incidents'[t]]
        /\ \A t \in Tasks : /\ incidents'[t] \in Queues(t) /\ Serial(incidents'[t])
                            /\ Follows(incidents'[t], incidents[t]) /\ EventsEarned(t)'
    <3>1. \A e \in {event} : e.task \in Tasks => e \in EventsOf(e.task)
      BY <2>3
    <3>2. \A e \in {event} : e.task \in Tasks => Earned(e.task, Marker(e))'
      BY <2>3, <2>4 DEF Earned, Marker
    <3> QED BY <1>3, <2>1, <3>1, <3>2, DispatchedQueues
  <2> QED BY <1>3, <2>6, QuietStep
<1> QED BY <1>4, <1>5

LEMMA RecoverStep ==
  ASSUME Good, NEW r \in DOMAIN runs, runs[r].answer = "running", NEW end \in FailuresSeen,
         UNCHANGED <<commits, issue, sent>>, Recover(r, end)
  PROVE  Good'
<1>1. Types /\ runs[r] \in RunSet
  BY DEF Good, Types
<1>2. PICK decision : decision = Decision[<<runs[r].workflow, runs[r].attempt, end>>]
  OBVIOUS
<1>3. decision = classify(runs[r].workflow, runs[r].attempt, end) /\ decision.code \in Codes
  BY <1>1, <1>2, DecisionTyped DEF RunSet
<1>4. CASE decision.action = "RETRY"
  <2>1. runs[r].attempt \in Nat /\ runs[r].attempt < InfrastructureRetryLimit
    BY <1>1, <1>3, <1>4, RetryWithin DEF RunSet, InfrastructureRetryLimit
  <2>2. (Retried(r) \/ Answered(r, "untold")) /\ incidents' = incidents
    BY <1>2, <1>4 DEF Recover, NotifiedActions
  <2>3. "untold" \in Answers
    BY DEF Answers
  <2>4. Types' /\ Grows
    BY <1>1, <2>1, <2>2, <2>3, RunMoves DEF Retried, Answered
  <2> QED BY <2>2, <2>4, AnswerStep
<1>5. CASE decision.action # "RETRY" /\ decision.action \in NotifiedActions
  <2>1. Escalate(r, decision, end)
    BY <1>2, <1>5 DEF Recover
  <2> QED BY <1>3, <1>5, <2>1, EscalateStep
<1>6. CASE decision.action # "RETRY" /\ decision.action \notin NotifiedActions
  <2>1. Answered(r, "ignored") /\ incidents' = incidents
    BY <1>2, <1>6 DEF Recover
  <2>2. Types' /\ Grows
    BY <1>1, <2>1, RunMoves DEF Answered, Answers
  <2> QED BY <2>1, <2>2, AnswerStep
<1> QED BY <1>4, <1>5, <1>6

LEMMA ScanStep ==
  ASSUME Good, NEW r \in DOMAIN runs, runs[r].answer = "running", runs[r].commit > 1,
         UNCHANGED <<commits, issue, sent>>, Scan(r), Answered(r, "passed")
  PROVE  Good'
<1>1. /\ Types /\ runs[r] \in RunSet /\ runs \in Seq(RunSet)
      /\ runs[r].workflow = Consistency /\ runs[r].commit \in DOMAIN commits
  <2>1. runs[r].commit # 0
    OBVIOUS
  <2> QED BY <2>1 DEF Good, Types
<1>2. Types' /\ Grows
  BY <1>1, RunMoves DEF Answered, Answers
<1>3. CASE incidents' = incidents
  BY <1>2, <1>3, AnswerStep
<1>4. CASE incidents' # incidents
  <2>1. PICK c, after, completions :
          /\ c = runs[r].commit /\ after = commits[c]
          /\ completions = scan_terminal_completions(commits[c - 1], after)
    OBVIOUS
  <2>2. PICK events \in SUBSET completions : incidents' = Dispatched(events)
    BY <1>4, <2>1 DEF Scan
  <2>3. after \in TreeSet
    BY <1>1, <2>1 DEF Types
  <2>4. ASSUME NEW e \in events
        PROVE  e \in EventsOf(e.task) /\ Earned(e.task, Marker(e))'
    <3>1. PICK task \in DOMAIN after.state : e = CompletionEvent(task, after.state[task].generation)
      BY <2>1, <2>2, <2>4 DEF scan_terminal_completions, NewCompletions
    <3>2. validate_notification(after, e)
      BY <2>1, <2>2, <2>4 DEF scan_terminal_completions
    <3>3. e.task = task /\ e.type = "COMPLETED"
          /\ e.fingerprint = CompletionFingerprint(after.state[task].generation)
      BY <3>1 DEF CompletionEvent
    <3>4. StrictDone(after.state[task])
      BY <3>2, <3>3 DEF validate_notification
    <3>5. after.state[task].generation \in Nat
      BY <2>3 DEF TreeSet, States
    <3>6. e.fingerprint \in Fingerprints
      <4>1. Consistency \in Workflows /\ "TASK_COMPLETED" \in Codes /\ {} \in StepSets
        BY TreesAssumption DEF Workflows, Codes, StepSets
      <4> QED BY <3>3, <3>5, <4>1 DEF CompletionFingerprint, Fingerprint, Fingerprints
    <3>7. e \in EventsOf(e.task)
      BY <3>1, <3>3, <3>6 DEF CompletionEvent, EventsOf, ALLOWED_NOTIFICATION_TYPES
    <3>8. /\ r \in DOMAIN runs' /\ runs'[r].workflow = Consistency /\ runs'[r].commit = c /\ c > 0
          /\ runs'[r].answer = "passed" /\ commits'[c] = after
      <4>1. PICK run : run = [runs[r] EXCEPT !.answer = "passed"]
        OBVIOUS
      <4>2. run.workflow = runs[r].workflow /\ run.commit = runs[r].commit /\ run.answer = "passed"
        BY <1>1, <4>1 DEF RunSet
      <4>3. runs' = [runs EXCEPT ![r] = run]
        BY <4>1 DEF Answered
      <4>4. r \in DOMAIN runs' /\ runs'[r] = run
        BY <1>1, <4>3
      <4>5. runs[r].commit \in Nat
        BY <1>1 DEF RunSet
      <4> QED BY <1>1, <2>1, <4>2, <4>4, <4>5
    <3>9. Earned(e.task, Marker(e))'
      BY <3>3, <3>4, <3>8 DEF Earned, Marker
    <3> QED BY <3>7, <3>9
  <2>5. /\ incidents' = [t \in Tasks |-> incidents'[t]]
        /\ \A t \in Tasks : /\ incidents'[t] \in Queues(t) /\ Serial(incidents'[t])
                            /\ Follows(incidents'[t], incidents[t]) /\ EventsEarned(t)'
    <3>1. \A e \in events : e.task \in Tasks => e \in EventsOf(e.task)
      BY <2>4
    <3>2. \A e \in events : e.task \in Tasks => Earned(e.task, Marker(e))'
      BY <2>4
    <3> QED BY <1>2, <2>2, <3>1, <3>2, DispatchedQueues
  <2> QED BY <1>2, <2>5, QuietStep
<1> QED BY <1>3, <1>4

LEMMA CompleteStep ==
  ASSUME Good, NEW r \in DOMAIN runs, Complete(r)
  PROVE  Good'
<1>1. /\ runs[r].answer = "running" /\ UNCHANGED <<commits, issue, sent>>
      /\ Types /\ runs[r] \in RunSet
  BY DEF Complete, Good, Types
<1>2. PICK end \in Ends(runs[r]) :
        CASE Scanned(runs[r], end) ->
                 Scan(r) /\ Answered(r, IF end = Success THEN "passed" ELSE "untold")
          [] end = Success /\ ~Scanned(runs[r], end) ->
                 Answered(r, "passed") /\ UNCHANGED incidents
          [] OTHER -> Recover(r, end)
  BY DEF Complete
<1>3. CASE Scanned(runs[r], end)
  BY <1>1, <1>2, <1>3, ScanStep DEF Scanned
<1>4. CASE end = Success /\ ~Scanned(runs[r], end)
  <2>1. Answered(r, "passed") /\ incidents' = incidents
    BY <1>2, <1>4
  <2>2. Types' /\ Grows
    BY <1>1, <2>1, RunMoves DEF Answered, Answers
  <2> QED BY <1>1, <2>1, <2>2, AnswerStep
<1>5. CASE end # Success /\ ~Scanned(runs[r], end)
  <2>1. end \in FailuresSeen
    BY <1>1, <1>2, <1>5 DEF Ends, FailuresSeen, RunSet
  <2>2. Recover(r, end)
    BY <1>2, <1>5
  <2> QED BY <1>1, <2>1, <2>2, RecoverStep
<1> QED BY <1>3, <1>4, <1>5

-----------------------------------------------------------------------------
(* The runs of the Incident workflow.                                      *)

\* The queues after a change of one slot.
LEMMA SlotStep ==
  ASSUME Good, UNCHANGED <<commits, runs>>, NEW t \in Tasks, NEW q, NEW w,
         q = incidents[t], incidents' = [incidents EXCEPT ![t] = w],
         w \in Queues(t), Serial(w),
         \A i \in DOMAIN w : i \in DOMAIN q /\ w[i].event = q[i].event
  PROVE  /\ Types' /\ Grows /\ incidents'[t] = w
         /\ incidents' = [u \in Tasks |-> incidents'[u]]
         /\ \A u \in Tasks \ {t} : incidents'[u] = incidents[u]
         /\ \A u \in Tasks : /\ incidents'[u] \in Queues(u) /\ Serial(incidents'[u])
                             /\ EventsEarned(u)'
<1>1. Types'
  <2>1. Types
    BY DEF Good
  <2> QED BY <2>1 DEF Types
<1>2. Grows
  BY DEF Grows
<1>3. incidents = [u \in Tasks |-> incidents[u]]
  BY DEF Good
<1>4. /\ incidents'[t] = w
      /\ incidents' = [u \in Tasks |-> incidents'[u]]
      /\ \A u \in Tasks \ {t} : incidents'[u] = incidents[u]
  BY <1>3
<1>5. EventsEarned(t)'
  <2>1. ASSUME NEW i \in DOMAIN w
        PROVE  Earned(t, Marker(incidents[t][i].event))'
    <3>1. PICK m : m = Marker(q[i].event)
      OBVIOUS
    <3>2. Earned(t, m)
      BY <3>1 DEF Good, Queued, EventsEarned
    <3>3. Earned(t, m)'
      BY <1>2, <3>2, EarnedKept DEF Good
    <3>4. m = Marker(incidents'[t][i].event)
      BY <1>4, <3>1 DEF Marker
    <3> QED BY <3>3, <3>4 DEF Earned, Marker
  <2> QED BY <1>4, <2>1 DEF EventsEarned
<1>6. \A u \in Tasks : /\ incidents'[u] \in Queues(u) /\ Serial(incidents'[u])
                       /\ EventsEarned(u)'
  BY <1>2, <1>4, <1>5, SameQueue
<1> QED BY <1>1, <1>2, <1>4, <1>6

\* A slot moved by its run.
LEMMA MovedStep ==
  ASSUME Good, UNCHANGED <<commits, runs>>, NEW t \in Tasks, NEW i \in DOMAIN incidents[t],
         NEW phase \in {"commenting", "barking", "over"}, Moved(t, i, phase),
         \A j \in DOMAIN incidents[t] \ {i} : incidents[t][j].phase \notin Active
  PROVE  \E slot \in Slots(t) :
           /\ slot.event = incidents[t][i].event /\ slot.phase = phase
           /\ incidents'[t][i] = slot
           /\ Types' /\ Grows
           /\ incidents' = [u \in Tasks |-> incidents'[u]]
           /\ \A u \in Tasks \ {t} : incidents'[u] = incidents[u]
           /\ DOMAIN incidents'[t] = DOMAIN incidents[t]
           /\ \A j \in DOMAIN incidents[t] \ {i} : incidents'[t][j] = incidents[t][j]
           /\ \A u \in Tasks : /\ incidents'[u] \in Queues(u) /\ Serial(incidents'[u])
                               /\ EventsEarned(u)'
<1>1. PICK q : q = incidents[t]
  OBVIOUS
<1>2. q \in Queues(t) /\ Serial(q)
  BY <1>1 DEF Good, Queued
<1>3. q[i] \in Slots(t)
  <2>1. q \in Seq(Slots(t))
    BY <1>2 DEF Queues, Slots
  <2> QED BY <1>1, <2>1
<1>4. PICK slot : slot = [q[i] EXCEPT !.phase = phase]
  OBVIOUS
<1>5. slot \in Slots(t) /\ slot.event = q[i].event /\ slot.phase = phase
  <2>1. phase \in Phases
    BY DEF Phases, Active, Over
  <2> QED BY <1>3, <1>4, <2>1 DEF Slots
<1>6. PICK w : w = [q EXCEPT ![i] = slot]
  OBVIOUS
<1>7. /\ w \in Queues(t) /\ Serial(w) /\ DOMAIN w = DOMAIN q /\ w[i] = slot
      /\ \A j \in DOMAIN q \ {i} : w[j] = q[j]
  BY <1>1, <1>2, <1>5, <1>6, MovedQueue
<1>8. incidents' = [incidents EXCEPT ![t] = w]
  BY <1>1, <1>4, <1>6 DEF Moved
<1>9. \A j \in DOMAIN w : j \in DOMAIN q /\ w[j].event = q[j].event
  BY <1>5, <1>7
<1>10. /\ Types' /\ Grows /\ incidents'[t] = w
       /\ incidents' = [u \in Tasks |-> incidents'[u]]
       /\ \A u \in Tasks \ {t} : incidents'[u] = incidents[u]
       /\ \A u \in Tasks : /\ incidents'[u] \in Queues(u) /\ Serial(incidents'[u])
                           /\ EventsEarned(u)'
  BY <1>1, <1>7, <1>8, <1>9, SlotStep
<1> QED BY <1>1, <1>5, <1>7, <1>10

\* A step of the run that holds the slot, or takes it.
LEMMA IncidentStep ==
  ASSUME Good, UNCHANGED <<commits, runs>>, NEW t \in Tasks, NEW i \in DOMAIN incidents[t],
         NEW phase \in {"commenting", "barking", "over"}, Moved(t, i, phase),
         \A j \in DOMAIN incidents[t] \ {i} : incidents[t][j].phase \notin Active,
         NEW event, event = incidents[t][i].event,
         phase = "commenting" => ~Recorded(event)',
         phase = "barking" => Shown(t, Marker(event))' /\ Unasked(t, Marker(event))',
         \A u \in Tasks \ {t} : issue'[u] = issue[u],
         \A k \in DOMAIN sent' : sent'[k].task # t => k \in DOMAIN sent /\ sent'[k] = sent[k],
         IssueTypes', Asked', OneRequest', ReceiptTrue'
  PROVE  Good'
<1>1. PICK slot \in Slots(t) :
           /\ slot.event = event /\ slot.phase = phase
           /\ incidents'[t][i] = slot
           /\ Types' /\ Grows
           /\ incidents' = [u \in Tasks |-> incidents'[u]]
           /\ \A u \in Tasks \ {t} : incidents'[u] = incidents[u]
           /\ DOMAIN incidents'[t] = DOMAIN incidents[t]
           /\ \A j \in DOMAIN incidents[t] \ {i} : incidents'[t][j] = incidents[t][j]
           /\ \A u \in Tasks : /\ incidents'[u] \in Queues(u) /\ Serial(incidents'[u])
                               /\ EventsEarned(u)'
  BY MovedStep
<1>2. Knows(t, slot)'
  BY <1>1 DEF Knows, Recorded, Shown, Unasked, Marker
<1>3. ASSUME NEW j \in DOMAIN incidents[t]
      PROVE  Knows(t, incidents[t][j])'
  <2>1. CASE j = i
    BY <1>1, <1>2, <2>1 DEF Knows, Recorded, Shown, Unasked
  <2>2. CASE j # i
    <3>1. incidents'[t][j].phase \notin {"commenting", "barking"}
      BY <1>1, <2>2 DEF Active
    <3> QED BY <3>1 DEF Knows
  <2> QED BY <2>1, <2>2
<1>4. Queued(t)'
  BY <1>1, <1>3 DEF Queued
<1>5. ASSUME NEW u \in Tasks \ {t}
      PROVE  Queued(u)'
  <2>1. \A k \in DOMAIN sent' : sent'[k].task = u => k \in DOMAIN sent /\ sent'[k] = sent[k]
    OBVIOUS
  <2>2. Follows(incidents'[u], incidents[u])
    BY <1>1 DEF Follows
  <2> QED BY <1>1, <2>1, <2>2, QueuedAfter DEF Good
<1> QED BY <1>1, <1>4, <1>5 DEF Good

LEMMA BreakStep ==
  ASSUME Good, NEW t \in Tasks, NEW i \in DOMAIN incidents[t], Break(t, i)
  PROVE  Good'
<1>1. UNCHANGED <<commits, runs, issue, sent>> /\ Moved(t, i, "over")
  BY DEF Break
<1>2. \A j \in DOMAIN incidents[t] \ {i} : incidents[t][j].phase \notin Active
  <2>1. Serial(incidents[t])
    BY DEF Good, Queued
  <2> QED BY <2>1 DEF Serial, Break
<1>3. PICK slot \in Slots(t) :
           /\ slot.phase = "over"
           /\ incidents'[t][i] = slot
           /\ Types' /\ Grows
           /\ incidents' = [u \in Tasks |-> incidents'[u]]
           /\ \A u \in Tasks \ {t} : incidents'[u] = incidents[u]
           /\ DOMAIN incidents'[t] = DOMAIN incidents[t]
           /\ \A j \in DOMAIN incidents[t] \ {i} : incidents'[t][j] = incidents[t][j]
           /\ \A u \in Tasks : /\ incidents'[u] \in Queues(u) /\ Serial(incidents'[u])
                               /\ EventsEarned(u)'
  BY <1>1, <1>2, MovedStep
<1>4. \A u \in Tasks : Follows(incidents'[u], incidents[u])
  BY <1>3 DEF Follows
<1> QED BY <1>1, <1>3, <1>4, QuietStep

LEMMA StartStep ==
  ASSUME Good, NEW t \in Tasks, NEW i \in DOMAIN incidents[t], Start(t, i)
  PROVE  Good'
<1>1. PICK event : event = incidents[t][i].event
  OBVIOUS
<1>2. PICK phase \in {"commenting", "over"} :
        /\ Moved(t, i, phase)
        /\ phase = "commenting" => ~Recorded(event)
  BY <1>1 DEF Start
<1>3. UNCHANGED <<commits, runs, issue, sent>>
  BY DEF Start
<1>4. \A j \in DOMAIN incidents[t] \ {i} : incidents[t][j].phase \notin Active
  <2>1. Serial(incidents[t])
    BY DEF Good, Queued
  <2>2. CASE incidents[t][i].phase = "queued"
    BY <2>1, <2>2 DEF Serial, Active
  <2>3. CASE ~Held(incidents[t])
    BY <2>3 DEF Held
  <2> QED BY <2>2, <2>3 DEF Start
<1>5. IssueTypes'
  BY <1>3 DEF Good, IssueTypes
<1>6. OneRequest'
  BY <1>3 DEF Good, OneRequest
<1>7. ReceiptTrue'
  BY <1>3 DEF Good, ReceiptTrue
<1>8. Asked'
  <2>1. Types /\ Grows
    BY <1>3 DEF Good, Grows
  <2>2. \A u \in Tasks : \A marker \in issue[u].markers : Earned(u, marker)'
    BY <2>1, EarnedKept DEF Good, Asked
  <2> QED BY <1>3, <2>2 DEF Good, Asked, Shown
<1>9. phase = "commenting" => ~Recorded(event)'
  BY <1>2, <1>3 DEF Recorded
<1> QED BY <1>1, <1>2, <1>3, <1>4, <1>5, <1>6, <1>7, <1>8, <1>9, IncidentStep

LEMMA CommentStep ==
  ASSUME Good, NEW t \in Tasks, NEW i \in DOMAIN incidents[t], Comment(t, i)
  PROVE  Good'
<1>1. PICK event : event = incidents[t][i].event
  OBVIOUS
<1>2. PICK phase \in {"barking", "over"} : Moved(t, i, phase)
  BY DEF Comment
<1>3. /\ UNCHANGED <<commits, runs, sent>>
      /\ issue' = [issue EXCEPT ![t].markers = @ \cup {Marker(event)},
                                ![t].completed = @ \/ event.type = "COMPLETED"]
  BY <1>1 DEF Comment
<1>4. incidents[t][i].phase = "commenting"
  BY DEF Comment
<1>5. \A j \in DOMAIN incidents[t] \ {i} : incidents[t][j].phase \notin Active
  <2>1. Serial(incidents[t])
    BY DEF Good, Queued
  <2> QED BY <1>4, <2>1 DEF Serial, Active
<1>6. event \in EventsOf(t) /\ Earned(t, Marker(event))
  <2>1. incidents[t] \in Seq(Slots(t)) /\ EventsEarned(t)
    BY DEF Good, Queued, Queues, Slots
  <2>2. incidents[t][i] \in Slots(t)
    BY <2>1
  <2>3. event \in EventsOf(t)
    BY <1>1, <2>2 DEF Slots
  <2>4. Earned(t, Marker(event))
    BY <1>1, <2>1 DEF EventsEarned
  <2> QED BY <2>3, <2>4
<1>7. PICK m : m = Marker(event)
  OBVIOUS
<1>8. m \in Markers /\ m[2] = event.type
  BY <1>6, <1>7 DEF Marker, Markers, EventsOf
<1>9. m \notin issue[t].markers /\ (m[2] = "COMPLETED" => ~issue[t].completed)
  <2>1. Knows(t, incidents[t][i])
    BY DEF Good, Queued
  <2>2. event.task = t
    BY <1>6 DEF EventsOf
  <2> QED BY <1>1, <1>4, <1>7, <1>8, <2>1, <2>2 DEF Knows, Recorded
<1>10. issue \in [Tasks -> IssueSet] /\ issue[t] \in IssueSet /\ sent \in Seq(RequestSet)
  BY DEF Good, IssueTypes
<1>11. PICK b \in BOOLEAN : b = (issue[t].completed \/ m[2] = "COMPLETED")
  OBVIOUS
<1>12. PICK noted : noted = [issue[t] EXCEPT !.markers = @ \cup {m}]
  OBVIOUS
<1>13. noted \in IssueSet /\ noted.markers = issue[t].markers \cup {m}
       /\ noted.completed = issue[t].completed /\ noted.receipts = issue[t].receipts
  BY <1>8, <1>10, <1>12 DEF IssueSet
<1>14. PICK new : new = [noted EXCEPT !.completed = b]
  OBVIOUS
<1>15. new \in IssueSet /\ new.markers = issue[t].markers \cup {m} /\ new.completed = b
       /\ new.receipts = issue[t].receipts
  BY <1>13, <1>14 DEF IssueSet
<1>16. issue' = [issue EXCEPT ![t] = new]
  <2>1. b = (noted.completed \/ event.type = "COMPLETED")
    BY <1>8, <1>11, <1>13
  <2>2. b = (issue[t].completed \/ event.type = "COMPLETED")
    BY <1>8, <1>11
  <2> QED BY <1>3, <1>7, <1>12, <1>14, <2>1, <2>2
<1>17. issue' \in [Tasks -> IssueSet] /\ issue'[t] = new /\ \A u \in Tasks \ {t} : issue'[u] = issue[u]
  BY <1>10, <1>15, <1>16
<1>18. IssueTypes'
  BY <1>3, <1>10, <1>17 DEF IssueTypes
<1>19. \A u \in Tasks : /\ issue[u].markers \subseteq issue'[u].markers
                        /\ issue[u].completed => issue'[u].completed
                        /\ issue'[u].receipts = issue[u].receipts
  BY <1>11, <1>15, <1>17
<1>20. Asked'
  <2>1. Types /\ Grows
    BY <1>3 DEF Good, Grows
  <2>2. \A k \in DOMAIN sent' : Shown(sent[k].task, sent[k].marker)'
    <3>1. ASSUME NEW k \in DOMAIN sent
          PROVE  Shown(sent[k].task, sent[k].marker)'
      <4>1. sent[k] \in RequestSet
        BY <1>10
      <4>2. sent[k].task \in Tasks
        BY <4>1 DEF RequestSet
      <4>3. Shown(sent[k].task, sent[k].marker)
        BY DEF Good, Asked
      <4> QED BY <1>3, <1>19, <4>2, <4>3 DEF Shown
    <3> QED BY <1>3, <3>1 DEF Shown
  <2>3. \A u \in Tasks : \A receipt \in issue'[u].receipts : receipt.marker \in issue'[u].markers
    <3>1. \A u \in Tasks : \A receipt \in issue[u].receipts : receipt.marker \in issue[u].markers
      BY DEF Good, Asked
    <3> QED BY <1>19, <3>1
  <2>4. ASSUME NEW u \in Tasks, NEW marker \in issue'[u].markers
        PROVE  Earned(u, marker)'
    <3>1. Earned(u, marker)
      <4>1. CASE marker \in issue[u].markers
        BY <4>1 DEF Good, Asked
      <4>2. CASE marker \notin issue[u].markers
        <5>1. u = t /\ marker = m
          BY <1>15, <1>17, <4>2
        <5> QED BY <1>6, <1>7, <5>1
      <4> QED BY <4>1, <4>2
    <3> QED BY <2>1, <3>1, EarnedKept
  <2> QED BY <2>2, <2>3, <2>4 DEF Asked
<1>21. OneRequest'
  BY <1>3 DEF Good, OneRequest
<1>22. ReceiptTrue'
  <2>1. ReceiptTrue
    BY DEF Good
  <2>2. \A u \in Tasks : issue'[u].receipts = issue[u].receipts
    BY <1>19
  <2>3. sent' = sent
    BY <1>3
  <2> QED BY <2>1, <2>2, <2>3 DEF ReceiptTrue
<1>23. Shown(t, m)'
  BY <1>11, <1>15, <1>17 DEF Shown
<1>24. Unasked(t, m)'
  <2>1. \A k \in DOMAIN sent : sent[k].task = t => Shown(t, sent[k].marker)
    BY DEF Good, Asked
  <2>2. \A receipt \in issue[t].receipts : receipt.marker # m
    BY <1>9 DEF Good, Asked
  <2>3. \A k \in DOMAIN sent : sent[k].task = t =>
          /\ sent[k].marker # m
          /\ ~(sent[k].marker[2] = "COMPLETED" /\ m[2] = "COMPLETED")
    BY <1>9, <2>1 DEF Shown
  <2>4. issue'[t].receipts = issue[t].receipts /\ sent' = sent
    BY <1>3, <1>15, <1>17
  <2> QED BY <2>2, <2>3, <2>4 DEF Unasked
<1>25. Shown(t, Marker(event))' /\ Unasked(t, Marker(event))'
  BY <1>7, <1>23, <1>24 DEF Shown, Unasked, Marker
<1>26. \A k \in DOMAIN sent' : k \in DOMAIN sent /\ sent'[k] = sent[k]
  BY <1>3
<1>27. \A u \in Tasks \ {t} : issue'[u] = issue[u]
  BY <1>17
<1>28. UNCHANGED <<commits, runs>> /\ t \in Tasks /\ i \in DOMAIN incidents[t] /\ Good
  BY <1>3
<1>29. phase \in {"commenting", "barking", "over"} /\ phase # "commenting"
  BY <1>2
<1>30. /\ phase = "commenting" => ~Recorded(event)'
       /\ phase = "barking" => Shown(t, Marker(event))' /\ Unasked(t, Marker(event))'
  BY <1>25, <1>29
<1>31. \A k \in DOMAIN sent' : sent'[k].task # t => k \in DOMAIN sent /\ sent'[k] = sent[k]
  BY <1>26
<1>32. Moved(t, i, phase)
  BY <1>2
<1> QED BY ONLY <1>1, <1>5, <1>18, <1>20, <1>21, <1>22, <1>27, <1>28, <1>29, <1>30, <1>31, <1>32, IncidentStep

\* Either nothing is asked of Bark and no receipt tells of an attempt, or one request is
\* made and the receipts tell of it.
Asking(t, m, more) ==
  \/ sent' = sent /\ \A x \in more : x.attempts = 0
  \/ \E request \in RequestSet :
       /\ request.task = t /\ request.marker = m
       /\ sent' = Append(sent, request)
       /\ \A x \in more : x.attempts = 1 /\ x.status = request.status

\* The invariants that a report on one task keeps, and the other tasks it leaves alone.
Told(t) ==
  /\ IssueTypes' /\ Asked' /\ OneRequest' /\ ReceiptTrue'
  /\ \A u \in Tasks \ {t} : issue'[u] = issue[u]
  /\ \A k \in DOMAIN sent' : sent'[k].task # t => k \in DOMAIN sent /\ sent'[k] = sent[k]

\* What the job of Bark leaves: at most one request, and of it at most one receipt.
LEMMA ReportedStep ==
  ASSUME Good, UNCHANGED <<commits, runs>>, NEW t \in Tasks, NEW m \in Markers,
         Shown(t, m), Unasked(t, m),
         NEW more \in SUBSET ReceiptSet, \A x \in more : x.marker = m,
         issue' = [issue EXCEPT ![t].receipts = @ \cup more],
         Asking(t, m, more)
  PROVE  Told(t)
<1>1. issue \in [Tasks -> IssueSet] /\ issue[t] \in IssueSet /\ sent \in Seq(RequestSet)
  BY DEF Good, IssueTypes
<1>2. Asked /\ OneRequest /\ ReceiptTrue /\ Types /\ Grows
  BY DEF Good, Grows
<1>3. PICK new : new = [issue[t] EXCEPT !.receipts = @ \cup more]
  OBVIOUS
<1>4. /\ new \in IssueSet /\ new.receipts = issue[t].receipts \cup more
      /\ new.markers = issue[t].markers /\ new.completed = issue[t].completed
  BY <1>1, <1>3 DEF IssueSet
<1>5. issue' = [issue EXCEPT ![t] = new]
  BY <1>3
<1>6. issue' \in [Tasks -> IssueSet] /\ issue'[t] = new /\ \A u \in Tasks \ {t} : issue'[u] = issue[u]
  BY <1>1, <1>4, <1>5
<1>7. PICK n \in Nat : n = Len(sent) /\ DOMAIN sent = 1..n
  BY <1>1
<1>8. /\ sent' \in Seq(RequestSet)
      /\ \A k \in DOMAIN sent : k \in DOMAIN sent' /\ sent'[k] = sent[k]
      /\ \/ sent' = sent /\ \A x \in more : x.attempts = 0
         \/ /\ DOMAIN sent' = 1..(n + 1)
            /\ sent'[n + 1].task = t /\ sent'[n + 1].marker = m
            /\ \A x \in more : x.attempts = 1 /\ x.status = sent'[n + 1].status
  <2>1. CASE sent' = sent /\ \A x \in more : x.attempts = 0
    BY <1>1, <2>1
  <2>2. ASSUME NEW request \in RequestSet,
               request.task = t, request.marker = m, sent' = Append(sent, request),
               \A x \in more : x.attempts = 1 /\ x.status = request.status
        PROVE  <1>8!:
    <3>1. /\ Append(sent, request) \in Seq(RequestSet)
          /\ DOMAIN Append(sent, request) = 1..(n + 1) /\ Append(sent, request)[n + 1] = request
          /\ \A k \in 1..n : Append(sent, request)[k] = sent[k]
      BY <1>1, <1>7
    <3> QED BY <1>7, <2>2, <3>1
  <2> QED BY <2>1, <2>2 DEF Asking
<1>9. IssueTypes'
  BY <1>6, <1>8 DEF IssueTypes
<1>10. \A k \in DOMAIN sent' : \/ k \in DOMAIN sent /\ sent'[k] = sent[k]
                               \/ k \notin DOMAIN sent /\ k = n + 1 /\ sent'[k].task = t /\ sent'[k].marker = m
  BY <1>7, <1>8
<1>11. \A u \in Tasks : issue'[u].markers = issue[u].markers /\ issue'[u].completed = issue[u].completed
  BY <1>4, <1>6
<1>12. Asked'
  <2>1. ASSUME NEW k \in DOMAIN sent'
        PROVE  Shown(sent[k].task, sent[k].marker)'
    <3>1. CASE k \in DOMAIN sent /\ sent'[k] = sent[k]
      <4>1. sent[k] \in RequestSet
        BY <1>1, <3>1
      <4>2. sent[k].task \in Tasks
        BY <4>1 DEF RequestSet
      <4>3. Shown(sent[k].task, sent[k].marker)
        BY <1>2, <3>1 DEF Asked
      <4> QED BY <1>11, <3>1, <4>2, <4>3 DEF Shown
    <3>2. CASE sent'[k].task = t /\ sent'[k].marker = m
      BY <1>11, <3>2 DEF Shown
    <3> QED BY <1>10, <3>1, <3>2
  <2>2. ASSUME NEW u \in Tasks, NEW receipt \in issue'[u].receipts
        PROVE  receipt.marker \in issue'[u].markers
    <3>1. CASE receipt \in issue[u].receipts
      BY <1>2, <1>11, <3>1 DEF Asked
    <3>2. CASE receipt \notin issue[u].receipts
      <4>1. u = t /\ receipt \in more
        BY <1>4, <1>6, <3>2
      <4> QED BY <1>11, <4>1 DEF Shown
    <3> QED BY <3>1, <3>2
  <2>3. ASSUME NEW u \in Tasks, NEW marker \in issue'[u].markers
        PROVE  Earned(u, marker)'
    <3>1. Earned(u, marker)
      BY <1>2, <1>11 DEF Asked
    <3> QED BY <1>2, <3>1, EarnedKept
  <2> QED BY <2>1, <2>2, <2>3 DEF Asked
<1>13. OneRequest'
  <2>1. \A k \in DOMAIN sent : sent[k].task = t =>
          /\ sent[k].marker # m
          /\ ~(sent[k].marker[2] = "COMPLETED" /\ m[2] = "COMPLETED")
    BY DEF Unasked
  <2>2. \A j, k \in DOMAIN sent :
          (j # k /\ sent[j].task = sent[k].task) =>
              /\ sent[j].marker # sent[k].marker
              /\ ~(sent[j].marker[2] = "COMPLETED" /\ sent[k].marker[2] = "COMPLETED")
    BY <1>2 DEF OneRequest
  <2>3. ASSUME NEW j \in DOMAIN sent', NEW k \in DOMAIN sent', j # k, sent'[j].task = sent'[k].task
        PROVE  /\ sent'[j].marker # sent'[k].marker
               /\ ~(sent'[j].marker[2] = "COMPLETED" /\ sent'[k].marker[2] = "COMPLETED")
    <3>1. CASE j \in DOMAIN sent /\ k \in DOMAIN sent
      BY <1>8, <2>2, <2>3, <3>1
    <3>2. CASE j \in DOMAIN sent /\ k \notin DOMAIN sent
      BY <1>8, <1>10, <2>1, <2>3, <3>2
    <3>3. CASE j \notin DOMAIN sent /\ k \in DOMAIN sent
      BY <1>8, <1>10, <2>1, <2>3, <3>3
    <3>4. CASE j \notin DOMAIN sent /\ k \notin DOMAIN sent
      BY <1>10, <2>3, <3>4
    <3> QED BY <3>1, <3>2, <3>3, <3>4
  <2> QED BY <2>3 DEF OneRequest
<1>14. ASSUME NEW u \in Tasks, NEW receipt \in issue'[u].receipts, NEW made,
              made = {k \in DOMAIN sent' : sent'[k].task = u /\ sent'[k].marker = receipt.marker}
       PROVE  Cardinality(made) = receipt.attempts /\ \A k \in made : receipt.status = sent'[k].status
  <2>1. CASE receipt \in issue[u].receipts
    <3>1. ~(u = t /\ receipt.marker = m)
      BY <2>1 DEF Unasked
    <3>2. made = {k \in DOMAIN sent : sent[k].task = u /\ sent[k].marker = receipt.marker}
      BY <1>8, <1>10, <1>14, <3>1
    <3>3. /\ Cardinality(made) = receipt.attempts
          /\ \A k \in made : receipt.status = sent[k].status
      BY <1>2, <2>1, <3>2 DEF ReceiptTrue
    <3> QED BY <1>8, <3>2, <3>3
  <2>2. CASE receipt \notin issue[u].receipts
    <3>1. u = t /\ receipt \in more /\ receipt.marker = m
      BY <1>4, <1>6, <2>2
    <3>2. \A k \in DOMAIN sent : ~(sent[k].task = t /\ sent[k].marker = m)
      BY DEF Unasked
    <3>3. CASE sent' = sent /\ \A x \in more : x.attempts = 0
      <4>1. made = {}
        BY <1>14, <3>1, <3>2, <3>3
      <4> QED BY <3>1, <3>3, <4>1, FS_EmptySet
    <3>4. CASE /\ DOMAIN sent' = 1..(n + 1)
               /\ sent'[n + 1].task = t /\ sent'[n + 1].marker = m
               /\ \A x \in more : x.attempts = 1 /\ x.status = sent'[n + 1].status
      <4>1. made = {n + 1}
        <5>1. n + 1 \in 1..(n + 1)
          OBVIOUS
        <5>2. \A k \in made : k = n + 1
          BY <1>8, <1>10, <1>14, <3>1, <3>2
        <5> QED BY <1>14, <3>1, <3>4, <5>1, <5>2
      <4> QED BY <3>1, <3>4, <4>1, FS_Singleton
    <3> QED BY <1>8, <3>3, <3>4
  <2> QED BY <2>1, <2>2
<1>15. ReceiptTrue'
  <2>1. ASSUME NEW u \in Tasks, NEW receipt \in issue'[u].receipts
        PROVE  LET made == {k \in DOMAIN sent' : sent'[k].task = u /\ sent'[k].marker = receipt.marker}
               IN  Cardinality(made) = receipt.attempts /\ \A k \in made : receipt.status = sent'[k].status
    <3>1. PICK made : made = {k \in DOMAIN sent' : sent'[k].task = u /\ sent'[k].marker = receipt.marker}
      OBVIOUS
    <3>2. Cardinality(made) = receipt.attempts /\ \A k \in made : receipt.status = sent'[k].status
      BY ONLY <1>14, <2>1, <3>1
    <3> QED BY ONLY <3>1, <3>2
  <2> QED BY <2>1 DEF ReceiptTrue
<1> QED BY <1>6, <1>9, <1>10, <1>12, <1>13, <1>15 DEF Told

\* A receipt is of the marker of its event, and says what the outputs say.
LEMMA ReceiptsMore ==
  ASSUME NEW known, NEW event, NEW outputs
  PROVE  \/ Receipts(known, event, outputs) = known
         \/ /\ validate_delivery_result(outputs)
            /\ Receipts(known, event, outputs) =
                 known \cup {[marker |-> Marker(event), status |-> outputs.status,
                              attempts |-> outputs.attempts]}
  BY DEF Receipts

LEMMA BarkStep ==
  ASSUME Good, NEW t \in Tasks, NEW i \in DOMAIN incidents[t], Bark(t, i)
  PROVE  Good'
<1>1. PICK event : event = incidents[t][i].event
  OBVIOUS
<1>2. PICK m : m = Marker(event)
  OBVIOUS
<1>3. UNCHANGED <<commits, runs>> /\ Moved(t, i, "over") /\ incidents[t][i].phase = "barking"
  BY DEF Bark
<1>4. \A j \in DOMAIN incidents[t] \ {i} : incidents[t][j].phase \notin Active
  <2>1. Serial(incidents[t])
    BY DEF Good, Queued
  <2> QED BY <1>3, <2>1 DEF Serial, Active
<1>5. event \in EventsOf(t)
  <2>1. incidents[t] \in Seq(Slots(t))
    BY DEF Good, Queued, Queues, Slots
  <2>2. incidents[t][i] \in Slots(t)
    BY <2>1
  <2> QED BY <1>1, <2>2 DEF Slots
<1>6. m \in Markers /\ event.task = t
  BY <1>2, <1>5 DEF Marker, Markers, EventsOf
<1>7. Shown(t, m) /\ Unasked(t, m)
  <2>1. Knows(t, incidents[t][i])
    BY DEF Good, Queued
  <2>2. Shown(t, Marker(event)) /\ Unasked(t, Marker(event))
    BY <1>1, <1>3, <2>1 DEF Knows
  <2> QED BY <1>2, <2>2
<1>8. issue \in [Tasks -> IssueSet] /\ issue[t] \in IssueSet
  BY DEF Good, IssueTypes
<1> DEFINE Of(outputs) == [marker |-> m, status |-> outputs.status, attempts |-> outputs.attempts]
           Left(more) == issue' = [issue EXCEPT ![t].receipts = @ \cup more]
<1>9. ASSUME NEW outputs, issue' = [issue EXCEPT ![t].receipts = Receipts(@, event, outputs)]
      PROVE  Left({}) \/ (Left({Of(outputs)}) /\ validate_delivery_result(outputs))
  <2>1. PICK known : known = issue[t].receipts
    OBVIOUS
  <2>2. CASE Receipts(known, event, outputs) = known
    <3>1. known \cup {} = known
      OBVIOUS
    <3> QED BY <1>9, <2>1, <2>2, <3>1
  <2>3. CASE /\ validate_delivery_result(outputs)
             /\ Receipts(known, event, outputs) = known \cup {Of(outputs)}
    BY <1>9, <2>1, <2>3
  <2> QED BY <1>2, <2>2, <2>3, ReceiptsMore
<1>10. \E more \in SUBSET ReceiptSet :
         /\ \A x \in more : x.marker = m
         /\ Left(more)
         /\ \/ sent' = sent /\ \A x \in more : x.attempts = 0
            \/ \E request \in RequestSet :
                 /\ request.task = t /\ request.marker = m
                 /\ sent' = Append(sent, request)
                 /\ \A x \in more : x.attempts = 1 /\ x.status = request.status
  <2>1. CASE UNCHANGED <<issue, sent>>
    <3>1. Left({})
      BY <1>8, <2>1 DEF IssueSet
    <3> HIDE DEF Left
    <3> QED BY <2>1, <3>1
  <2>2. CASE /\ issue' = [issue EXCEPT ![t].receipts = Receipts(@, event, Skipped)]
             /\ UNCHANGED sent
    <3>1. Of(Skipped) \in ReceiptSet /\ Of(Skipped).marker = m /\ Of(Skipped).attempts = 0
      BY <1>6 DEF Skipped, ReceiptSet
    <3>2. Left({}) \/ Left({Of(Skipped)})
      BY <1>9, <2>2
    <3> HIDE DEF Of, Left
    <3> QED BY <2>2, <3>1, <3>2
  <2>3. ASSUME NEW transport \in Transports,
               sent' = Append(sent, [task |-> event.task, marker |-> Marker(event),
                                     status |-> Outputs(transport).status]),
               NEW outputs \in {Outputs(transport), NoOutputs},
               issue' = [issue EXCEPT ![t].receipts = Receipts(@, event, outputs)]
        PROVE  <1>10!:
    <3>1. PICK request : request = [task |-> t, marker |-> m, status |-> Outputs(transport).status]
      OBVIOUS
    <3>2. Outputs(transport).status \in {"DELIVERED", "FAILED"} /\ Outputs(transport).attempts = 1
      BY DEF Outputs
    <3>3. request \in RequestSet /\ request.task = t /\ request.marker = m
          /\ request.status = Outputs(transport).status
      BY <1>6, <3>1, <3>2 DEF RequestSet
    <3>4. sent' = Append(sent, request)
      BY <1>2, <1>6, <2>3, <3>1
    <3>5. ~validate_delivery_result(NoOutputs)
      BY DEF validate_delivery_result, NoOutputs
    <3>6. Left({}) \/ Left({Of(Outputs(transport))})
      BY <1>9, <2>3, <3>5
    <3>7. LET x == Of(Outputs(transport))
          IN  x \in ReceiptSet /\ x.marker = m /\ x.attempts = 1 /\ x.status = request.status
      BY <1>6, <3>2, <3>3 DEF ReceiptSet
    <3> HIDE DEF Of, Left
    <3> QED BY <3>3, <3>4, <3>6, <3>7
  <2> QED BY <1>1, <2>1, <2>2, <2>3 DEF Bark
<1>11. Told(t)
  <2>1. PICK more \in SUBSET ReceiptSet :
         /\ \A x \in more : x.marker = m
         /\ issue' = [issue EXCEPT ![t].receipts = @ \cup more]
         /\ \/ sent' = sent /\ \A x \in more : x.attempts = 0
            \/ \E request \in RequestSet :
                 /\ request.task = t /\ request.marker = m
                 /\ sent' = Append(sent, request)
                 /\ \A x \in more : x.attempts = 1 /\ x.status = request.status
    BY <1>10, Zenon
  <2>2. UNCHANGED <<commits, runs>> /\ t \in Tasks /\ m \in Markers /\ Good
    BY <1>3, <1>6
  <2>3. Asking(t, m, more)
    BY <2>1 DEF Asking
  <2>4. more \in SUBSET ReceiptSet /\ \A x \in more : x.marker = m
    BY <2>1
  <2>5. issue' = [issue EXCEPT ![t].receipts = @ \cup more]
    BY <2>1
  <2> QED BY ONLY <1>7, <2>2, <2>3, <2>4, <2>5, ReportedStep, Zenon
<1> QED BY <1>1, <1>3, <1>4, <1>11, IncidentStep DEF Told

LEMMA RerunStep ==
  ASSUME Good, NEW t \in Tasks, NEW i \in DOMAIN incidents[t], Rerun(t, i)
  PROVE  Good'
<1>1. PICK q : q = incidents[t]
  OBVIOUS
<1>2. q \in Queues(t) /\ Serial(q) /\ i \in DOMAIN q
  BY <1>1 DEF Good, Queued
<1>3. PICK base, phase :
        /\ base = IF Held(q) THEN Waiting(q, "cancelled") ELSE q
        /\ phase = IF Held(q) THEN "pending" ELSE "queued"
  OBVIOUS
<1>4. /\ base \in Queues(t) /\ Serial(base) /\ DOMAIN base = DOMAIN q /\ Follows(base, q)
      /\ \A j \in DOMAIN q : base[j].event = q[j].event
      /\ phase = "pending" => \A j \in DOMAIN q : base[j].phase # "pending"
      /\ phase = "queued" => \A j \in DOMAIN q : base[j].phase \notin Active
  <2>1. CASE Held(q)
    <3>1. base = Waiting(q, "cancelled") /\ phase = "pending"
      BY <1>3, <2>1
    <3> QED BY <1>2, <3>1, WaitingQueue
  <2>2. CASE ~Held(q)
    <3>1. base = q /\ phase = "queued"
      BY <1>3, <2>2
    <3> QED BY <1>2, <2>2, <3>1 DEF Held, Follows
  <2> QED BY <2>1, <2>2
<1>5. base[i] \in Slots(t)
  <2>1. base \in Seq(Slots(t))
    BY <1>4 DEF Queues, Slots
  <2> QED BY <1>2, <1>4, <2>1
<1>6. phase \in Phases /\ phase \notin {"commenting", "barking"} /\ "pending" \notin Active
  BY <1>3 DEF Phases, Active, Over
<1>7. PICK moved : moved = [base[i] EXCEPT !.phase = phase]
  OBVIOUS
<1>8. moved \in Slots(t) /\ moved.event = base[i].event /\ moved.phase = phase
  BY <1>5, <1>6, <1>7 DEF Slots
<1>9. PICK slot : slot = [moved EXCEPT !.attempt = 2]
  OBVIOUS
<1>10. slot \in Slots(t) /\ slot.event = base[i].event /\ slot.phase = phase
  BY <1>8, <1>9 DEF Slots
<1>11. PICK w : w = [base EXCEPT ![i] = slot]
  OBVIOUS
<1>12. /\ w \in Queues(t) /\ Serial(w) /\ DOMAIN w = DOMAIN base /\ w[i] = slot
       /\ \A j \in DOMAIN base \ {i} : w[j] = base[j]
  <2>1. phase \in Active => phase = "queued"
    BY <1>3, <1>6
  <2>2. slot.phase \in Active => \A j \in DOMAIN base \ {i} : base[j].phase \notin Active
    BY <1>4, <1>10, <2>1
  <2>3. slot.phase = "pending" => \A j \in DOMAIN base \ {i} : base[j].phase # "pending"
    BY <1>4, <1>10
  <2>4. i \in DOMAIN base
    BY <1>2, <1>4
  <2> QED BY <1>4, <1>10, <1>11, <2>2, <2>3, <2>4, MovedQueue
<1>13. incidents' = [incidents EXCEPT ![t] = w]
  <2>1. incidents' = [incidents EXCEPT ![t] =
                         [base EXCEPT ![i].phase = phase, ![i].attempt = 2]]
    BY <1>1, <1>3 DEF Rerun
  <2>2. PICK b : b = [base EXCEPT ![i] = moved]
    OBVIOUS
  <2>3. b[i] = moved
    BY <1>2, <1>4, <2>2
  <2>4. [base EXCEPT ![i].phase = phase, ![i].attempt = 2] = [b EXCEPT ![i] = slot]
    BY <1>7, <1>9, <2>2, <2>3
  <2>5. [b EXCEPT ![i] = slot] = w
    BY <1>11, <2>2
  <2> QED BY <2>1, <2>4, <2>5
<1>14. UNCHANGED <<commits, runs, issue, sent>>
  BY DEF Rerun
<1>15. \A j \in DOMAIN w : j \in DOMAIN q /\ w[j].event = q[j].event
  BY <1>4, <1>10, <1>12
<1>16. /\ Types' /\ Grows /\ incidents'[t] = w
       /\ incidents' = [u \in Tasks |-> incidents'[u]]
       /\ \A u \in Tasks \ {t} : incidents'[u] = incidents[u]
       /\ \A u \in Tasks : /\ incidents'[u] \in Queues(u) /\ Serial(incidents'[u])
                           /\ EventsEarned(u)'
  BY <1>1, <1>12, <1>13, <1>14, <1>15, SlotStep
<1>17. Follows(w, q)
  BY <1>4, <1>6, <1>10, <1>12 DEF Follows
<1>18. \A u \in Tasks : Follows(incidents'[u], incidents[u])
  BY <1>1, <1>16, <1>17 DEF Follows
<1> QED BY <1>14, <1>16, <1>18, QuietStep

-----------------------------------------------------------------------------
(* The theorems.                                                           *)

LEMMA GoodInit == Init => Good
<1> SUFFICES ASSUME Init PROVE Good
  OBVIOUS
<1>1. PICK tree \in Trees : commits = <<tree>>
  BY DEF Init
<1>2. Types
  <2>1. tree \in TreeSet
    BY TreesAssumption DEF TreeOf, TreeSet
  <2>2. commits \in Seq(TreeSet) /\ Len(commits) = 1
    BY <1>1, <2>1
  <2>3. runs = <<>>
    BY DEF Init
  <2> QED BY <2>2, <2>3 DEF Types
<1>3. incidents = [t \in Tasks |-> <<>>] /\ sent = <<>>
  BY DEF Init
<1>4. /\ issue \in [Tasks -> IssueSet]
      /\ \A t \in Tasks : issue[t].markers = {} /\ issue[t].receipts = {}
  BY DEF Init, IssueSet
<1>5. IssueTypes
  BY <1>3, <1>4 DEF IssueTypes
<1>6. \A t \in Tasks : Queued(t)
  <2>1. ASSUME NEW t \in Tasks PROVE Queued(t)
    <3>1. incidents[t] = <<>>
      BY <1>3
    <3>2. incidents[t] \in Queues(t)
      BY <3>1 DEF Queues
    <3> QED BY <3>1, <3>2 DEF Queued, Serial, EventsEarned
  <2> QED BY <2>1
<1>7. Asked
  BY <1>3, <1>4 DEF Asked
<1>8. OneRequest
  BY <1>3 DEF OneRequest
<1>9. ReceiptTrue
  BY <1>4 DEF ReceiptTrue
<1>10. incidents = [t \in Tasks |-> incidents[t]]
  BY <1>3
<1> QED BY <1>2, <1>5, <1>6, <1>7, <1>8, <1>9, <1>10 DEF Good

LEMMA GoodStep == Good /\ [Next]_vars => Good'
<1> SUFFICES ASSUME Good, [Next]_vars PROVE Good'
  OBVIOUS
<1>1. ASSUME NEW task \in Tasks, NEW tip \in BOOLEAN, Commit(task, tip) PROVE Good'
  BY <1>1, CommitStep
<1>2. ASSUME NEW workflow \in Workflows, StartOther(workflow) PROVE Good'
  BY <1>2, StartOtherStep
<1>3. ASSUME NEW r \in DOMAIN runs, Complete(r) PROVE Good'
  BY <1>3, CompleteStep
<1>4. ASSUME NEW t \in Tasks, NEW i \in DOMAIN incidents[t], Start(t, i) PROVE Good'
  BY <1>4, StartStep
<1>5. ASSUME NEW t \in Tasks, NEW i \in DOMAIN incidents[t], Comment(t, i) PROVE Good'
  BY <1>5, CommentStep
<1>6. ASSUME NEW t \in Tasks, NEW i \in DOMAIN incidents[t], Bark(t, i) PROVE Good'
  BY <1>6, BarkStep
<1>7. ASSUME NEW t \in Tasks, NEW i \in DOMAIN incidents[t], Break(t, i) PROVE Good'
  BY <1>7, BreakStep
<1>8. ASSUME NEW t \in Tasks, NEW i \in DOMAIN incidents[t], Rerun(t, i) PROVE Good'
  BY <1>8, RerunStep
<1>9. CASE UNCHANGED vars
  <2>1. /\ commits' = commits /\ runs' = runs /\ incidents' = incidents
        /\ issue' = issue /\ sent' = sent
    BY <1>9 DEF vars
  <2>2. Types'
    BY <2>1 DEF Good, Types
  <2>3. Grows
    BY <2>1 DEF Grows
  <2>4. \A t \in Tasks : /\ incidents'[t] \in Queues(t) /\ Serial(incidents'[t])
                         /\ Follows(incidents'[t], incidents[t]) /\ EventsEarned(t)'
    BY <2>1, <2>3, SameQueue
  <2>5. incidents' = [t \in Tasks |-> incidents'[t]]
    BY <2>1 DEF Good
  <2> QED BY <2>1, <2>2, <2>3, <2>4, <2>5, QuietStep
<1> QED BY <1>1, <1>2, <1>3, <1>4, <1>5, <1>6, <1>7, <1>8, <1>9 DEF Next

LEMMA GoodHolds == Spec => []Good
  BY GoodInit, GoodStep, PTL DEF Spec

\* States, runs and incidents are well formed, and no run is started again beyond the
\* budget of Auto Recovery (recovery_policy.py:323-341).
THEOREM TypeHolds == Spec => []TypeOK
<1>1. Good => TypeOK
  <2> SUFFICES ASSUME Good PROVE TypeOK
    OBVIOUS
  <2>1. \A c \in DOMAIN commits : TreeOf(Tasks, Branches, commits[c])
    <3>1. commits \in Seq(TreeSet)
      BY DEF Good, Types
    <3>2. \A c \in DOMAIN commits : commits[c] \in TreeSet
      BY <3>1
    <3> QED BY <3>2 DEF TreeSet, TreeOf
  <2>2. ASSUME NEW r \in DOMAIN runs
        PROVE  /\ runs[r].workflow \in Workflows /\ runs[r].commit \in 0..Len(commits)
               /\ runs[r].attempt \in 1..InfrastructureRetryLimit
               /\ runs[r].answer \in Answers \cup {"running"}
    <3>1. runs \in Seq(RunSet) /\ commits \in Seq(TreeSet)
          /\ (runs[r].commit # 0 => runs[r].commit \in DOMAIN commits)
      BY DEF Good, Types
    <3>2. runs[r] \in RunSet
      BY <3>1
    <3>3. runs[r].commit \in 0..Len(commits)
      <4>1. Len(commits) \in Nat /\ DOMAIN commits = 1..Len(commits)
        BY <3>1
      <4> QED BY <3>1, <4>1
    <3> QED BY <3>2, <3>3 DEF RunSet
  <2>3. ASSUME NEW t \in Tasks, NEW i \in DOMAIN incidents[t]
        PROVE  /\ incidents[t][i].event.task = t
               /\ incidents[t][i].event.type \in ALLOWED_NOTIFICATION_TYPES
               /\ incidents[t][i].phase \in Active \cup Over \cup {"pending"}
               /\ incidents[t][i].attempt \in 1..2
    <3>1. incidents[t] \in Seq(Slots(t))
      BY DEF Good, Queued, Queues, Slots
    <3>2. incidents[t][i] \in Slots(t)
      BY <3>1
    <3>3. incidents[t][i].event \in EventsOf(t)
      BY <3>2 DEF Slots
    <3> QED BY <3>2, <3>3 DEF Slots, EventsOf, Phases
  <2> QED BY <2>1, <2>2, <2>3 DEF TypeOK
<1> QED BY <1>1, GoodHolds, PTL

\* Bark is asked once for a notification, and once for the completion of a task
\* whatever its generations, the repeated runs and the order of the dispatches
\* (docs/process/policies/notification-policy.md:97-114).
THEOREM OneRequestHolds == Spec => []OneRequest
<1>1. Good => OneRequest
  BY DEF Good
<1> QED BY <1>1, GoodHolds, PTL

\* A completion is on the issue only for a commit of main that closed the task in full
\* with that generation and passed State Consistency
\* (docs/process/policies/notification-policy.md:231-240).
THEOREM CompletionEarnedHolds == Spec => []CompletionEarned
<1>1. Good => CompletionEarned
  <2> SUFFICES ASSUME Good, NEW t \in Tasks, NEW marker \in issue[t].markers,
                      marker[2] = "COMPLETED"
               PROVE  \E r \in DOMAIN runs :
                        /\ runs[r].workflow = Consistency /\ runs[r].commit > 0
                        /\ runs[r].answer = "passed"
                        /\ StrictDone(commits[runs[r].commit].state[t])
                        /\ marker[1] = CompletionFingerprint(commits[runs[r].commit].state[t].generation)
    BY DEF CompletionEarned
  <2>1. Earned(t, marker)
    BY DEF Good, Asked
  <2> QED BY <2>1 DEF Earned
<1> QED BY <1>1, GoodHolds, PTL

\* The receipt on the issue says of the request what happened to it: how many were
\* made, and delivered only when the server took it (bark_delivery_result.py:218-247).
THEOREM ReceiptTrueHolds == Spec => []ReceiptTrue
<1>1. Good => ReceiptTrue
  BY DEF Good
<1> QED BY <1>1, GoodHolds, PTL

=============================================================================
