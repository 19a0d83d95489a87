-------------------------- MODULE TaskCentreProofs --------------------------
(***************************************************************************)
(* The fetch pipeline and the task centre, for any groups, answers, jobs,  *)
(* stocks, managers, threads and crashes.                                  *)
(*                                                                         *)
(* First the pipeline (PassGood): what a pass that nobody cancels has in   *)
(* its memory, its group files and combined.json, at every stage of it.    *)
(* On it rest the fetch command under its wrapper (FetchGood) and the data *)
(* of one job (PlainGood).                                                 *)
(*                                                                         *)
(* Then the task centre itself.  The shape of a call (Typed): where each   *)
(* operation may be and what its copy may say.  The locks (Locked): who is *)
(* past the lock has the job in the active set, who is busy is executing.  *)
(* The start-up repair (Mending): what a crash left is in order when it    *)
(* ends.                                                                   *)
(***************************************************************************)
EXTENDS JobManager, JobData, FetchRun, FiniteSetTheorems, TLAPS

-----------------------------------------------------------------------------
(* The pipeline, for both of its hosts. *)

\* What a finished group leaves: it has succeeded exactly when it has data of
\* some kind, so that _group_quality puts every success before every failure.
SoundResult(res) == res \in Result /\ (res.success <=> res.data # "none")

\* The group g belongs to the stage the pass is in.
Due(g) ==
    \/ pass = "page" /\ g = Page
    \/ pass = "pool" /\ g \in Standard
    \/ pass = "dynamic" /\ g \in Dynamic

\* A request of this host failed, or a file of the raw cache is torn.
Cause == disturbed \/ \E r \in Requests : raw[r] = "torn"

\* A group is at work only in its stage, and then without a result.
TasksInStage ==
    \A g \in Groups :
        /\ task[g] # "idle" => Due(g) /\ results[g] = Missing
        /\ task[g] = "done" => SoundResult(out[g])

\* The group files that can be read are whole results.
FilesSound == \A g \in Groups : Readable(file[g]) => SoundResult(file[g])

\* The results of a pass are those of its group files.
ResultsSaved ==
    pass # "off" => \A g \in Groups :
        results[g] # Missing => results[g] = file[g] /\ SoundResult(results[g])

\* A stage is left with a result for each of its groups.
StagesDone ==
    /\ pass \in {"pool", "dynamic", "combine", "returned"} => results[Page] # Missing
    /\ pass = "pool" => \A g \in Standard : task[g] = "idle" => results[g] # Missing
    /\ pass \in {"dynamic", "combine", "returned"} => \A g \in Standard : results[g] # Missing
    /\ pass \in {"combine", "returned"} => \A g \in Dynamic : results[g] # Missing
    /\ pass = "returned" => combined = [state |-> "whole", groups |-> results]

\* A pass that nobody cancels.
PassGood ==
    /\ ~cancelled /\ pass # "raised"
    /\ TasksInStage /\ FilesSound /\ ResultsSaved /\ StagesDone

LEMMA GroupParts ==
    /\ Page \in Groups /\ Standard \subseteq Groups /\ Dynamic \subseteq Groups
    /\ Page \notin Standard /\ Page \notin Dynamic /\ Standard \cap Dynamic = {}
    /\ Fallback \subseteq Standard /\ Quote \subseteq Standard
    /\ \A g \in Groups : g = Page \/ g \in Standard \/ g \in Dynamic
    /\ \A d \in Dynamic : Source[d] \in Groups
BY FetchAssumption DEF Groups

LEMMA RequestOf ==
    /\ \A g \in Groups : \A k \in Kinds(g) : <<g, k>> \in Requests
    /\ \A r \in Requests : r[1] \in Groups /\ r = <<r[1], r[2]>> /\ r[2] \in Kinds(r[1])
BY DEF Requests

LEMMA KindsOf ==
    /\ \A g \in Groups \ Dynamic : "candidate" \in Kinds(g)
    /\ \A g \in Fallback : "fallback" \in Kinds(g)
    /\ \A d \in Dynamic : Kinds(d) = Ids
BY GroupParts DEF Kinds

LEMMA ReplyKinds ==
    ASSUME raw \in [Requests -> {"none", "torn", "good", "bad"}],
           NEW r \in Requests, NEW o \in Replies(r)
    PROVE  /\ o \in {"error", "good", "bad"}
           /\ o = "error" => raw[r] = "none" \/ raw[r] = "torn"
BY DEF Replies, Accepted, QuoteAnswers

\* What a batch of answers does to the raw cache.
LEMMA AnsweredKeeps ==
    ASSUME raw \in [Requests -> {"none", "torn", "good", "bad"}], disturbed \in BOOLEAN,
           NEW g \in Groups, NEW f, DOMAIN f \subseteq Kinds(g),
           \A k \in DOMAIN f : f[k] \in Replies(<<g, k>>),
           Answered(g, f)
    PROVE  /\ raw' \in [Requests -> {"none", "torn", "good", "bad"}]
           /\ disturbed' \in BOOLEAN
           /\ Cause => Cause'
           /\ \A k \in DOMAIN f : f[k] \in {"error", "good", "bad"}
           /\ \A k \in DOMAIN f : f[k] = "error" => Cause'
<1>1. \A k \in DOMAIN f :
         /\ <<g, k>> \in Requests
         /\ f[k] \in {"error", "good", "bad"}
         /\ f[k] = "error" => raw[<<g, k>>] = "none" \/ raw[<<g, k>>] = "torn"
  BY RequestOf, ReplyKinds
<1>2. raw' \in [Requests -> {"none", "torn", "good", "bad"}]
  BY <1>1 DEF Answered
<1>3. \A r \in Requests : raw[r] = "torn" => raw'[r] = "torn"
  BY DEF Answered
<1>4. disturbed' \in BOOLEAN /\ (disturbed => disturbed')
  BY DEF Answered
<1>5. \A k \in DOMAIN f : f[k] = "error" /\ raw[<<g, k>>] = "none" => disturbed'
  BY DEF Answered
<1> QED
  BY <1>1, <1>2, <1>3, <1>4, <1>5 DEF Cause

LEMMA StandardSound ==
    ASSUME NEW o \in {"error", "good", "bad"}
    PROVE  SoundResult(StandardResult(o)) /\ (StandardResult(o).success <=> o # "error")
BY DEF SoundResult, StandardResult, Result, Data

LEMMA DynamicSound ==
    ASSUME NEW f, \A i \in DOMAIN f : f[i] \in {"error", "good", "bad"}
    PROVE  /\ SoundResult(DynamicResult(f))
           /\ DynamicResult(f).success \/ \E i \in DOMAIN f : f[i] = "error"
BY DEF SoundResult, DynamicResult, Result, Data

-----------------------------------------------------------------------------
(* Types of the pipeline. *)

LEMMA PassCases ==
    ASSUME PassStep
    PROVE  \/ PageStart \/ PageSave \/ PoolStart \/ PoolEnd \/ DynamicEnd \/ Combine
           \/ \E g \in {Page} \cup Standard :
                 \/ Take(g) \/ Abort(g) \/ Collect(g)
                 \/ \E o \in Replies(<<g, "candidate">>) : Candidate(g, o)
                 \/ g \in Fallback /\ \E o \in Replies(<<g, "fallback">>) : FallbackTried(g, o)
           \/ \E d \in Dynamic :
                 \/ DynamicStart(d) \/ DynamicSave(d)
                 \/ \E f \in [Identifiers(d) -> {"error", "good"}] : DynamicAnswered(d, f)
BY DEF PassStep, GroupStep, DynamicStep

\* The answers a step gives, as AnsweredKeeps wants them.
LEMMA CandidateAnswers ==
    ASSUME PipeTypeOK, NEW g \in {Page} \cup Standard, NEW k \in Kinds(g),
           NEW o \in Replies(<<g, k>>), Answered(g, [i \in {k} |-> o])
    PROVE  /\ raw' \in [Requests -> {"none", "torn", "good", "bad"}]
           /\ disturbed' \in BOOLEAN
           /\ Cause => Cause'
           /\ o \in {"error", "good", "bad"}
           /\ o = "error" => Cause'
<1> DEFINE f == [i \in {k} |-> o]
<1>1. g \in Groups
  BY GroupParts
<1>2. DOMAIN f = {k} /\ f[k] = o
  OBVIOUS
<1>3. \A i \in DOMAIN f : f[i] \in Replies(<<g, i>>)
  BY <1>2
<1>4. Answered(g, f)
  OBVIOUS
<1> HIDE DEF f
<1>5. raw \in [Requests -> {"none", "torn", "good", "bad"}] /\ disturbed \in BOOLEAN
  BY DEF PipeTypeOK
<1>6. /\ raw' \in [Requests -> {"none", "torn", "good", "bad"}]
      /\ disturbed' \in BOOLEAN
      /\ Cause => Cause'
      /\ \A i \in DOMAIN f : f[i] \in {"error", "good", "bad"}
      /\ \A i \in DOMAIN f : f[i] = "error" => Cause'
  BY <1>1, <1>2, <1>3, <1>4, <1>5, AnsweredKeeps
<1> QED
  BY <1>2, <1>6

LEMMA ItemAnswers ==
    ASSUME PipeTypeOK, NEW d \in Dynamic, NEW f \in [Identifiers(d) -> {"error", "good"}],
           DynamicAnswered(d, f)
    PROVE  /\ raw' \in [Requests -> {"none", "torn", "good", "bad"}]
           /\ disturbed' \in BOOLEAN
           /\ Cause => Cause'
           /\ SoundResult(DynamicResult(f))
           /\ ~DynamicResult(f).success => Cause'
<1>1. d \in Groups /\ DOMAIN f \subseteq Kinds(d)
  BY GroupParts, KindsOf DEF Identifiers
<1>2. \A i \in DOMAIN f : f[i] \in Replies(<<d, i>>)
  BY DEF DynamicAnswered
<1>3. raw \in [Requests -> {"none", "torn", "good", "bad"}] /\ disturbed \in BOOLEAN
  BY DEF PipeTypeOK
<1>4. Answered(d, f)
  BY DEF DynamicAnswered
<1>5. /\ raw' \in [Requests -> {"none", "torn", "good", "bad"}]
      /\ disturbed' \in BOOLEAN
      /\ Cause => Cause'
      /\ \A i \in DOMAIN f : f[i] \in {"error", "good", "bad"}
      /\ \A i \in DOMAIN f : f[i] = "error" => Cause'
  BY <1>1, <1>2, <1>3, <1>4, AnsweredKeeps
<1> QED
  BY <1>5, DynamicSound

LEMMA PassTyped ==
    ASSUME PipeTypeOK, PassStep
    PROVE  PipeTypeOK'
<1> DEFINE Steps == {"idle", "queued", "candidate", "fallback", "items", "done", "gone"}
           Results == [Groups -> Result \cup {Missing}]
<1>0. /\ task \in [Groups -> Steps] /\ out \in Results /\ results \in Results
      /\ file \in [Groups -> Result \cup {Missing, Torn}]
      /\ raw \in [Requests -> {"none", "torn", "good", "bad"}]
      /\ pass \in {"off", "page", "pool", "dynamic", "combine", "returned", "raised"}
      /\ cancelled \in BOOLEAN /\ disturbed \in BOOLEAN
  BY DEF PipeTypeOK
<1>a. ASSUME NEW g \in Groups, SaveGroup(g, out[g])
      PROVE  /\ file' \in [Groups -> Result \cup {Missing, Torn}]
             /\ results' \in Results /\ out' \in Results
  BY <1>0, <1>a DEF SaveGroup
<1>1. CASE PageStart
  BY <1>0, <1>1 DEF PageStart, PipeTypeOK
<1>2. CASE PageSave
  BY <1>0, <1>2, <1>a, GroupParts DEF PageSave, PipeTypeOK
<1>3. CASE PoolStart
  BY <1>0, <1>3 DEF PoolStart, PipeTypeOK
<1>4. CASE PoolEnd
  BY <1>0, <1>4 DEF PoolEnd, PipeTypeOK
<1>5. CASE DynamicEnd
  BY <1>0, <1>5 DEF DynamicEnd, PipeTypeOK
<1>6. CASE Combine
  BY <1>0, <1>6 DEF Combine, PipeTypeOK
<1>7. ASSUME NEW g \in {Page} \cup Standard, Take(g) PROVE PipeTypeOK'
  BY <1>0, <1>7 DEF Take, PipeTypeOK
<1>8. ASSUME NEW g \in {Page} \cup Standard, Abort(g) PROVE PipeTypeOK'
  BY <1>0, <1>8 DEF Abort, PipeTypeOK
<1>9. ASSUME NEW g \in {Page} \cup Standard, Collect(g) PROVE PipeTypeOK'
  BY <1>0, <1>9, <1>a, GroupParts DEF Collect, PipeTypeOK
<1>10. ASSUME NEW g \in {Page} \cup Standard, NEW o \in Replies(<<g, "candidate">>),
              Candidate(g, o)
       PROVE  PipeTypeOK'
  <2>1. "candidate" \in Kinds(g)
    BY GroupParts, KindsOf
  <2>2. Answered(g, [k \in {"candidate"} |-> o])
    BY <1>10 DEF Candidate
  <2>3. /\ raw' \in [Requests -> {"none", "torn", "good", "bad"}] /\ disturbed' \in BOOLEAN
        /\ o \in {"error", "good", "bad"}
    BY <2>1, <2>2, CandidateAnswers
  <2>4. StandardResult(o) \in Result
    BY <2>3, StandardSound DEF SoundResult
  <2>5. task' \in [Groups -> Steps] /\ out' \in Results
    BY <1>0, <1>10, <2>4 DEF Candidate
  <2> QED
    BY <1>0, <1>10, <2>3, <2>5 DEF Candidate, PipeTypeOK
<1>11. ASSUME NEW g \in Fallback, NEW o \in Replies(<<g, "fallback">>), FallbackTried(g, o)
       PROVE  PipeTypeOK'
  <2>1. "fallback" \in Kinds(g) /\ g \in Standard
    BY GroupParts, KindsOf
  <2>2. Answered(g, [k \in {"fallback"} |-> o])
    BY <1>11 DEF FallbackTried
  <2>3. /\ raw' \in [Requests -> {"none", "torn", "good", "bad"}] /\ disturbed' \in BOOLEAN
        /\ o \in {"error", "good", "bad"}
    BY <2>1, <2>2, CandidateAnswers
  <2>4. StandardResult(o) \in Result
    BY <2>3, StandardSound DEF SoundResult
  <2>5. task' \in [Groups -> Steps] /\ out' \in Results
    BY <1>0, <1>11, <2>4 DEF FallbackTried
  <2> QED
    BY <1>0, <1>11, <2>3, <2>5 DEF FallbackTried, PipeTypeOK
<1>12. ASSUME NEW d \in Dynamic, DynamicStart(d) PROVE PipeTypeOK'
  BY <1>0, <1>12 DEF DynamicStart, PipeTypeOK
<1>13. ASSUME NEW d \in Dynamic, DynamicSave(d) PROVE PipeTypeOK'
  BY <1>0, <1>13, <1>a, GroupParts DEF DynamicSave, PipeTypeOK
<1>14. ASSUME NEW d \in Dynamic, NEW f \in [Identifiers(d) -> {"error", "good"}],
              DynamicAnswered(d, f)
       PROVE  PipeTypeOK'
  <2>1. /\ raw' \in [Requests -> {"none", "torn", "good", "bad"}] /\ disturbed' \in BOOLEAN
        /\ DynamicResult(f) \in Result
    BY <1>14, ItemAnswers DEF SoundResult
  <2>2. task' \in [Groups -> Steps] /\ out' \in Results
    BY <1>0, <1>14, <2>1 DEF DynamicAnswered
  <2> QED
    BY <1>0, <1>14, <2>1, <2>2 DEF DynamicAnswered, PipeTypeOK
<1> QED
  BY PassCases, <1>1, <1>2, <1>3, <1>4, <1>5, <1>6, <1>7, <1>8, <1>9, <1>10, <1>11, <1>12,
     <1>13, <1>14

-----------------------------------------------------------------------------
(* The shape of a pass. *)

\* Whatever failed in this pass did so for a cause.
FailuresCaused ==
    \A g \in Groups :
        /\ pass # "off" /\ results[g] # Missing /\ ~results[g].success => Cause
        /\ task[g] = "done" /\ ~out[g].success => Cause

LEMMA MissingFacts ==
    /\ Missing \notin Result /\ Torn \notin Result /\ Missing # Torn
    /\ ~Missing.success /\ ~Torn.success
    /\ \A res : SoundResult(res) => res # Missing /\ res # Torn /\ Readable(res)
BY DEF Missing, Torn, Result, Data, SoundResult, Readable

\* A new pass.
LEMMA StartGood ==
    ASSUME PipeTypeOK, FilesSound, ~cancelled, NEW resume \in BOOLEAN, StartPass(resume),
           UNCHANGED disturbed
    PROVE  /\ PipeTypeOK' /\ PassGood' /\ FailuresCaused'
           /\ pass' = "page" /\ file' = file /\ combined' = combined /\ raw' = raw
           /\ cancelled' = cancelled
           /\ resume => \A g \in Groups : file'[g].success => results'[g] # Missing
<1> DEFINE loaded == [g \in Groups |-> IF resume /\ file[g].success THEN file[g] ELSE Missing]
<1>1. /\ results' = loaded /\ pass' = "page" /\ task' = [g \in Groups |-> "idle"]
      /\ out' = [g \in Groups |-> Missing]
      /\ UNCHANGED <<raw, file, combined, cancelled>>
  BY DEF StartPass, NoGroups
<1>2. file \in [Groups -> Result \cup {Missing, Torn}]
  BY DEF PipeTypeOK
<1>3. \A g \in Groups : /\ loaded[g] = Missing \/ (loaded[g] = file[g] /\ file[g].success)
                        /\ loaded[g] \in Result \cup {Missing}
                        /\ resume /\ file[g].success => loaded[g] = file[g]
  BY <1>2, MissingFacts
<1>4. \A g \in Groups : file[g].success => SoundResult(file[g])
  BY <1>2, MissingFacts DEF FilesSound, Readable
<1>5. loaded \in [Groups -> Result \cup {Missing}]
  BY <1>3
<1>6. \A g \in Groups : results'[g] = loaded[g] /\ task'[g] = "idle"
  BY <1>1
<1>6a. \A g \in Groups : loaded[g] # Missing => loaded[g] = file[g] /\ file[g].success
  BY <1>3
<1>6b. resume => \A g \in Groups : file[g].success => loaded[g] = file[g]
  BY <1>3
<1> HIDE DEF loaded
<1>7. PipeTypeOK'
  <2>1. task' \in [Groups -> {"idle", "queued", "candidate", "fallback", "items", "done", "gone"}]
    BY <1>1
  <2>2. out' \in [Groups -> Result \cup {Missing}]
    BY <1>1
  <2>3. disturbed' \in BOOLEAN /\ cancelled' \in BOOLEAN
    BY <1>1 DEF PipeTypeOK
  <2> QED
    BY <1>1, <1>5, <2>1, <2>2, <2>3 DEF PipeTypeOK
<1>8. PassGood'
  <2>1. TasksInStage'
    BY <1>6 DEF TasksInStage
  <2>2. FilesSound'
    BY <1>1 DEF FilesSound
  <2>3. ResultsSaved'
    BY <1>1, <1>4, <1>6, <1>6a DEF ResultsSaved
  <2>4. StagesDone' /\ ~cancelled' /\ pass' # "raised"
    BY <1>1 DEF StagesDone
  <2> QED
    BY <2>1, <2>2, <2>3, <2>4 DEF PassGood
<1>9. FailuresCaused'
  BY <1>1, <1>6, <1>6a DEF FailuresCaused
<1>10. resume => \A g \in Groups : file'[g].success => results'[g] # Missing
  <2>1. \A g \in Groups : file[g].success => file[g] # Missing
    BY MissingFacts
  <2> QED
    BY <1>1, <1>6, <1>6b, <2>1
<1> QED
  BY <1>1, <1>7, <1>8, <1>9, <1>10

\* A step of a pass that nobody cancels: its shape is kept, only groups without
\* a result are saved, and a failure has its cause.
LEMMA PassKeepsGood ==
    ASSUME PipeTypeOK, PassGood, PassStep
    PROVE  /\ PassGood'
           /\ FailuresCaused => FailuresCaused'
           /\ Cause => Cause'
           /\ \A g \in Groups : file'[g] # file[g] => results[g] = Missing /\ results'[g] # Missing
           /\ \A g \in Groups : results[g] # Missing => results'[g] # Missing
           /\ pass \notin {"off", "returned"} /\ pass' # "off"
           /\ pass' # "returned" => combined' = combined
<1> DEFINE Kept == /\ PassGood'
                   /\ FailuresCaused => FailuresCaused'
                   /\ Cause => Cause'
                   /\ \A g \in Groups : file'[g] # file[g] => results[g] = Missing /\ results'[g] # Missing
                   /\ \A g \in Groups : results[g] # Missing => results'[g] # Missing
                   /\ pass \notin {"off", "returned"} /\ pass' # "off"
                   /\ pass' # "returned" => combined' = combined
<1>0. /\ task \in [Groups -> {"idle", "queued", "candidate", "fallback", "items", "done", "gone"}]
      /\ out \in [Groups -> Result \cup {Missing}]
      /\ results \in [Groups -> Result \cup {Missing}]
      /\ file \in [Groups -> Result \cup {Missing, Torn}]
  BY DEF PipeTypeOK
<1>g. /\ ~cancelled /\ pass # "raised"
      /\ TasksInStage /\ FilesSound /\ ResultsSaved /\ StagesDone
  BY DEF PassGood
\* A group is saved: its result was still missing.
<1>a. ASSUME NEW g \in Groups, task[g] = "done", SaveGroup(g, out[g]),
             task' = [task EXCEPT ![g] = "idle"],
             UNCHANGED <<raw, combined, pass, cancelled, disturbed>>
      PROVE  Kept
  <2>1. Due(g) /\ results[g] = Missing /\ SoundResult(out[g]) /\ out[g] # Missing
    BY <1>g, <1>a, MissingFacts DEF TasksInStage
  <2>2. /\ file' = [file EXCEPT ![g] = out[g]] /\ results' = [results EXCEPT ![g] = out[g]]
        /\ out' = [out EXCEPT ![g] = Missing]
    BY <1>a DEF SaveGroup
  <2>3. \A h \in Groups : IF h = g THEN file'[h] = out[g] /\ results'[h] = out[g] /\ task'[h] = "idle"
                          ELSE /\ file'[h] = file[h] /\ results'[h] = results[h]
                               /\ task'[h] = task[h] /\ out'[h] = out[h]
    BY <1>0, <1>a, <2>2
  <2>4. pass \in {"page", "pool", "dynamic"}
    BY <2>1 DEF Due
  <2>5. TasksInStage'
    BY <1>g, <1>a, <2>3 DEF TasksInStage, Due
  <2>6. FilesSound'
    BY <1>g, <2>1, <2>3 DEF FilesSound
  <2>7. ResultsSaved'
    BY <1>g, <1>a, <2>1, <2>3 DEF ResultsSaved
  <2>8. StagesDone'
    BY <1>g, <1>a, <2>1, <2>3, <2>4, GroupParts DEF StagesDone
  <2>9. Cause' <=> Cause
    BY <1>a DEF Cause
  <2>10. FailuresCaused => FailuresCaused'
    BY <1>a, <2>3, <2>9 DEF FailuresCaused
  <2> QED
    BY <1>g, <1>a, <2>1, <2>3, <2>4, <2>5, <2>6, <2>7, <2>8, <2>9, <2>10 DEF PassGood
\* A group in its stage goes on with its requests.
<1>b. ASSUME NEW g \in Groups, Due(g), results[g] = Missing, task[g] # "gone",
             NEW s \in {"candidate", "fallback", "items"},
             task' = [task EXCEPT ![g] = s],
             Cause => Cause',
             UNCHANGED <<file, combined, pass, results, out, cancelled>>
      PROVE  Kept
  <2>1. \A h \in Groups : task'[h] = IF h = g THEN s ELSE task[h]
    BY <1>0, <1>b
  <2>2. pass \in {"page", "pool", "dynamic"}
    BY <1>b DEF Due
  <2>3. TasksInStage'
    BY <1>g, <1>b, <2>1 DEF TasksInStage, Due
  <2>4. FilesSound' /\ ResultsSaved'
    BY <1>g, <1>b DEF FilesSound, ResultsSaved
  <2>5. StagesDone'
    BY <1>g, <1>b, <2>1, <2>2 DEF StagesDone
  <2>6. FailuresCaused => FailuresCaused'
    BY <1>b, <2>1 DEF FailuresCaused
  <2> QED
    BY <1>g, <1>b, <2>2, <2>3, <2>4, <2>5, <2>6 DEF PassGood
\* A group is done.
<1>c. ASSUME NEW g \in Groups, Due(g), results[g] = Missing,
             NEW res, SoundResult(res), ~res.success => Cause',
             task' = [task EXCEPT ![g] = "done"], out' = [out EXCEPT ![g] = res],
             Cause => Cause',
             UNCHANGED <<file, combined, pass, results, cancelled>>
      PROVE  Kept
  <2>1. \A h \in Groups : IF h = g THEN task'[h] = "done" /\ out'[h] = res
                          ELSE task'[h] = task[h] /\ out'[h] = out[h]
    BY <1>0, <1>c
  <2>2. pass \in {"page", "pool", "dynamic"}
    BY <1>c DEF Due
  <2>3. TasksInStage'
    BY <1>g, <1>c, <2>1 DEF TasksInStage, Due
  <2>4. FilesSound' /\ ResultsSaved'
    BY <1>g, <1>c DEF FilesSound, ResultsSaved
  <2>5. StagesDone'
    BY <1>g, <1>c, <2>1, <2>2 DEF StagesDone
  <2>6. FailuresCaused => FailuresCaused'
    BY <1>c, <2>1 DEF FailuresCaused
  <2> QED
    BY <1>g, <1>c, <2>2, <2>3, <2>4, <2>5, <2>6 DEF PassGood
<1>1. CASE PageStart
  <2>1. Page \in Groups /\ Due(Page)
    BY <1>1, GroupParts DEF PageStart, Due
  <2>2. Cause => Cause'
    BY <1>1 DEF PageStart, Cause
  <2> QED
    BY <1>1, <1>b, <2>1, <2>2 DEF PageStart
<1>2. CASE PageSave
  BY <1>2, <1>a, GroupParts DEF PageSave
<1>3. CASE PoolStart
  <2>1. \A g \in Groups : task'[g] = IF g \in Standard /\ results[g] = Missing THEN "queued" ELSE "idle"
    BY <1>3 DEF PoolStart
  <2>2. pass = "page" /\ pass' = "pool" /\ results[Page] # Missing
        /\ UNCHANGED <<raw, file, combined, results, out, cancelled, disturbed>>
    BY <1>3 DEF PoolStart
  <2>3. TasksInStage'
    BY <2>1, <2>2 DEF TasksInStage, Due
  <2>4. FilesSound' /\ ResultsSaved'
    BY <1>g, <2>2 DEF FilesSound, ResultsSaved
  <2>5. StagesDone'
    BY <2>1, <2>2, GroupParts DEF StagesDone
  <2>6. FailuresCaused => FailuresCaused'
    BY <2>1, <2>2 DEF FailuresCaused, Cause
  <2>7. Cause => Cause'
    BY <2>2 DEF Cause
  <2> QED
    BY <1>g, <2>2, <2>3, <2>4, <2>5, <2>6, <2>7 DEF PassGood
<1>4. CASE PoolEnd
  <2>1. pass = "pool" /\ pass' = "dynamic" /\ (\A g \in Standard : task[g] = "idle")
        /\ UNCHANGED <<raw, file, combined, results, task, out, cancelled, disturbed>>
    BY <1>g, <1>4 DEF PoolEnd
  <2>2. \A g \in Groups : task[g] = "idle"
    BY <1>g, <2>1 DEF TasksInStage, Due
  <2>3. TasksInStage'
    BY <2>1, <2>2 DEF TasksInStage
  <2>4. FilesSound' /\ ResultsSaved'
    BY <1>g, <2>1 DEF FilesSound, ResultsSaved
  <2>5. StagesDone'
    BY <1>g, <2>1 DEF StagesDone
  <2>6. (FailuresCaused => FailuresCaused') /\ (Cause => Cause')
    BY <2>1 DEF FailuresCaused, Cause
  <2> QED
    BY <1>g, <2>1, <2>3, <2>4, <2>5, <2>6 DEF PassGood
<1>5. CASE DynamicEnd
  <2>1. /\ pass = "dynamic" /\ pass' = "combine"
        /\ \A d \in Dynamic : task[d] = "idle" /\ results[d] # Missing
        /\ UNCHANGED <<raw, file, combined, results, task, out, cancelled, disturbed>>
    BY <1>g, <1>5 DEF DynamicEnd
  <2>2. \A g \in Groups : task[g] = "idle"
    BY <1>g, <2>1 DEF TasksInStage, Due
  <2>3. TasksInStage'
    BY <2>1, <2>2 DEF TasksInStage
  <2>4. FilesSound' /\ ResultsSaved'
    BY <1>g, <2>1 DEF FilesSound, ResultsSaved
  <2>5. StagesDone'
    BY <1>g, <2>1 DEF StagesDone
  <2>6. (FailuresCaused => FailuresCaused') /\ (Cause => Cause')
    BY <2>1 DEF FailuresCaused, Cause
  <2> QED
    BY <1>g, <2>1, <2>3, <2>4, <2>5, <2>6 DEF PassGood
<1>6. CASE Combine
  <2>1. /\ pass = "combine" /\ pass' = "returned"
        /\ combined' = [state |-> "whole", groups |-> results]
        /\ UNCHANGED <<raw, file, results, task, out, cancelled, disturbed>>
    BY <1>6 DEF Combine
  <2>2. \A g \in Groups : task[g] = "idle"
    BY <1>g, <2>1 DEF TasksInStage, Due
  <2>3. TasksInStage'
    BY <2>1, <2>2 DEF TasksInStage
  <2>4. FilesSound' /\ ResultsSaved'
    BY <1>g, <2>1 DEF FilesSound, ResultsSaved
  <2>5. StagesDone'
    BY <1>g, <2>1 DEF StagesDone
  <2>6. (FailuresCaused => FailuresCaused') /\ (Cause => Cause')
    BY <2>1 DEF FailuresCaused, Cause
  <2> QED
    BY <1>g, <2>1, <2>3, <2>4, <2>5, <2>6 DEF PassGood
<1>7. ASSUME NEW g \in {Page} \cup Standard, Take(g) PROVE Kept
  <2>1. g \in Groups /\ Due(g) /\ results[g] = Missing
    BY <1>g, <1>7, GroupParts DEF Take, TasksInStage
  <2>2. Cause => Cause'
    BY <1>7 DEF Take, Cause
  <2> QED
    BY <1>7, <1>b, <2>1, <2>2 DEF Take
<1>8. ASSUME NEW g \in {Page} \cup Standard, Abort(g) PROVE Kept
  BY <1>g, <1>8 DEF Abort
<1>9. ASSUME NEW g \in {Page} \cup Standard, Collect(g) PROVE Kept
  BY <1>9, <1>a, GroupParts DEF Collect
<1>10. ASSUME NEW g \in {Page} \cup Standard, NEW o \in Replies(<<g, "candidate">>),
              Candidate(g, o)
       PROVE  Kept
  <2>1. "candidate" \in Kinds(g) /\ g \in Groups
    BY GroupParts, KindsOf
  <2>2. Answered(g, [k \in {"candidate"} |-> o]) /\ task[g] = "candidate"
        /\ UNCHANGED <<file, combined, pass, results, cancelled>>
    BY <1>10 DEF Candidate
  <2>3. /\ (Cause => Cause') /\ o \in {"error", "good", "bad"}
        /\ o = "error" => Cause'
    BY <2>1, <2>2, CandidateAnswers
  <2>4. Due(g) /\ results[g] = Missing
    BY <1>g, <2>1, <2>2 DEF TasksInStage
  <2>4a. SoundResult(StandardResult(o)) /\ (~StandardResult(o).success => Cause')
    BY <2>3, StandardSound
  <2>5. CASE task' = [task EXCEPT ![g] = "fallback"] /\ UNCHANGED out
    BY <1>b, <2>1, <2>2, <2>3, <2>4, <2>5
  <2>6. CASE task' = [task EXCEPT ![g] = "done"] /\ out' = [out EXCEPT ![g] = StandardResult(o)]
    BY <1>c, <2>1, <2>2, <2>3, <2>4, <2>4a, <2>6
  <2> QED
    BY <1>10, <2>5, <2>6 DEF Candidate
<1>11. ASSUME NEW g \in Fallback, NEW o \in Replies(<<g, "fallback">>), FallbackTried(g, o)
       PROVE  Kept
  <2>1. "fallback" \in Kinds(g) /\ g \in Groups /\ g \in Standard
    BY GroupParts, KindsOf
  <2>2. /\ Answered(g, [k \in {"fallback"} |-> o]) /\ task[g] = "fallback"
        /\ UNCHANGED <<file, combined, pass, results, cancelled>>
        /\ task' = [task EXCEPT ![g] = "done"] /\ out' = [out EXCEPT ![g] = StandardResult(o)]
    BY <1>11 DEF FallbackTried
  <2>2a. g \in {Page} \cup Standard
    BY <2>1
  <2>3. /\ (Cause => Cause') /\ o \in {"error", "good", "bad"}
        /\ o = "error" => Cause'
    BY <2>1, <2>2, <2>2a, CandidateAnswers
  <2>4. Due(g) /\ results[g] = Missing
    BY <1>g, <2>1, <2>2 DEF TasksInStage
  <2>5. SoundResult(StandardResult(o)) /\ (~StandardResult(o).success => Cause')
    BY <2>3, StandardSound
  <2> QED
    BY <1>c, <2>1, <2>2, <2>3, <2>4, <2>5
<1>12. ASSUME NEW d \in Dynamic, DynamicStart(d) PROVE Kept
  <2>1. d \in Groups /\ Due(d) /\ results[d] = Missing /\ task[d] = "idle"
    BY <1>12, GroupParts DEF DynamicStart, Due
  <2>2. Cause => Cause'
    BY <1>12 DEF DynamicStart, Cause
  <2> QED
    BY <1>12, <1>b, <2>1, <2>2 DEF DynamicStart
<1>13. ASSUME NEW d \in Dynamic, DynamicSave(d) PROVE Kept
  BY <1>13, <1>a, GroupParts DEF DynamicSave
<1>14. ASSUME NEW d \in Dynamic, NEW f \in [Identifiers(d) -> {"error", "good"}],
              DynamicAnswered(d, f)
       PROVE  Kept
  <2>1. d \in Groups
    BY GroupParts
  <2>2. /\ task[d] = "items"
        /\ UNCHANGED <<file, combined, pass, results, cancelled>>
        /\ task' = [task EXCEPT ![d] = "done"] /\ out' = [out EXCEPT ![d] = DynamicResult(f)]
    BY <1>14 DEF DynamicAnswered
  <2>3. /\ (Cause => Cause') /\ SoundResult(DynamicResult(f))
        /\ ~DynamicResult(f).success => Cause'
    BY <1>14, ItemAnswers
  <2>4. Due(d) /\ results[d] = Missing
    BY <1>g, <2>1, <2>2 DEF TasksInStage
  <2> QED
    BY <1>c, <2>1, <2>2, <2>3, <2>4
<1> QED
  BY PassCases, <1>1, <1>2, <1>3, <1>4, <1>5, <1>6, <1>7, <1>8, <1>9, <1>10, <1>11, <1>12,
     <1>13, <1>14

\* A kill of the process in the middle of a pass.
LEMMA KillKeeps ==
    ASSUME PipeTypeOK, KillPass
    PROVE  /\ PipeTypeOK'
           /\ FilesSound => FilesSound'
           /\ disturbed' /\ cancelled' = cancelled
           /\ \A g \in Groups : file'[g] # file[g] => task[g] = "done"
<1>0. /\ raw \in [Requests -> {"none", "torn", "good", "bad"}]
      /\ file \in [Groups -> Result \cup {Missing, Torn}]
      /\ combined \in [state : {"absent", "torn", "whole"}, groups : [Groups -> Result \cup {Missing}]]
      /\ cancelled \in BOOLEAN
  BY DEF PipeTypeOK
<1>1. raw' \in [Requests -> {"none", "torn", "good", "bad"}]
  BY <1>0 DEF KillPass
<1>2. /\ file' \in [Groups -> Result \cup {Missing, Torn}]
      /\ \A g \in Groups : file'[g] # file[g] => task[g] = "done" /\ file'[g] = Torn
  <2>1. CASE UNCHANGED file
    BY <1>0, <2>1
  <2>2. ASSUME NEW g \in Saving, file' = [file EXCEPT ![g] = Torn]
        PROVE  /\ file' \in [Groups -> Result \cup {Missing, Torn}]
               /\ \A h \in Groups : file'[h] # file[h] => task[h] = "done" /\ file'[h] = Torn
    BY <1>0, <2>2 DEF Saving
  <2> QED
    BY <2>1, <2>2 DEF KillPass
<1>3. combined' \in [state : {"absent", "torn", "whole"}, groups : [Groups -> Result \cup {Missing}]]
  BY <1>0 DEF KillPass, TornCombined, NoGroups
<1>4. /\ pass' = "off" /\ results' = [g \in Groups |-> Missing] /\ task' = [g \in Groups |-> "idle"]
      /\ out' = [g \in Groups |-> Missing] /\ disturbed' = TRUE /\ cancelled' = cancelled
  BY DEF KillPass, NoGroups
<1>5. PipeTypeOK'
  BY <1>0, <1>1, <1>2, <1>3, <1>4 DEF PipeTypeOK
<1>6. FilesSound => FilesSound'
  BY <1>2 DEF FilesSound, Readable
<1> QED
  BY <1>2, <1>4, <1>5, <1>6

-----------------------------------------------------------------------------
(* The fetch command under its wrapper (FetchRun). *)

\* This pass was told to ignore the group files.
Forced == force /\ attempt = 1 /\ passes = 1

\* What was combined is what the group files hold.
CombinedSaved ==
    /\ combined.state = "whole"
    /\ \A g \in Groups : /\ SoundResult(combined.groups[g]) /\ combined.groups[g] = file[g]
                         /\ ~combined.groups[g].success => Cause

FetchGood ==
    /\ FetchTypeOK
    /\ ~cancelled
    /\ FilesSound
    /\ pc = "fetch" =>
          /\ PassGood /\ FailuresCaused /\ pass # "off"
          /\ Forced \/ \A g \in Groups : file[g].success => results[g] # Missing
    /\ pc \in {"export", "validate"} => CombinedSaved
    /\ pc = "validate" => exports = "whole"
    /\ pc = "classify" => Cause

LEMMA FetchGoodInit ==
    ASSUME FetchInit PROVE FetchGood
<1>1. PipeTypeOK
  BY DEF FetchInit, PipeInit, PipeTypeOK, NoCombined, NoGroups
<1>1a. 0 \in 0..MaxAttempts /\ 0 \in 0..MaxRuns /\ 0 \in 0..MaxKills
  BY RunAssumption
<1>1b. pc = "off" /\ passes = 0 /\ force = FALSE /\ attempt = 0 /\ exports = "absent"
       /\ report = "none" /\ runs = 0 /\ kills = 0
  BY DEF FetchInit
<1>1c. passes \in 0..MaxPasses
  BY <1>1b DEF MaxPasses
<1>2. FetchTypeOK
  BY <1>1, <1>1a, <1>1b, <1>1c DEF FetchTypeOK
<1>3. FilesSound
  BY MissingFacts DEF FetchInit, PipeInit, NoGroups, FilesSound, Readable
<1> QED
  BY <1>2, <1>3 DEF FetchInit, PipeInit, FetchGood

LEMMA FetchGoodNext ==
    ASSUME FetchGood, [FetchNext]_fetchVars PROVE FetchGood'
<1>0. /\ FetchTypeOK /\ PipeTypeOK /\ ~cancelled /\ FilesSound
      /\ passes \in 0..3 /\ force \in BOOLEAN /\ attempt \in 0..MaxAttempts
      /\ runs \in 0..MaxRuns /\ kills \in 0..MaxKills
      /\ exports \in {"absent", "torn", "whole"} /\ report \in {"none", "RETRYING", "PASS", "FAILED"}
  BY DEF FetchGood, FetchTypeOK, MaxPasses
<1>a. MaxAttempts \in Nat /\ MaxAttempts >= 1 /\ MaxRuns \in Nat /\ MaxKills \in Nat
  BY RunAssumption
<1>1. ASSUME NEW forced \in BOOLEAN, Invoke(forced) PROVE FetchGood'
  <2>1. /\ pc' = "spawn" /\ force' = forced /\ attempt' = 1 /\ runs' \in 0..MaxRuns
        /\ disturbed' = FALSE
        /\ UNCHANGED <<raw, file, combined, pass, results, task, out, cancelled,
                       passes, exports, report, kills>>
    BY <1>0, <1>1, <1>a DEF Invoke
  <2>2. PipeTypeOK'
    BY <1>0, <2>1 DEF PipeTypeOK
  <2>3. FetchTypeOK'
    BY <1>0, <1>a, <2>1, <2>2 DEF FetchTypeOK, MaxPasses
  <2>4. FilesSound'
    BY <1>0, <2>1 DEF FilesSound
  <2> QED
    BY <1>0, <2>1, <2>3, <2>4 DEF FetchGood
<1>2. CASE Spawn
  <2>1. /\ StartPass(~(force /\ attempt = 1)) /\ pc' = "fetch" /\ passes' = 1
        /\ UNCHANGED <<disturbed, force, attempt, exports, report, runs, kills>>
    BY <1>2 DEF Spawn
  <2>2. /\ PipeTypeOK' /\ PassGood' /\ FailuresCaused' /\ pass' = "page"
        /\ cancelled' = cancelled
        /\ ~(force /\ attempt = 1) => \A g \in Groups : file'[g].success => results'[g] # Missing
    BY <1>0, <2>1, StartGood
  <2>3. FetchTypeOK'
    BY <1>0, <2>1, <2>2 DEF FetchTypeOK, MaxPasses
  <2>4. Forced' \/ \A g \in Groups : file'[g].success => results'[g] # Missing
    BY <2>1, <2>2 DEF Forced
  <2> QED
    BY <1>0, <2>1, <2>2, <2>3, <2>4 DEF FetchGood, PassGood
<1>3. CASE Fetching
  <2>1. pc = "fetch" /\ PassStep /\ UNCHANGED hostVars /\ PassGood /\ FailuresCaused
    BY <1>3 DEF Fetching, FetchGood
  <2>2. PipeTypeOK'
    BY <1>0, <2>1, PassTyped
  <2>3. /\ PassGood' /\ FailuresCaused' /\ pass' # "off"
        /\ \A g \in Groups : file'[g] # file[g] => results[g] = Missing /\ results'[g] # Missing
        /\ \A g \in Groups : results[g] # Missing => results'[g] # Missing
    BY <1>0, <2>1, PassKeepsGood
  <2>4. FetchTypeOK'
    BY <1>0, <2>1, <2>2 DEF FetchTypeOK, hostVars
  <2>5. Forced' <=> Forced
    BY <2>1 DEF Forced, hostVars
  <2>6. Forced' \/ \A g \in Groups : file'[g].success => results'[g] # Missing
    <3>1. CASE Forced
      BY <2>5, <3>1
    <3>2. CASE \A g \in Groups : file[g].success => results[g] # Missing
      <4> SUFFICES ASSUME NEW g \in Groups, file'[g].success PROVE results'[g] # Missing
        OBVIOUS
      <4>1. CASE file'[g] = file[g]
        BY <2>3, <3>2, <4>1
      <4>2. CASE file'[g] # file[g]
        BY <2>3, <4>2
      <4> QED
        BY <4>1, <4>2
    <3> QED
      BY <2>1, <3>1, <3>2 DEF FetchGood
  <2> QED
    BY <1>0, <2>1, <2>3, <2>4, <2>6 DEF FetchGood, PassGood, hostVars

<1>4. CASE PassAgain
  <2>1. /\ StartPass(TRUE) /\ pc = "fetch" /\ passes < 3 /\ passes' = passes + 1
        /\ UNCHANGED <<disturbed, pc, force, attempt, exports, report, runs, kills>>
    BY <1>4 DEF PassAgain, MaxPasses
  <2>2. /\ PipeTypeOK' /\ PassGood' /\ FailuresCaused' /\ pass' = "page"
        /\ cancelled' = cancelled
        /\ \A g \in Groups : file'[g].success => results'[g] # Missing
    BY <1>0, <2>1, StartGood
  <2>3. FetchTypeOK'
    BY <1>0, <2>1, <2>2 DEF FetchTypeOK, MaxPasses
  <2> QED
    BY <1>0, <2>1, <2>2, <2>3 DEF FetchGood, PassGood
<1>5. CASE PassLast
  <2>1. /\ pc = "fetch" /\ pass = "returned" /\ pass' = "off" /\ pc' = "export"
        /\ UNCHANGED <<raw, file, combined, results, task, out, cancelled, disturbed,
                       passes, force, attempt, exports, report, runs, kills>>
        /\ PassGood /\ FailuresCaused
    BY <1>5 DEF PassLast, FetchGood
  <2>2. combined = [state |-> "whole", groups |-> results]
    BY <2>1 DEF PassGood, StagesDone
  <2>3. \A g \in Groups : results[g] # Missing /\ results[g] = file[g] /\ SoundResult(results[g])
    BY <2>1, GroupParts DEF PassGood, StagesDone, ResultsSaved
  <2>4. \A g \in Groups : ~results[g].success => Cause
    BY <2>1, <2>3 DEF FailuresCaused
  <2>5. CombinedSaved'
    BY <2>1, <2>2, <2>3, <2>4 DEF CombinedSaved, Cause
  <2>6. PipeTypeOK'
    BY <1>0, <2>1 DEF PipeTypeOK
  <2>7. FetchTypeOK'
    BY <1>0, <2>1, <2>6 DEF FetchTypeOK, MaxPasses
  <2>8. FilesSound'
    BY <1>0, <2>1 DEF FilesSound
  <2> QED
    BY <1>0, <2>1, <2>5, <2>7, <2>8 DEF FetchGood
<1>6. CASE Export
  <2>1. /\ pc = "export" /\ pc' = "validate" /\ exports' = "whole"
        /\ results' = [g \in Groups |-> Missing] /\ out' = [g \in Groups |-> Missing]
        /\ UNCHANGED <<raw, file, combined, pass, task, cancelled, disturbed,
                       passes, force, attempt, report, runs, kills>>
        /\ CombinedSaved
    BY <1>6 DEF Export, NoGroups, FetchGood
  <2>2. PipeTypeOK'
    BY <1>0, <2>1 DEF PipeTypeOK
  <2>3. FetchTypeOK'
    BY <1>0, <2>1, <2>2 DEF FetchTypeOK, MaxPasses
  <2>4. CombinedSaved' /\ FilesSound'
    BY <1>0, <2>1 DEF CombinedSaved, Cause, FilesSound
  <2> QED
    BY <1>0, <2>1, <2>3, <2>4 DEF FetchGood
\* The directory is as it was, and the wrapper goes on.
<1>w. ASSUME UNCHANGED pipeVars, FetchTypeOK', pc' \in {"off", "spawn", "classify"},
             pc' = "classify" => Cause
      PROVE  FetchGood'
  BY <1>0, <1>w DEF FetchGood, pipeVars, FilesSound, Cause
<1>e. Ended => pc' = "off" /\ passes' \in 0..3 /\ force' \in BOOLEAN /\ attempt' \in 0..MaxAttempts
  <2>1. 0 \in 0..3 /\ 0 \in 0..MaxAttempts /\ FALSE \in BOOLEAN
    BY <1>a
  <2> QED
    BY <2>1 DEF Ended
<1>t. ASSUME UNCHANGED pipeVars PROVE PipeTypeOK'
  BY <1>0, <1>t DEF PipeTypeOK, pipeVars
<1>7. CASE Validated
  <2>1. FetchTypeOK'
    BY <1>0, <1>7, <1>e, <1>t DEF Validated, FetchTypeOK, MaxPasses
  <2> QED
    BY <1>7, <1>w, <2>1 DEF Validated, Ended
<1>8. CASE Rejected
  <2>1. FetchTypeOK'
    BY <1>0, <1>8, <1>a, <1>t DEF Rejected, FetchTypeOK, MaxPasses
  <2>2. CombinedSaved /\ exports = "whole"
    BY <1>8 DEF Rejected, FetchGood
  <2>3. PICK g \in Groups : ~combined.groups[g].success
    BY <1>8, <2>2 DEF Rejected, Valid, FailedIn, CombinedSaved
  <2>4. Cause
    BY <2>2, <2>3 DEF CombinedSaved
  <2> QED
    BY <1>8, <1>w, <2>1, <2>4 DEF Rejected
<1>9. CASE Again
  <2>1. FetchTypeOK'
    BY <1>0, <1>9, <1>a, <1>t DEF Again, FetchTypeOK, MaxPasses
  <2> QED
    BY <1>9, <1>w, <2>1 DEF Again
<1>10. CASE GiveUp
  <2>1. FetchTypeOK'
    BY <1>0, <1>10, <1>e, <1>t DEF GiveUp, FetchTypeOK, MaxPasses
  <2> QED
    BY <1>10, <1>w, <2>1 DEF GiveUp, Ended
<1>11. CASE Kill
  <2>1. /\ PipeTypeOK' /\ FilesSound' /\ disturbed' /\ cancelled' = cancelled
        /\ exports' \in {"absent", "torn", "whole"}
    <3>1. CASE pc = "fetch" /\ KillPass /\ UNCHANGED exports
      BY <1>0, <3>1, KillKeeps
    <3>2. CASE /\ pc = "export"
               /\ exports' \in {exports, "torn"}
               /\ results' = NoGroups
               /\ out' = NoGroups
               /\ disturbed' = TRUE
               /\ UNCHANGED <<raw, file, combined, pass, task, cancelled>>
      BY <1>0, <3>2 DEF PipeTypeOK, NoGroups, FilesSound
    <3> QED
      BY <1>11, <3>1, <3>2 DEF Kill
  <2>2. /\ kills < MaxKills /\ kills' = kills + 1 /\ UNCHANGED <<report, runs>>
        /\ \/ pc' = "classify" /\ UNCHANGED <<passes, force, attempt>>
           \/ Ended
    BY <1>11 DEF Kill
  <2>3. pc' \in {"off", "classify"} /\ passes' \in 0..3 /\ force' \in BOOLEAN
        /\ attempt' \in 0..MaxAttempts
    BY <1>0, <1>e, <2>2
  <2>4. FetchTypeOK'
    BY <1>0, <1>a, <2>1, <2>2, <2>3 DEF FetchTypeOK, MaxPasses
  <2> QED
    BY <1>0, <2>1, <2>3, <2>4 DEF FetchGood, Cause
<1>12. CASE UNCHANGED fetchVars
  BY <1>12 DEF FetchGood, fetchVars, pipeVars, hostVars, FetchTypeOK, PipeTypeOK, FilesSound,
     PassGood, TasksInStage, Due, ResultsSaved, StagesDone, FailuresCaused, Cause, Forced,
     CombinedSaved
<1> QED
  BY <1>1, <1>2, <1>3, <1>4, <1>5, <1>6, <1>7, <1>8, <1>9, <1>10, <1>11, <1>12
     DEF FetchNext, Work, LeftAlone

LEMMA FetchGoodHolds == FetchSpec => []FetchGood
<1>1. FetchInit => FetchGood
  BY FetchGoodInit
<1>2. FetchGood /\ [FetchNext]_fetchVars => FetchGood'
  BY FetchGoodNext
<1> QED
  BY <1>1, <1>2, PTL DEF FetchSpec

\* The directory, the pass and the wrapper keep their types.
THEOREM FetchTypes == FetchSpec => []FetchTypeOK
<1>1. FetchGood => FetchTypeOK
  BY DEF FetchGood
<1> QED
  BY <1>1, FetchGoodHolds, PTL

\* The wrapper says PASS only of a directory whose combined.json holds a
\* success for every group, the one of its group file, however many passes,
\* attempts, kills and invocations made it.
THEOREM CompleteHolds == FetchSpec => PassMeansComplete
<1> DEFINE A == pc = "validate" /\ pc' = "off" =>
                  \A g \in Groups : combined.groups[g].success /\ combined.groups[g] = file[g]
<1>1. FetchGood /\ [FetchNext]_fetchVars => [A]_fetchVars
  <2> SUFFICES ASSUME FetchGood, FetchNext, pc = "validate", pc' = "off"
               PROVE  \A g \in Groups : combined.groups[g].success /\ combined.groups[g] = file[g]
    OBVIOUS
  <2>1. Valid
    BY DEF FetchNext, Work, Spawn, Fetching, PassAgain, PassLast, Export, Validated, Rejected,
           Again, GiveUp, Kill, LeftAlone, Invoke
  <2>2. CombinedSaved
    BY DEF FetchGood
  <2> QED
    BY <2>1, <2>2, MissingFacts DEF Valid, FailedIn, CombinedSaved
<1> QED
  BY <1>1, FetchGoodHolds, PTL DEF FetchSpec, PassMeansComplete

\* Nothing but the forced first pass of an invocation writes over a success.
THEOREM SuccessKept == FetchSpec => SavedSuccessKept
<1> DEFINE A == \A g \in Groups : file[g].success /\ file'[g] # file[g] =>
                  force /\ attempt = 1 /\ passes = 1
<1>1. FetchGood /\ [FetchNext]_fetchVars => [A]_fetchVars
  <2> SUFFICES ASSUME FetchGood, FetchNext, NEW g \in Groups,
                      file[g].success, file'[g] # file[g]
               PROVE  Forced
    BY DEF Forced
  <2>1. pc = "fetch" /\ (PassStep \/ KillPass)
    BY DEF FetchNext, Work, Spawn, StartPass, Fetching, PassAgain, PassLast, Export, Validated,
           Rejected, Again, GiveUp, Kill, LeftAlone, Invoke, fetchVars, pipeVars
  <2>2. PipeTypeOK /\ PassGood
    BY <2>1 DEF FetchGood, FetchTypeOK
  <2>3. Forced \/ results[g] # Missing
    BY <2>1 DEF FetchGood
  <2>4. CASE PassStep
    BY <2>2, <2>3, <2>4, PassKeepsGood
  <2>5. CASE KillPass
    <3>1. task[g] = "done"
      BY <2>2, <2>5, KillKeeps
    <3> QED
      BY <2>2, <2>3, <3>1 DEF PassGood, TasksInStage
  <2> QED
    BY <2>1, <2>4, <2>5
<1> QED
  BY <1>1, FetchGoodHolds, PTL DEF FetchSpec, SavedSuccessKept

\* An invocation that fails has met a failed request, a kill or a torn file.
THEOREM CauseHolds == FetchSpec => FailureHasCause
<1> DEFINE A == pc = "classify" /\ pc' = "off" =>
                  disturbed \/ \E r \in Requests : raw[r] = "torn"
<1>1. FetchGood /\ [FetchNext]_fetchVars => [A]_fetchVars
  BY DEF FetchGood, Cause
<1> QED
  BY <1>1, FetchGoodHolds, PTL DEF FetchSpec, FailureHasCause

-----------------------------------------------------------------------------
(* The data of a job (JobData). *)

\* _group_quality tells successes from failures, and what cannot be read.
LEMMA QualityOf ==
    /\ \A f : SoundResult(f) => Quality(f) \in 1..5 /\ (f.success <=> Quality(f) >= 2)
    /\ Quality(Missing) = 0
<1>1. ASSUME NEW f, SoundResult(f) PROVE Quality(f) \in 1..5 /\ (f.success <=> Quality(f) >= 2)
  <2>1. Readable(f)
    BY <1>1, MissingFacts
  <2>2. f.data \in {"none", "bad", "part", "good", "empty"}
    BY <1>1 DEF SoundResult, Result, Data
  <2>3. f.success <=> f.data # "none"
    BY <1>1 DEF SoundResult
  <2> QED
    BY <2>1, <2>2, <2>3 DEF Quality
<1>2. Quality(Missing) = 0
  BY DEF Quality, Readable
<1> QED
  BY <1>1, <1>2

\* The best saved result of a group whose older copies succeeded only if its
\* group file does.
LEMMA BestSound ==
    ASSUME NEW g \in Groups, SoundResult(file[g]),
           \A f \in {combined.groups[g], exported.groups[g]} :
               f = Missing \/ (SoundResult(f) /\ (f.success => file[g].success))
    PROVE  Readable(Best(g)) /\ (Best(g).success <=> file[g].success)
<1>1. \A f \in Saved(g) : /\ Quality(f) \in 0..5
                          /\ f = Missing \/ (SoundResult(f) /\ (f.success => file[g].success))
  BY QualityOf DEF Saved
<1>2. \E f \in Saved(g) : \A h \in Saved(g) : Quality(f) >= Quality(h)
  <2>1. /\ Quality(file[g]) \in 0..5 /\ Quality(combined.groups[g]) \in 0..5
        /\ Quality(exported.groups[g]) \in 0..5
    BY <1>1 DEF Saved
  <2> QED
    BY <2>1 DEF Saved
<1>3. Best(g) \in Saved(g) /\ \A h \in Saved(g) : Quality(Best(g)) >= Quality(h)
  BY <1>2 DEF Best
<1>4. Quality(Best(g)) >= Quality(file[g]) /\ Quality(file[g]) >= 1
  BY <1>3, QualityOf DEF Saved
<1>5. Best(g) # Missing
  BY <1>1, <1>3, <1>4, QualityOf
<1>6. SoundResult(Best(g)) /\ (Best(g).success => file[g].success)
  BY <1>1, <1>3, <1>5
<1>7. file[g].success => Best(g).success
  BY <1>4, <1>6, QualityOf
<1> QED
  BY <1>6, <1>7, MissingFacts

\* A group of which nothing was saved has no best result.
LEMMA BestMissing ==
    ASSUME NEW g \in Groups,
           file[g] = Missing, combined.groups[g] = Missing, exported.groups[g] = Missing
    PROVE  ~Readable(Best(g))
<1>1. Saved(g) = {Missing}
  BY DEF Saved
<1>2. Quality(Missing) >= Quality(Missing)
  BY QualityOf
<1>3. Best(g) \in {Missing}
  BY <1>1, <1>2 DEF Best
<1> QED
  BY <1>3 DEF Readable

\* What a retried group leaves in its file and in the raw cache.
LEMMA RetriedSound ==
    ASSUME NEW g \in Groups, NEW f \in Retried(g)
    PROVE  SoundResult(RetriedResult(g, f))
<1>1. CASE g \in Dynamic
  <2>1. \A i \in DOMAIN f : f[i] \in {"error", "good", "bad"}
    BY <1>1 DEF Retried
  <2> QED
    BY <1>1, <2>1, DynamicSound DEF RetriedResult
<1>2. CASE g \notin Dynamic
  <2>1. /\ f \in [Kinds(g) -> {"error", "good", "bad", "none"}]
        /\ f["candidate"] # "none"
    BY <1>2 DEF Retried, Accepted, QuoteAnswers
  <2>2. f["candidate"] \in {"error", "good", "bad"}
    BY <1>2, <2>1, KindsOf
  <2>3. "fallback" \in Kinds(g) /\ f["fallback"] # "none" => f["fallback"] \in {"error", "good", "bad"}
    BY <2>1
  <2> QED
    BY <1>2, <2>2, <2>3, StandardSound DEF RetriedResult
<1> QED
  BY <1>1, <1>2

LEMMA GroupsFinite == IsFiniteSet(Groups) /\ Cardinality(Groups) \in Nat
<1>1. IsFiniteSet({Page})
  BY FS_Singleton
<1>2. IsFiniteSet({Page} \cup (Standard \cup Dynamic))
  BY <1>1, FetchAssumption, FS_Union
<1>3. Groups = {Page} \cup (Standard \cup Dynamic)
  BY DEF Groups
<1> QED
  BY <1>2, <1>3, FS_CardinalityType

LEMMA CompletedTyped == ASSUME NEW rs PROVE Completed(rs) \in 0..Cardinality(Groups)
<1> DEFINE S == {g \in Groups : rs[g] \in {"SUCCESS", "FAILED"}}
<1>1. S \subseteq Groups
  OBVIOUS
<1>2. IsFiniteSet(S) /\ Cardinality(S) <= Cardinality(Groups)
  BY <1>1, GroupsFinite, FS_Subset
<1>3. Cardinality(S) \in Nat
  BY <1>2, FS_CardinalityType
<1> QED
  BY <1>2, <1>3, GroupsFinite DEF Completed

\* A retry has no more groups at work than the pool has threads.
LEMMA BusyTyped ==
    ASSUME busy \subseteq Groups, Cardinality(busy) <= Workers, NEW g \in Groups
    PROVE  /\ busy \ {g} \subseteq Groups /\ Cardinality(busy \ {g}) <= Workers
           /\ busy = {} \/ Cardinality(busy) < Workers => Cardinality(busy \cup {g}) <= Workers
           /\ Cardinality({}) <= Workers
<1>1. IsFiniteSet(busy) /\ Cardinality(busy) \in Nat
  BY GroupsFinite, FS_Subset, FS_CardinalityType
<1>2. Workers \in Nat /\ Workers >= 1
  BY FetchAssumption
<1>3. Cardinality({}) = 0
  BY FS_EmptySet
<1>4. Cardinality(busy \ {g}) = IF g \in busy THEN Cardinality(busy) - 1 ELSE Cardinality(busy)
  BY <1>1, FS_RemoveElement
<1>5. Cardinality(busy \cup {g}) = IF g \in busy THEN Cardinality(busy) ELSE Cardinality(busy) + 1
  BY <1>1, FS_AddElement
<1> QED
  BY <1>1, <1>2, <1>3, <1>4, <1>5

LEMMA DataTypesInit == ASSUME DataInit PROVE DataTypeOK
<1>1. PipeTypeOK
  BY DEF DataInit, PipeInit, PipeTypeOK, NoCombined, NoGroups
<1>2. 0 \in 0..Cardinality(Groups) /\ 0 \in 0..MaxRetries /\ 0 \in 0..MaxRestarts
      /\ Cardinality({}) <= Workers
  BY GroupsFinite, JobAssumption, FS_EmptySet, FetchAssumption
<1>3. exported \in [state : {"absent", "torn", "whole"}, groups : [Groups -> Result \cup {Missing}]]
  BY DEF DataInit, NoCombined, NoGroups
<1>4. /\ doing = "off" /\ status = "PENDING" /\ completed = 0 /\ todo = {} /\ busy = {}
      /\ plain = TRUE /\ retries = 0 /\ restarts = 0
      /\ groupRows \in [Groups -> {"PENDING", "RUNNING", "RETRYING", "SUCCESS", "FAILED"}]
  BY DEF DataInit
<1> QED
  BY <1>1, <1>2, <1>3, <1>4 DEF DataTypeOK, BusyStatuses

LEMMA DataTypesNext == ASSUME DataTypeOK, [DataNext]_dataVars PROVE DataTypeOK'
<1> DEFINE RowKinds == {"PENDING", "RUNNING", "RETRYING", "SUCCESS", "FAILED"}
           CombinedFiles == [state : {"absent", "torn", "whole"}, groups : [Groups -> Result \cup {Missing}]]
           AllStatuses == {"PENDING", "RUNNING", "RETRYING", "COMPLETED", "PARTIAL", "FAILED", "CANCELLED"}
<1>0. /\ PipeTypeOK
      /\ doing \in {"off", "run", "export", "retry"} /\ status \in AllStatuses
      /\ groupRows \in [Groups -> RowKinds]
      /\ completed \in 0..Cardinality(Groups)
      /\ exported \in CombinedFiles
      /\ todo \subseteq Groups /\ busy \subseteq Groups /\ Cardinality(busy) <= Workers
      /\ plain \in BOOLEAN
      /\ retries \in 0..MaxRetries /\ restarts \in 0..MaxRestarts
  BY DEF DataTypeOK, BusyStatuses
<1>a. MaxRetries \in Nat /\ MaxRestarts \in Nat
  BY JobAssumption
<1>b. ASSUME PipeTypeOK',
             doing' \in {"off", "run", "export", "retry"}, status' \in AllStatuses,
             groupRows' \in [Groups -> RowKinds], completed' \in 0..Cardinality(Groups),
             exported' \in CombinedFiles,
             todo' \subseteq Groups, busy' \subseteq Groups, Cardinality(busy') <= Workers,
             plain' \in BOOLEAN, retries' \in 0..MaxRetries, restarts' \in 0..MaxRestarts
      PROVE  DataTypeOK'
  BY <1>b DEF DataTypeOK, BusyStatuses
<1>r. \A res : RowOf(res) \in RowKinds
  BY DEF RowOf
<1>s. Synced(groupRows) \in [Groups -> RowKinds] /\ Completed(Synced(groupRows)) \in 0..Cardinality(Groups)
  BY <1>0, <1>r, CompletedTyped DEF Synced
<1>t. UNCHANGED pipeVars => PipeTypeOK'
  BY <1>0 DEF PipeTypeOK, pipeVars
<1>p. /\ raw \in [Requests -> {"none", "torn", "good", "bad"}]
      /\ file \in [Groups -> Result \cup {Missing, Torn}]
      /\ combined \in CombinedFiles
  BY <1>0 DEF PipeTypeOK
<1> HIDE DEF RowKinds, CombinedFiles, AllStatuses
<1>q. /\ \A s \in {"RUNNING", "RETRYING", "COMPLETED", "PARTIAL", "FAILED", "CANCELLED"} : s \in AllStatuses
      /\ \A s \in {"RUNNING", "RETRYING", "FAILED"} : s \in RowKinds
      /\ [state |-> "torn", groups |-> [g \in Groups |-> Missing]] \in CombinedFiles
  BY DEF AllStatuses, RowKinds, CombinedFiles
<1>1. CASE RunBegin
  <2>1. /\ StartPass(TRUE) /\ UNCHANGED disturbed /\ doing' = "run" /\ status' = "RUNNING"
        /\ UNCHANGED <<disturbed, groupRows, completed, exported, todo, busy, plain, retries, restarts>>
    BY <1>1 DEF RunBegin
  <2>2. PipeTypeOK'
    <3>1. results' = [g \in Groups |-> IF file[g].success THEN file[g] ELSE Missing]
      BY <2>1 DEF StartPass
    <3>2. \A g \in Groups : file[g].success => file[g] \in Result
      BY <1>p, MissingFacts
    <3>3. results' \in [Groups -> Result \cup {Missing}]
      BY <3>1, <3>2
    <3> QED
      BY <1>0, <2>1, <3>3 DEF StartPass, PipeTypeOK, NoGroups
  <2> QED
    BY <1>0, <1>b, <1>q, <2>1, <2>2
<1>2. CASE RunStep
  <2>1. PassStep /\ UNCHANGED <<doing, status, exported, todo, busy, plain, retries, restarts>>
    BY <1>2 DEF RunStep
  <2>2. PipeTypeOK'
    BY <1>0, <2>1, PassTyped
  <2>3. groupRows' \in [Groups -> RowKinds]
    BY <1>0, <1>2, <1>q, <1>r DEF RunStep
  <2>4. completed' \in 0..Cardinality(Groups)
    BY <1>0, <1>2, CompletedTyped DEF RunStep
  <2> QED
    BY <1>0, <1>b, <2>1, <2>2, <2>3, <2>4
<1>3. CASE CancelRun
  <2>1. PipeTypeOK'
    BY <1>0, <1>3 DEF CancelRun, PipeTypeOK
  <2> QED
    BY <1>0, <1>3, <1>b, <2>1 DEF CancelRun
<1>4. CASE RunReturned
  <2>1. PipeTypeOK'
    BY <1>0, <1>4 DEF RunReturned, PipeTypeOK
  <2>2. groupRows' \in [Groups -> RowKinds] /\ completed' \in 0..Cardinality(Groups)
    BY <1>4, <1>s DEF RunReturned, Sync
  <2>3. doing' \in {"off", "run", "export", "retry"} /\ status' \in AllStatuses
    BY <1>0, <1>4, <1>q DEF RunReturned
  <2> QED
    BY <1>0, <1>4, <1>b, <2>1, <2>2, <2>3 DEF RunReturned
<1>5. CASE RunRaised
  <2>1. PipeTypeOK'
    BY <1>0, <1>5 DEF RunRaised, PipeTypeOK
  <2> QED
    BY <1>0, <1>5, <1>b, <1>q, <2>1 DEF RunRaised
<1>6. CASE ExportJob
  BY <1>0, <1>6, <1>b, <1>p, <1>q, <1>t DEF ExportJob
<1>7. ASSUME NEW gs \in SUBSET Groups, NEW rs \in [Groups -> RowKinds], Scheduled(gs, rs)
      PROVE  DataTypeOK'
  <2>1. retries' \in 0..MaxRetries
    BY <1>0, <1>7, <1>a DEF Scheduled
  <2>2. completed' \in 0..Cardinality(Groups)
    BY <1>7, CompletedTyped DEF Scheduled
  <2>3. plain' \in BOOLEAN
    BY <1>0, <1>7 DEF Scheduled
  <2> QED
    BY <1>0, <1>7, <1>b, <1>q, <1>t, <2>1, <2>2, <2>3 DEF Scheduled
<1>8. ASSUME NEW g \in Groups, RetryBegin(g) PROVE DataTypeOK'
  <2>1. PipeTypeOK'
    BY <1>0, <1>8, <1>p DEF RetryBegin, PipeTypeOK
  <2>2. busy' \subseteq Groups /\ Cardinality(busy') <= Workers /\ todo' \subseteq Groups
    BY <1>0, <1>8, BusyTyped DEF RetryBegin
  <2>3. groupRows' \in [Groups -> RowKinds]
    BY <1>0, <1>8, <1>q DEF RetryBegin
  <2> QED
    BY <1>0, <1>8, <1>b, <2>1, <2>2, <2>3 DEF RetryBegin
<1>9. ASSUME NEW g \in Groups, RetryEnd(g) PROVE DataTypeOK'
  <2>1. PICK f \in Retried(g) :
           /\ raw' = [r \in Requests |->
                        IF r[1] = g /\ r[2] \in DOMAIN f /\ f[r[2]] \in {"good", "bad"}
                        THEN f[r[2]] ELSE raw[r]]
           /\ file' = [file EXCEPT ![g] = RetriedResult(g, f)]
           /\ groupRows' = [groupRows EXCEPT ![g] = RowOf(RetriedResult(g, f))]
    BY <1>9 DEF RetryEnd
  <2>2. raw' \in [Requests -> {"none", "torn", "good", "bad"}]
    BY <1>p, <2>1
  <2>3. file' \in [Groups -> Result \cup {Missing, Torn}]
    BY <1>p, <2>1, RetriedSound DEF SoundResult
  <2>4. UNCHANGED <<combined, pass, results, task, out, cancelled, disturbed>>
        /\ busy' = busy \ {g}
        /\ UNCHANGED <<doing, status, completed, exported, todo, plain, retries, restarts>>
    BY <1>9 DEF RetryEnd
  <2>5. PipeTypeOK'
    BY <1>0, <2>2, <2>3, <2>4 DEF PipeTypeOK
  <2>6. busy' \subseteq Groups /\ Cardinality(busy') <= Workers
    BY <1>0, <2>4, BusyTyped
  <2>7. groupRows' \in [Groups -> RowKinds]
    BY <1>0, <1>r, <2>1
  <2> QED
    BY <1>0, <1>b, <2>4, <2>5, <2>6, <2>7
<1>10. CASE RetryAssemble
  <2>1. combined' \in CombinedFiles
    BY <1>p, <1>10 DEF RetryAssemble, CombinedFiles, Readable
  <2>2. PipeTypeOK'
    BY <1>0, <1>10, <2>1 DEF RetryAssemble, PipeTypeOK, CombinedFiles
  <2>3. groupRows' \in [Groups -> RowKinds] /\ completed' \in 0..Cardinality(Groups)
    BY <1>10, <1>s DEF RetryAssemble, Sync
  <2> QED
    BY <1>0, <1>10, <1>b, <2>2, <2>3 DEF RetryAssemble
<1>11. CASE ViewGroups
  <2>1. groupRows' \in [Groups -> RowKinds] /\ completed' \in 0..Cardinality(Groups)
    BY <1>11, <1>s DEF ViewGroups, Sync
  <2> QED
    BY <1>0, <1>11, <1>b, <1>t, <2>1 DEF ViewGroups
<1>12. CASE Restart
  <2>1. PipeTypeOK'
    <3>1. CASE KillPass
      BY <1>0, <3>1, KillKeeps
    <3>2. CASE /\ UNCHANGED <<file, pass, results, task, out, cancelled, disturbed>>
               /\ \E cut \in SUBSET {r \in Requests : r[1] \in busy} :
                    raw' = [r \in Requests |-> IF r \in cut THEN "torn" ELSE raw[r]]
               /\ combined' \in {combined, TornCombined}
      <4>1. raw' \in [Requests -> {"none", "torn", "good", "bad"}]
        BY <1>p, <3>2
      <4>2. combined' \in CombinedFiles
        BY <1>p, <1>q, <3>2 DEF TornCombined, NoGroups
      <4> QED
        BY <1>0, <3>2, <4>1, <4>2 DEF PipeTypeOK, CombinedFiles
    <3>3. combined' \in {combined} \cup (IF doing = "retry" /\ todo \cup busy = {}
                                         THEN {TornCombined} ELSE {})
             => combined' \in {combined, TornCombined}
      OBVIOUS
    <3> QED
      BY <1>12, <3>1, <3>2, <3>3 DEF Restart
  <2>2. exported' \in CombinedFiles
    BY <1>0, <1>12, <1>q DEF Restart, TornCombined, NoGroups
  <2>3. groupRows' \in [Groups -> RowKinds]
    <3>1. groupRows' = [g \in Groups |-> IF Readable(Best(g)') THEN RowOf(Best(g)') ELSE groupRows[g]]
      BY <1>12 DEF Restart
    <3> QED
      BY <1>0, <1>r, <3>1
  <2>4. completed' \in 0..Cardinality(Groups)
    BY <1>12, CompletedTyped DEF Restart
  <2>5. status' \in AllStatuses
    BY <1>0, <1>12, <1>q DEF Restart
  <2>6. restarts' \in 0..MaxRestarts /\ retries' = retries
    BY <1>0, <1>12, <1>a DEF Restart
  <2>7. plain' \in BOOLEAN
    BY <1>0, <1>12 DEF Restart
  <2>8. doing' = "off" /\ todo' = {} /\ busy' = {} /\ Cardinality({}) <= Workers
    BY <1>12, FS_EmptySet, FetchAssumption DEF Restart
  <2> QED
    BY <1>0, <1>b, <2>1, <2>2, <2>3, <2>4, <2>5, <2>6, <2>7, <2>8
<1>13. CASE UNCHANGED dataVars
  BY <1>0, <1>13, <1>b, <1>t DEF dataVars, jobVars
<1>14. ASSUME NEW g \in Groups, RetryGroup(g) PROVE DataTypeOK'
  BY <1>0, <1>7, <1>14 DEF RetryGroup
<1>15. CASE RetryFailed
  BY <1>7, <1>15, <1>s DEF RetryFailed
<1> QED
  BY <1>1, <1>2, <1>3, <1>4, <1>5, <1>6, <1>8, <1>9, <1>10, <1>11, <1>12, <1>13, <1>14, <1>15
     DEF DataNext, Thread

\* Nothing was written yet.
Untouched ==
    /\ status # "COMPLETED"
    /\ \A g \in Groups : /\ file[g] = Missing /\ combined.groups[g] = Missing
                         /\ exported.groups[g] = Missing /\ groupRows[g] = "PENDING"

\* Every group has been fetched, and an older copy of it is a success only if
\* its group file is.
FilesAhead ==
    \A g \in Groups :
        /\ SoundResult(file[g])
        /\ \A f \in {combined.groups[g], exported.groups[g]} :
              f = Missing \/ (SoundResult(f) /\ (f.success => file[g].success))

RowsOfFiles == \A g \in Groups : groupRows[g] = RowOf(file[g])

\* What nothing but runs, restarts at rest and retries of failed groups leave.
PlainGood ==
    /\ ~cancelled
    /\ doing # "run" => pass = "off"
    /\ doing # "retry" => todo = {} /\ busy = {}
    /\ doing = "off" => Untouched \/ (FilesAhead /\ RowsOfFiles /\ status # "PENDING")
    /\ doing = "run" => /\ PassGood /\ pass # "off"
                        /\ \A g \in Groups : exported.groups[g] = Missing
    /\ doing = "export" => /\ FilesAhead /\ RowsOfFiles
                           /\ \A g \in Groups : combined.groups[g] = file[g]
    /\ doing = "retry" => /\ FilesAhead /\ todo \cap busy = {}
                          /\ \A g \in todo \cup busy : ~file[g].success
    /\ status = "COMPLETED" =>
          /\ doing = "off"
          /\ \A g \in Groups : combined.groups[g].success /\ exported.groups[g].success

DataGood == DataTypeOK /\ (plain => PlainGood)

\* The rows synchronised with the best results are those of the group files.
LEMMA SyncedRows ==
    /\ FilesAhead => \A g \in Groups : Synced(groupRows)[g] = RowOf(file[g])
    /\ Untouched => \A g \in Groups : Synced(groupRows)[g] = "PENDING"
<1>1. ASSUME FilesAhead, NEW g \in Groups PROVE Synced(groupRows)[g] = RowOf(file[g])
  <2>1. Readable(Best(g)) /\ (Best(g).success <=> file[g].success)
    BY <1>1, BestSound DEF FilesAhead
  <2> QED
    BY <2>1 DEF Synced, RowOf
<1>2. ASSUME Untouched, NEW g \in Groups PROVE Synced(groupRows)[g] = "PENDING"
  <2>1. ~Readable(Best(g)) /\ groupRows[g] = "PENDING"
    BY <1>2, BestMissing DEF Untouched
  <2> QED
    BY <2>1 DEF Synced
<1> QED
  BY <1>1, <1>2

LEMMA DataGoodInit == ASSUME DataInit PROVE DataGood
<1>1. Untouched
  BY DEF DataInit, PipeInit, NoCombined, NoGroups, Untouched
<1>2. DataTypeOK
  BY DataTypesInit
<1>3. ~cancelled /\ doing = "off" /\ pass = "off" /\ todo = {} /\ busy = {} /\ status = "PENDING"
  BY DEF DataInit, PipeInit
<1> QED
  BY <1>1, <1>2, <1>3 DEF DataGood, PlainGood

LEMMA PlainNext ==
    ASSUME DataTypeOK, PlainGood, plain, [DataNext]_dataVars, plain' PROVE PlainGood'
<1>0. PipeTypeOK /\ doing \in {"off", "run", "export", "retry"} /\ ~cancelled
  BY DEF DataTypeOK, PlainGood
<1>1. CASE RunBegin
  <2>1. /\ StartPass(TRUE) /\ UNCHANGED disturbed /\ doing' = "run" /\ status' = "RUNNING"
        /\ doing = "off" /\ status = "PENDING"
        /\ UNCHANGED <<exported, todo, busy>>
    BY <1>1 DEF RunBegin
  <2>2. Untouched /\ todo = {} /\ busy = {}
    BY <2>1 DEF PlainGood
  <2>3. FilesSound
    BY <2>2 DEF Untouched, FilesSound, Readable
  <2>4. PassGood' /\ pass' = "page" /\ cancelled' = cancelled
    BY <1>0, <2>1, <2>3, StartGood
  <2> QED
    BY <1>0, <2>1, <2>2, <2>4 DEF PlainGood, Untouched
<1>2. CASE RunStep
  <2>1. /\ doing = "run" /\ PassStep
        /\ UNCHANGED <<doing, status, exported, todo, busy, plain, retries, restarts>>
    BY <1>2 DEF RunStep
  <2>2. PassGood /\ \A g \in Groups : exported.groups[g] = Missing
    BY <2>1 DEF PlainGood
  <2>3. PassGood' /\ pass' # "off"
    BY <1>0, <2>1, <2>2, PassKeepsGood
  <2>4. todo = {} /\ busy = {} /\ status # "COMPLETED"
    BY <2>1 DEF PlainGood
  <2> QED
    BY <2>1, <2>2, <2>3, <2>4 DEF PlainGood, PassGood
<1>3. CASE CancelRun
  BY <1>3 DEF CancelRun
<1>4. CASE RunReturned
  <2>1. /\ doing = "run" /\ pass = "returned" /\ Sync /\ pass' = "off"
        /\ doing' = "export" /\ status' = status
        /\ UNCHANGED <<raw, file, combined, results, task, out, cancelled, disturbed,
                       exported, todo, busy>>
    BY <1>0, <1>4 DEF RunReturned
  <2>2. PassGood /\ (\A g \in Groups : exported.groups[g] = Missing)
        /\ todo = {} /\ busy = {} /\ status # "COMPLETED"
    BY <2>1 DEF PlainGood
  <2>3. combined.groups = results
    BY <2>1, <2>2 DEF PassGood, StagesDone
  <2>4. \A g \in Groups : results[g] # Missing /\ results[g] = file[g] /\ SoundResult(results[g])
    BY <2>1, <2>2, GroupParts DEF PassGood, StagesDone, ResultsSaved
  <2>5. FilesAhead /\ \A g \in Groups : combined.groups[g] = file[g]
    BY <2>2, <2>3, <2>4 DEF FilesAhead
  <2>6. RowsOfFiles'
    BY <2>1, <2>5, SyncedRows DEF Sync, RowsOfFiles, RowOf
  <2>7. FilesAhead'
    BY <2>1, <2>5 DEF FilesAhead
  <2> QED
    BY <1>0, <2>1, <2>2, <2>5, <2>6, <2>7 DEF PlainGood
<1>5. CASE RunRaised
  BY <1>5 DEF RunRaised, PlainGood, PassGood
<1>6. CASE ExportJob
  <2>1. /\ doing = "export" /\ exported' = combined /\ doing' = "off"
        /\ status' = IF AllSucceeded(groupRows) THEN "COMPLETED" ELSE "PARTIAL"
        /\ UNCHANGED <<pipeVars, groupRows, todo, busy>>
    BY <1>6 DEF ExportJob
  <2>2. FilesAhead /\ RowsOfFiles /\ (\A g \in Groups : combined.groups[g] = file[g])
        /\ todo = {} /\ busy = {} /\ pass = "off"
    BY <2>1 DEF PlainGood
  <2>3. FilesAhead' /\ RowsOfFiles'
    BY <2>1, <2>2 DEF FilesAhead, RowsOfFiles, RowOf, pipeVars
  <2>4. AllSucceeded(groupRows) => \A g \in Groups : file[g].success
    BY <2>2 DEF AllSucceeded, RowsOfFiles, RowOf
  <2> QED
    BY <1>0, <2>1, <2>2, <2>3, <2>4 DEF PlainGood, pipeVars
<1>7. ASSUME NEW gs \in SUBSET Groups, NEW rs, Scheduled(gs, rs),
             rs = groupRows \/ rs = Synced(groupRows)
      PROVE  PlainGood'
  <2>1. /\ doing = "off" /\ status' = "RETRYING" /\ doing' = "retry" /\ todo' = gs /\ gs # {}
        /\ UNCHANGED <<pipeVars, exported, busy>>
        /\ \A g \in gs : rs[g] = "FAILED"
    BY <1>7 DEF Scheduled
  <2>2. busy = {} /\ pass = "off"
    BY <2>1 DEF PlainGood
  <2>3. ~Untouched
    BY <1>7, <2>1, SyncedRows DEF Untouched
  <2>4. FilesAhead /\ RowsOfFiles
    BY <2>1, <2>3 DEF PlainGood
  <2>5. \A g \in gs : ~file[g].success
    BY <1>7, <2>1, <2>4, SyncedRows DEF RowsOfFiles, RowOf
  <2>6. FilesAhead'
    BY <2>1, <2>4 DEF FilesAhead, pipeVars
  <2> QED
    BY <1>0, <2>1, <2>2, <2>5, <2>6 DEF PlainGood, pipeVars
<1>8. ASSUME NEW g \in Groups, RetryBegin(g) PROVE PlainGood'
  <2>1. /\ doing = "retry" /\ g \in todo /\ todo' = todo \ {g} /\ busy' = busy \cup {g}
        /\ UNCHANGED <<file, combined, pass, cancelled, doing, status, exported>>
    BY <1>8 DEF RetryBegin
  <2>2. FilesAhead /\ todo \cap busy = {} /\ (\A h \in todo \cup busy : ~file[h].success)
        /\ pass = "off" /\ status # "COMPLETED"
    BY <2>1 DEF PlainGood
  <2>3. FilesAhead'
    BY <2>1, <2>2 DEF FilesAhead
  <2>4. todo' \cap busy' = {} /\ \A h \in todo' \cup busy' : ~file'[h].success
    BY <2>1, <2>2
  <2> QED
    BY <1>0, <2>1, <2>2, <2>3, <2>4 DEF PlainGood
<1>9. ASSUME NEW g \in Groups, RetryEnd(g) PROVE PlainGood'
  <2>1. PICK f \in Retried(g) : file' = [file EXCEPT ![g] = RetriedResult(g, f)]
    BY <1>9 DEF RetryEnd
  <2>2. /\ doing = "retry" /\ g \in busy /\ busy' = busy \ {g}
        /\ UNCHANGED <<combined, pass, cancelled, doing, status, exported, todo>>
    BY <1>9 DEF RetryEnd
  <2>3. FilesAhead /\ todo \cap busy = {} /\ (\A h \in todo \cup busy : ~file[h].success)
        /\ pass = "off" /\ status # "COMPLETED"
    BY <2>2 DEF PlainGood
  <2>4. \A h \in Groups : IF h = g THEN SoundResult(file'[h]) ELSE file'[h] = file[h]
    BY <1>0, <2>1, RetriedSound DEF PipeTypeOK
  <2>5. ~file[g].success
    BY <2>2, <2>3
  <2>6. FilesAhead'
    BY <2>2, <2>3, <2>4, <2>5 DEF FilesAhead
  <2>7. todo' \cap busy' = {} /\ \A h \in todo' \cup busy' : ~file'[h].success
    <3>1. todo' \cap busy' = {}
      BY <2>2, <2>3
    <3>2. \A h \in todo' \cup busy' : h \in Groups /\ h # g /\ h \in todo \cup busy
      BY <2>2, <2>3 DEF DataTypeOK
    <3> QED
      BY <2>3, <2>4, <3>1, <3>2
  <2> QED
    BY <1>0, <2>2, <2>3, <2>6, <2>7 DEF PlainGood
<1>10. CASE RetryAssemble
  <2>1. /\ doing = "retry" /\ todo = {} /\ busy = {} /\ Sync /\ doing' = "export"
        /\ combined' = [state |-> "whole",
                        groups |-> [g \in Groups |-> IF Readable(file[g]) THEN file[g] ELSE Missing]]
        /\ UNCHANGED <<file, pass, cancelled, status, exported, todo, busy>>
    BY <1>10 DEF RetryAssemble
  <2>2. FilesAhead /\ pass = "off" /\ status # "COMPLETED"
    BY <2>1 DEF PlainGood
  <2>3. \A g \in Groups : combined'.groups[g] = file'[g]
    BY <2>1, <2>2, MissingFacts DEF FilesAhead
  <2>4. FilesAhead'
    BY <2>1, <2>2, <2>3 DEF FilesAhead
  <2>5. RowsOfFiles'
    BY <2>1, <2>2, SyncedRows DEF Sync, RowsOfFiles, RowOf
  <2> QED
    BY <1>0, <2>1, <2>2, <2>3, <2>4, <2>5 DEF PlainGood
<1>11. CASE ViewGroups
  <2>1. doing = "off" /\ Sync /\ UNCHANGED <<pipeVars, doing, status, exported, todo, busy>>
    BY <1>11 DEF ViewGroups
  <2>2. Untouched => Untouched'
    BY <2>1, SyncedRows DEF Untouched, pipeVars, Sync
  <2>3. FilesAhead => FilesAhead' /\ RowsOfFiles'
    BY <2>1, SyncedRows DEF FilesAhead, RowsOfFiles, RowOf, pipeVars, Sync
  <2> QED
    BY <1>0, <2>1, <2>2, <2>3 DEF PlainGood, pipeVars
<1>12. CASE Restart
  <2>1. doing = "off" /\ pass = "off" /\ todo = {} /\ busy = {}
    BY <1>12 DEF Restart, PlainGood
  <2>2. /\ UNCHANGED <<file, combined, exported, pass, cancelled>>
        /\ doing' = "off" /\ todo' = {} /\ busy' = {}
        /\ groupRows' = [g \in Groups |-> IF Readable(Best(g)') THEN RowOf(Best(g)') ELSE groupRows[g]]
        /\ status' = "COMPLETED" => status = "COMPLETED"
        /\ status' # "PENDING"
    BY <1>12, <2>1 DEF Restart, BusyStatuses
  <2>3. groupRows' = Synced(groupRows)
    BY <2>2 DEF Synced, Best, Saved
  <2>4. Untouched => Untouched'
    BY <2>2, <2>3, SyncedRows DEF Untouched
  <2>5. FilesAhead => FilesAhead' /\ RowsOfFiles'
    BY <2>2, <2>3, SyncedRows DEF FilesAhead, RowsOfFiles, RowOf
  <2> QED
    BY <1>0, <2>1, <2>2, <2>4, <2>5 DEF PlainGood
<1>13. CASE UNCHANGED dataVars
  BY <1>13 DEF dataVars, pipeVars, jobVars, PlainGood, Untouched, FilesAhead, RowsOfFiles, RowOf,
     PassGood, TasksInStage, Due, FilesSound, ResultsSaved, StagesDone
<1>14. ASSUME NEW g \in Groups, RetryGroup(g) PROVE PlainGood'
  BY <1>7, <1>14 DEF RetryGroup
<1>15. CASE RetryFailed
  BY <1>7, <1>15 DEF RetryFailed
<1> QED
  BY <1>1, <1>2, <1>3, <1>4, <1>5, <1>6, <1>8, <1>9, <1>10, <1>11, <1>12, <1>13, <1>14, <1>15
     DEF DataNext, Thread

\* Once a job is not plain it stays so.
LEMMA PlainBefore == ASSUME DataTypeOK, [DataNext]_dataVars, plain' PROVE plain
BY DEF DataTypeOK, DataNext, Thread, RunBegin, RunStep, CancelRun, RunReturned, RunRaised,
       ExportJob, Scheduled, RetryGroup, RetryFailed, RetryBegin, RetryEnd, RetryAssemble,
       ViewGroups, Restart, dataVars, jobVars

LEMMA DataGoodHolds == DataSpec => []DataGood
<1>1. DataInit => DataGood
  BY DataGoodInit
<1>2. DataGood /\ [DataNext]_dataVars => DataGood'
  BY DataTypesNext, PlainNext, PlainBefore DEF DataGood
<1> QED
  BY <1>1, <1>2, PTL DEF DataSpec

\* The directory, the rows and the thread of the job keep their types.
THEOREM DataTypes == DataSpec => []DataTypeOK
<1>1. DataGood => DataTypeOK
  BY DEF DataGood
<1> QED
  BY <1>1, DataGoodHolds, PTL

\* A COMPLETED job has every group, with success, in its combined.json and in
\* its export, as long as nothing was cancelled, killed at work or retried
\* that had not failed.
THEOREM CompletedHolds == DataSpec => []CompletedIsWhole
<1>1. DataGood => CompletedIsWhole
  BY DEF DataGood, PlainGood, CompletedIsWhole
<1> QED
  BY <1>1, DataGoodHolds, PTL

-----------------------------------------------------------------------------
(* The task centre (JobManager). *)

USE JobManagerAssumption

----------------------------------------------------------------------------
(* The shape of a call: where an operation may be, for which thread, and   *)
(* what the copy of the state it carries may say there.                    *)

PromotePcs  == {"select", "unflag", "unlink", "file", "clear", "mark"}
PcsOf == [none   |-> {"idle"},
          create |-> {"saved"},
          view   |-> {"read", "synced"},
          set    |-> {"file", "clear", "mark"},
          latest |-> PromotePcs,
          boot   |-> PromotePcs,
          delete |-> PromotePcs \cup {"read", "locked", "marked", "gone", "final", "release"},
          run    |-> {"queued", "fetch", "export", "file", "clear", "mark", "final", "release"},
          retry  |-> PromotePcs \cup {"read", "locked", "queued", "fetch", "fetched", "resync",
                                      "export", "final", "release"}]

Place(t, f) ==
  /\ f.pc \in PcsOf[f.op]
  /\ f.op \notin {"none", "latest", "boot"} =>
       f.mgr \in Managers /\ f.job \in Jobs /\ f.stock = StockOf[f.job]
  /\ t \in Tasks => /\ f.op \in {"none", "run", "retry"}
                    /\ f.op # "none" => t = <<f.mgr, f.job>> /\ f.pc \notin {"read", "locked"}
  /\ t \in Callers => /\ f.op \notin {"run", "boot"}
                      /\ f.op = "retry" => f.pc \in {"read", "locked"}
  /\ t = Main => f.op \in {"none", "boot"}

Copy(f) ==
  /\ f.op = "view" => f.st.status \in RestStatuses
  /\ f.pc = "final" => f.st.status \in RestStatuses
  /\ f.op \in {"run", "retry"} /\ f.pc \in PromotePcs => f.st.status \in RestStatuses
  /\ f.pc \in {"file", "clear", "mark"} \/ (f.pc = "unflag" /\ f.pick # None)
       => f.pick \in Jobs /\ f.ps.status \in RestStatuses

Sound(t, f) == f \in Frames /\ Place(t, f) /\ Copy(f)
Calls == \A t \in Threads : Sound(t, fr[t])

Typed == TypeOK /\ Calls

----------------------------------------------------------------------------
(* Typing of the values the actions build.                                 *)

\* The row of a job that is not there.
LEMMA AbsentType == Absent \in States
  BY DEF Absent, States, Counts

\* The frame of a thread at rest.
LEMMA IdleType == Idle \in Frames
  BY AbsentType DEF Idle, Frames, Ops, Pcs

\* The state read back from a row.
LEMMA LoadedType == ASSUME TypeOK, NEW j \in Jobs PROVE Loaded(j) \in States
  BY DEF TypeOK, Loaded, States, RestStatuses

\* The frame of an operation that begins.
LEMMA FrameType ==
  ASSUME NEW op \in Ops, NEW to \in Pcs, NEW m \in Managers, NEW j \in Jobs, NEW st \in States
  PROVE  Frame(op, to, m, j, st) \in Frames
  BY IdleType DEF Frame, Frames, Idle

\* A save keeps the table of jobs typed.
LEMMA SaveType ==
  ASSUME TypeOK, NEW j, NEW st \in States, Save(j, st) PROVE rows' \in [Jobs -> States]
  BY DEF TypeOK, Save

\* A step of one thread keeps the frames typed.
LEMMA GotoType ==
  ASSUME TypeOK, NEW t, NEW f \in Frames, Goto(t, f) PROVE fr' \in [Threads -> Frames]
  BY DEF TypeOK, Goto

\* A frame that moves on.
LEMMA FramePc ==
  ASSUME NEW f \in Frames, NEW to \in Pcs PROVE [f EXCEPT !.pc = to] \in Frames
  BY DEF Frames

\* A frame that moves on with a new copy.
LEMMA FrameSt ==
  ASSUME NEW f \in Frames, NEW to \in Pcs, NEW st \in States
  PROVE  [f EXCEPT !.pc = to, !.st = st] \in Frames
  BY DEF Frames

\* A frame whose copy is flagged.
LEMMA FrameCurrent ==
  ASSUME NEW f \in Frames, NEW to \in Pcs, NEW b \in BOOLEAN
  PROVE  [f EXCEPT !.pc = to, !.st.current = b] \in Frames
<1>1. [f.st EXCEPT !.current = b] \in States BY DEF Frames, States
<1>2. [f EXCEPT !.pc = to, !.st.current = b] = [f EXCEPT !.pc = to, !.st = [f.st EXCEPT !.current = b]]
  BY DEF Frames
<1> QED BY <1>1, <1>2, FrameSt

\* A frame whose copy takes a status.
LEMMA FrameStatus ==
  ASSUME NEW f \in Frames, NEW to \in Pcs, NEW x \in ActiveStatuses \cup RestStatuses
  PROVE  [f EXCEPT !.pc = to, !.st.status = x] \in Frames
<1>1. [f.st EXCEPT !.status = x] \in States BY DEF Frames, States
<1>2. [f EXCEPT !.pc = to, !.st.status = x] = [f EXCEPT !.pc = to, !.st = [f.st EXCEPT !.status = x]]
  BY DEF Frames
<1> QED BY <1>1, <1>2, FrameSt

\* A thread that is somewhere carries a frame.
LEMMA AtType ==
  ASSUME TypeOK, NEW t \in Threads, NEW to \in Pcs PROVE At(t, to) \in Frames
  BY FramePc DEF TypeOK, At

\* The frame that goes on after a promotion.
LEMMA PromotedType ==
  ASSUME TypeOK, NEW t \in Threads PROVE Promoted(fr[t]) \in Frames
<1> DEFINE f == fr[t]
<1> f \in Frames BY DEF TypeOK
<1> HIDE DEF f
<1>1. [f EXCEPT !.pc = "final", !.st.current = (f.pick = f.job)] \in Frames
  BY FrameCurrent DEF Pcs
<1>2. [f EXCEPT !.pc = "release"] \in Frames BY FramePc DEF Pcs
<1> QED BY <1>1, <1>2, IdleType DEF Promoted, f

\* A retry that is not done ends in a status of rest.
LEMMA UnfinishedType == \A st : Unfinished(st) \in RestStatuses
  BY DEF Unfinished, RestStatuses

\* A thread at rest has the shape of a call.
LEMMA IdleSound == \A t \in Threads : Sound(t, Idle)
  BY IdleType DEF Sound, Place, Copy, PcsOf, Idle, PromotePcs

\* Only the thread that moves has to be looked at again.
LEMMA GotoCalls ==
  ASSUME Typed, NEW t \in Threads, NEW f, Sound(t, f), Goto(t, f)
  PROVE  fr' \in [Threads -> Frames] /\ Calls'
  BY DEF Typed, TypeOK, Calls, Goto, Sound, Place, Copy

\* The steps of a run keep types and shapes.
LEMMA RunTyped ==
  ASSUME Typed, NEW t \in Threads,
         RunStart(t) \/ RunProgress(t) \/ RunReturn(t) \/ RunExported(t) \/ RunRaise(t)
  PROVE  Typed'
<1> DEFINE f == fr[t]
<1>0. f \in Frames /\ Sound(t, f) /\ f.st \in States BY DEF Typed, Calls, Sound, Frames
<1>a. f.op = "run" /\ f.job \in Jobs /\ t \in Tasks
  BY <1>0 DEF RunStart, RunProgress, RunReturn, RunExported, RunRaise, Sound, Place, Threads
<1> HIDE DEF f
<1>1. CASE RunStart(t)
  <2> DEFINE st == [f.st EXCEPT !.status = "RUNNING"]
             g  == [f EXCEPT !.pc = "fetch", !.st = st]
  <2>1. st \in States BY <1>0 DEF States, ActiveStatuses
  <2>2. g \in Frames BY <2>1, <1>0 DEF Frames, Pcs
  <2>3. Sound(t, g) BY <2>1, <2>2, <1>0, <1>a DEF Sound, Place, Copy, Frames, PcsOf, PromotePcs
  <2>4. Goto(t, g) /\ Save(f.job, st) BY <1>1 DEF RunStart, f
  <2> HIDE DEF st, g
  <2>5. fr' \in [Threads -> Frames] /\ Calls' BY <2>3, <2>4, GotoCalls
  <2>6. rows' \in [Jobs -> States] BY <2>1, <2>4, SaveType DEF Typed
  <2> QED BY <2>5, <2>6, <1>1, <1>a DEF RunStart, Typed, TypeOK, mem, f
<1>2. CASE RunProgress(t)
  <2> PICK x \in Later(groups[f.job]) :
        /\ groups' = [groups EXCEPT ![f.job] = x]
        /\ Save(f.job, [f.st EXCEPT !.groups = x])
        /\ Goto(t, [f EXCEPT !.st = [f.st EXCEPT !.groups = x]])
    BY <1>2 DEF RunProgress, f
  <2> DEFINE st == [f.st EXCEPT !.groups = x]
             g  == [f EXCEPT !.st = st]
  <2>0. x \in Counts BY DEF Later, Counts
  <2>1. st \in States BY <2>0, <1>0 DEF States
  <2>2. g \in Frames BY <2>1, <1>0 DEF Frames
  <2>3. Sound(t, g)
    BY <2>1, <2>2, <1>0, <1>a, <1>2 DEF Sound, Place, Copy, Frames, PcsOf, PromotePcs, RunProgress, f
  <2>4. Goto(t, g) /\ Save(f.job, st) OBVIOUS
  <2> HIDE DEF st, g
  <2>5. fr' \in [Threads -> Frames] /\ Calls' BY <2>3, <2>4, GotoCalls
  <2>6. rows' \in [Jobs -> States] BY <2>1, <2>4, SaveType DEF Typed
  <2> QED BY <2>0, <2>5, <2>6, <1>2 DEF RunProgress, Typed, TypeOK, mem, disk
<1>3. CASE RunReturn(t)
  <2> DEFINE st == [f.st EXCEPT !.groups = groups[f.job]]
             sc == [st EXCEPT !.status = "CANCELLED"]
             g1 == [f EXCEPT !.pc = "final", !.st = sc]
             g2 == [f EXCEPT !.pc = "export", !.st = st]
  <2>1. st \in States BY <1>0, <1>a DEF States, Typed, TypeOK
  <2>2. sc \in States /\ sc.status \in RestStatuses BY <2>1 DEF States, RestStatuses
  <2> HIDE DEF st, sc
  <2>3. g1 \in Frames /\ g2 \in Frames BY <2>1, <2>2, <1>0 DEF Frames, Pcs
  <2>a. Sound(t, g1)
    BY <2>2, <2>3, <1>0, <1>a DEF Sound, Place, Copy, Frames, PcsOf, PromotePcs
  <2>b. Sound(t, g2)
    BY <2>1, <2>3, <1>0, <1>a DEF Sound, Place, Copy, Frames, PcsOf, PromotePcs
  <2>4. Sound(t, g1) /\ Sound(t, g2) BY <2>a, <2>b
  <2>5. (Goto(t, g1) /\ UNCHANGED rows) \/ (Goto(t, g2) /\ Save(f.job, st))
    BY <1>3 DEF RunReturn, f, st, sc
  <2> HIDE DEF g1, g2
  <2>6. fr' \in [Threads -> Frames] /\ Calls' BY <2>4, <2>5, GotoCalls
  <2>7. rows' \in [Jobs -> States] BY <2>1, <2>5, SaveType DEF Typed, TypeOK
  <2> QED BY <2>6, <2>7, <1>3 DEF RunReturn, Typed, TypeOK, mem, disk
<1>4. CASE RunExported(t)
  <2> DEFINE st == [f.st EXCEPT !.status = "COMPLETED"]
             g1 == [f EXCEPT !.pc = "file", !.st = st, !.pick = f.job, !.ps = st]
             g2 == [f EXCEPT !.pc = "final", !.st.status = "PARTIAL"]
  <2>1. st \in States BY <1>0 DEF States, RestStatuses
  <2>a. g1 \in Frames BY <2>1, <1>0, <1>a DEF Frames, Pcs
  <2>b. g2 \in Frames BY <1>0, FrameStatus DEF Pcs, RestStatuses
  <2>2. g1 \in Frames /\ g2 \in Frames BY <2>a, <2>b
  <2>3. Sound(t, g1) /\ Sound(t, g2)
    BY <2>1, <2>2, <1>0, <1>a DEF Sound, Place, Copy, Frames, PcsOf, PromotePcs, RestStatuses, States
  <2>4. Goto(t, g1) \/ Goto(t, g2) BY <1>4 DEF RunExported, f
  <2> HIDE DEF st, g1, g2
  <2>5. fr' \in [Threads -> Frames] /\ Calls' BY <2>3, <2>4, GotoCalls
  <2> QED BY <2>5, <1>4 DEF RunExported, Typed, TypeOK, mem, disk, db
<1>5. CASE RunRaise(t)
  <2> DEFINE g == [f EXCEPT !.pc = "final", !.st.status = "FAILED"]
  <2>1. g \in Frames BY <1>0, FrameStatus DEF Pcs, RestStatuses
  <2>2. Sound(t, g)
    BY <2>1, <1>0, <1>a DEF Sound, Place, Copy, Frames, PcsOf, PromotePcs, RestStatuses, States
  <2>3. Goto(t, g) BY <1>5 DEF RunRaise, f
  <2> HIDE DEF g
  <2>4. fr' \in [Threads -> Frames] /\ Calls' BY <2>2, <2>3, GotoCalls
  <2> QED BY <2>4, <1>5 DEF RunRaise, Typed, TypeOK, mem, disk, db
<1> QED BY <1>1, <1>2, <1>3, <1>4, <1>5

\* So does every arrival of a request.
LEMMA RequestTyped ==
  ASSUME Typed, NEW c \in Callers, Request(c) PROVE Typed'
<1> USE DEF Threads
<1>0. c \in Threads /\ c \notin Tasks /\ c # Main /\ TypeOK BY DEF Typed
<1>a. ASSUME NEW op \in Ops, NEW to \in PcsOf[op], NEW m \in Managers, NEW j \in Jobs,
             NEW st \in States, op \in {"create", "view", "retry", "delete"},
             to \in {"saved", "read"}, op = "view" => st.status \in RestStatuses
      PROVE  Sound(c, Frame(op, to, m, j, st))
  <2>1. to \in Pcs BY <1>a DEF Pcs
  <2>2. Frame(op, to, m, j, st) \in Frames BY <2>1, FrameType
  <2> QED BY <2>2, <1>0, <1>a DEF Sound, Place, Copy, Frame, Idle, PcsOf, PromotePcs
<1>1. CASE \E m \in Managers, j \in Jobs : Create(c, m, j)
  <2> PICK m \in Managers, j \in Jobs : Create(c, m, j) BY <1>1
  <2> DEFINE st == [status |-> "PENDING", groups |-> "empty", current |-> FALSE]
  <2>1. st \in States BY DEF States, Counts, ActiveStatuses
  <2>2. Save(j, st) /\ Goto(c, Frame("create", "saved", m, j, st)) BY DEF Create
  <2> HIDE DEF st
  <2>3. Sound(c, Frame("create", "saved", m, j, st))
    BY <1>a, <2>1 DEF Ops, PcsOf
  <2>4. fr' \in [Threads -> Frames] /\ Calls' BY <2>2, <2>3, <1>0, GotoCalls
  <2>5. rows' \in [Jobs -> States] BY <2>1, <2>2, <1>0, SaveType
  <2> QED BY <2>4, <2>5 DEF Create, Call, Typed, TypeOK, db, disk, mem
<1>2. CASE \E m \in Managers, j \in Jobs : RetryRead(c, m, j) \/ DeleteRead(c, m, j) \/ ViewRead(c, m, j)
  <2> PICK m \in Managers, j \in Jobs : RetryRead(c, m, j) \/ DeleteRead(c, m, j) \/ ViewRead(c, m, j)
    BY <1>2
  <2>1. PICK op \in {"retry", "delete", "view"} :
          /\ Goto(c, Frame(op, "read", m, j, Loaded(j)))
          /\ op = "view" => Loaded(j).status \notin ActiveStatuses /\ Present(j)
    BY DEF RetryRead, DeleteRead, ViewRead
  <2>2. Loaded(j) \in States BY LoadedType, <1>0
  <2>3. op = "view" => Loaded(j).status \in RestStatuses
    BY <2>1, <2>2 DEF Loaded, Present, States, RestStatuses, Typed, TypeOK
  <2>4. Sound(c, Frame(op, "read", m, j, Loaded(j)))
    BY <1>a, <2>2, <2>3 DEF Ops, PcsOf
  <2>5. fr' \in [Threads -> Frames] /\ Calls' BY <2>1, <2>4, <1>0, GotoCalls
  <2> QED BY <2>5 DEF RetryRead, DeleteRead, ViewRead, Call, Typed, TypeOK, db, disk, mem
<1>3. CASE \E m \in Managers, j \in Jobs : Cancel(c, m, j)
  BY <1>3 DEF Cancel, Call, Typed, TypeOK, Calls, db, disk
<1>4. CASE \E m \in Managers, j \in Jobs, p \in BOOLEAN : SetCurrent(c, m, j, p)
  <2> PICK m \in Managers, j \in Jobs, p \in BOOLEAN : SetCurrent(c, m, j, p) BY <1>4
  <2> DEFINE f == Frame("set", "file", m, j, Loaded(j))
             g == [f EXCEPT !.pick = j, !.ps = Loaded(j)]
  <2>1. Loaded(j) \in States /\ Loaded(j).status \in RestStatuses
    BY LoadedType, <1>0 DEF SetCurrent, Whole, RestStatuses
  <2>2. f \in Frames BY <2>1, FrameType DEF Ops, Pcs
  <2>3. g \in Frames BY <2>1, <2>2 DEF Frames
  <2>4. f.op = "set" /\ f.pc = "file" /\ f.mgr = m /\ f.job = j /\ f.stock = StockOf[j]
    BY DEF Frame, Idle
  <2>5. Goto(c, g) BY DEF SetCurrent
  <2> HIDE DEF f
  <2>6. Sound(c, g) BY <2>1, <2>2, <2>3, <2>4, <1>0 DEF Sound, Place, Copy, PcsOf, PromotePcs, Frames
  <2> HIDE DEF g
  <2>7. fr' \in [Threads -> Frames] /\ Calls' BY <2>5, <2>6, <1>0, GotoCalls
  <2> QED BY <2>7 DEF SetCurrent, Call, Typed, TypeOK, db, disk, mem
<1>5. CASE \E m \in Managers, s \in Stocks : Latest(c, m, s)
  <2> PICK m \in Managers, s \in Stocks : Latest(c, m, s) BY <1>5
  <2> DEFINE g == [Idle EXCEPT !.op = "latest", !.pc = "select", !.mgr = m, !.stock = s]
  <2>1. g \in Frames BY IdleType DEF Frames, Ops, Pcs
  <2>2. Sound(c, g) BY <2>1, <1>0 DEF Sound, Place, Copy, PcsOf, PromotePcs, Idle
  <2>3. Goto(c, g) BY DEF Latest
  <2> HIDE DEF g
  <2>4. fr' \in [Threads -> Frames] /\ Calls' BY <2>2, <2>3, <1>0, GotoCalls
  <2> QED BY <2>4 DEF Latest, Call, Typed, TypeOK, db, disk, mem
<1> QED BY <1>1, <1>2, <1>3, <1>4, <1>5 DEF Request

\* Handing a job to the pool: the caller is done, the task of the job is queued.
LEMMA SubmitTyped ==
  ASSUME Typed, NEW c \in Threads, CreateSubmit(c) \/ RetrySubmit(c) PROVE Typed'
<1> DEFINE f == fr[c]  t == <<f.mgr, f.job>>
<1>0. f \in Frames /\ Sound(c, f) /\ f.st \in States BY DEF Typed, Calls, Sound, Frames
<1>1. f.mgr \in Managers /\ f.job \in Jobs
  BY <1>0 DEF CreateSubmit, RetrySubmit, Sound, Place
<1>2. t \in Tasks /\ t \in Threads BY <1>1 DEF Tasks, Threads
<1>3. ASSUME NEW op \in {"run", "retry"}, NEW st \in States
      PROVE  Sound(t, Frame(op, "queued", f.mgr, f.job, st))
  <2>1. Frame(op, "queued", f.mgr, f.job, st) \in Frames BY <1>1, FrameType DEF Ops, Pcs
  <2>2. t \notin Callers /\ t # Main BY <1>2
  <2> QED BY <2>1, <2>2, <1>1, <1>2 DEF Sound, Place, Copy, Frame, Idle, PcsOf, PromotePcs
<1>4. \E g : /\ Sound(t, g)
             /\ fr' = [fr EXCEPT ![c] = Idle, ![t] = g]
  <2>1. CASE CreateSubmit(c) BY <2>1, <1>0, <1>3 DEF CreateSubmit
  <2>2. CASE RetrySubmit(c)
    <3>1. [f.st EXCEPT !.status = "RETRYING"] \in States BY <1>0 DEF States, ActiveStatuses
    <3> QED BY <2>2, <3>1, <1>3 DEF RetrySubmit
  <2> QED BY <2>1, <2>2
<1>5. PICK g : Sound(t, g) /\ fr' = [fr EXCEPT ![c] = Idle, ![t] = g] BY <1>4
<1> HIDE DEF f, t
<1>6. fr' \in [Threads -> Frames]
  BY <1>2, <1>5, IdleType DEF Typed, TypeOK, Sound
<1>7. Calls'
  BY <1>2, <1>5, IdleSound DEF Typed, TypeOK, Calls, Sound, Place, Copy
<1>8. CASE CreateSubmit(c)
  BY <1>1, <1>6, <1>7, <1>8 DEF CreateSubmit, Typed, TypeOK, db, disk, f
<1>9. CASE RetrySubmit(c)
  <2>1. [f.st EXCEPT !.status = "RETRYING"] \in States BY <1>0 DEF States, ActiveStatuses
  <2>2. rows' \in [Jobs -> States] BY <1>9, <2>1, SaveType DEF RetrySubmit, Typed, f
  <2> QED BY <2>2, <1>6, <1>7, <1>9 DEF RetrySubmit, Typed, TypeOK, disk, mem
<1> QED BY <1>8, <1>9

\* So do the steps of a retry.
LEMMA RetryTyped ==
  ASSUME Typed, NEW t \in Threads,
         \/ RetryStart(t) \/ RetryFetch(t) \/ RetrySync(t) \/ RetrySave(t)
         \/ RetryExported(t) \/ RetryRaise(t)
  PROVE  Typed'
<1> DEFINE f == fr[t]
<1>0. f \in Frames /\ Sound(t, f) /\ f.st \in States BY DEF Typed, Calls, Sound, Frames
<1>a. f.op = "retry" /\ f.job \in Jobs /\ t \in Tasks
  BY <1>0 DEF RetryStart, RetryFetch, RetrySync, RetrySave, RetryExported, RetryRaise,
              Sound, Place, Threads
<1>b. Loaded(f.job) \in States BY <1>a, LoadedType DEF Typed
<1> HIDE DEF f
<1>c. ASSUME NEW to \in {"fetch", "fetched", "resync", "export"}, NEW st \in States
      PROVE  Sound(t, [f EXCEPT !.pc = to, !.st = st])
  <2>1. [f EXCEPT !.pc = to, !.st = st] \in Frames BY <1>0, FrameSt DEF Pcs
  <2> QED BY <2>1, <1>0, <1>a DEF Sound, Place, Copy, Frames, PcsOf, PromotePcs
<1>d. ASSUME NEW to \in {"fetched", "export"} PROVE Sound(t, At(t, to))
  <2>1. At(t, to) = [f EXCEPT !.pc = to, !.st = f.st] BY <1>0 DEF At, f, Frames
  <2>2. to \in {"fetch", "fetched", "resync", "export"} /\ f.st \in States BY <1>0
  <2>3. Sound(t, [f EXCEPT !.pc = to, !.st = f.st]) BY <2>2, <1>c, Zenon
  <2> QED BY <2>1, <2>3, Zenon
<1>e. ASSUME NEW to \in {"select", "final"}, NEW st \in States, st.status \in RestStatuses
      PROVE  Sound(t, [f EXCEPT !.pc = to, !.st = st])
  <2>1. [f EXCEPT !.pc = to, !.st = st] \in Frames BY <1>0, FrameSt DEF Pcs
  <2> QED BY <2>1, <1>0, <1>a, <1>e DEF Sound, Place, Copy, Frames, PcsOf, PromotePcs
<1>1. CASE RetryStart(t)
  <2>1. \E g : Sound(t, g) /\ Goto(t, g)
    BY <1>1, <1>b, <1>c, IdleSound DEF RetryStart, f
  <2>2. fr' \in [Threads -> Frames] /\ Calls' BY <2>1, GotoCalls
  <2> QED BY <2>2, <1>1, <1>a DEF RetryStart, Typed, TypeOK, mem, db, f
<1>2. CASE RetryFetch(t)
  <2>1. fr' \in [Threads -> Frames] /\ Calls' BY <1>2, <1>d, GotoCalls DEF RetryFetch
  <2>2. groups' \in [Jobs -> Counts] BY <1>2 DEF RetryFetch, Typed, TypeOK, Refetched, Counts
  <2> QED BY <2>1, <2>2, <1>2 DEF RetryFetch, Typed, TypeOK, mem, disk
<1>3. CASE RetrySync(t)
  <2>1. [Loaded(f.job) EXCEPT !.groups = groups[f.job]] \in States
    BY <1>a, <1>b DEF States, Typed, TypeOK
  <2>2. \E g : Sound(t, g) /\ Goto(t, g) BY <1>3, <1>c, <2>1 DEF RetrySync, f
  <2>3. fr' \in [Threads -> Frames] /\ Calls' BY <2>2, GotoCalls
  <2> QED BY <2>3, <1>3 DEF RetrySync, Typed, TypeOK, mem, db, disk
<1>4. CASE RetrySave(t)
  <2>1. fr' \in [Threads -> Frames] /\ Calls' BY <1>4, <1>d, GotoCalls DEF RetrySave
  <2>2. rows' \in [Jobs -> States] BY <1>4, <1>0, SaveType DEF RetrySave, Typed, f
  <2> QED BY <2>1, <2>2, <1>4 DEF RetrySave, Typed, TypeOK, mem, disk
<1>5. CASE RetryExported(t)
  <2> DEFINE sc == [f.st EXCEPT !.status = "COMPLETED"]
             sp == [f.st EXCEPT !.status = "PARTIAL"]
             g1 == [f EXCEPT !.pc = "file", !.st = sc, !.pick = f.job, !.ps = sc]
             to == IF f.st.current THEN "select" ELSE "final"
             g2 == [f EXCEPT !.pc = to, !.st = sp]
  <2>1. sc \in States /\ sc.status \in RestStatuses BY <1>0 DEF States, RestStatuses
  <2>2. sp \in States /\ sp.status \in RestStatuses BY <1>0 DEF States, RestStatuses
  <2>3. Goto(t, g1) \/ Goto(t, [f EXCEPT !.pc = to, !.st.status = "PARTIAL"])
    BY <1>5 DEF RetryExported, f
  <2>4. [f EXCEPT !.pc = to, !.st.status = "PARTIAL"] = g2 BY <1>0 DEF Frames
  <2> HIDE DEF sc, sp
  <2>5. g1 \in Frames BY <2>1, <1>0, <1>a DEF Frames, Pcs
  <2>6. Sound(t, g1) BY <2>1, <2>5, <1>0, <1>a DEF Sound, Place, Copy, Frames, PcsOf, PromotePcs
  <2>7. Sound(t, g2) BY <2>2, <1>e
  <2> HIDE DEF g1, g2
  <2>8. fr' \in [Threads -> Frames] /\ Calls' BY <2>3, <2>4, <2>6, <2>7, GotoCalls
  <2> QED BY <2>8, <1>5 DEF RetryExported, Typed, TypeOK, mem, db, disk
<1>6. CASE RetryRaise(t)
  <2> DEFINE st == IF Present(f.job) THEN Loaded(f.job) ELSE f.st
             sr == [st EXCEPT !.status = Unfinished(st)]
  <2>1. st \in States BY <1>0, <1>b
  <2>2. Goto(t, [f EXCEPT !.pc = "final", !.st = sr]) BY <1>6 DEF RetryRaise, f
  <2> HIDE DEF st
  <2>3. sr \in States /\ sr.status \in RestStatuses BY <2>1, UnfinishedType DEF States
  <2> HIDE DEF sr
  <2>4. Sound(t, [f EXCEPT !.pc = "final", !.st = sr]) BY <2>3, <1>e
  <2>5. fr' \in [Threads -> Frames] /\ Calls' BY <2>2, <2>4, GotoCalls
  <2> QED BY <2>5, <1>6 DEF RetryRaise, Typed, TypeOK, mem, db, disk
<1> QED BY <1>1, <1>2, <1>3, <1>4, <1>5, <1>6

\* What a promotion leaves in the frame of each operation that ends in one.
LEMMA PromotedSound ==
  ASSUME Typed, NEW t \in Threads, fr[t].pc \in PromotePcs PROVE Sound(t, Promoted(fr[t]))
<1> DEFINE f == fr[t]
<1>0. f \in Frames /\ Sound(t, f) /\ f.st \in States BY DEF Typed, Calls, Sound, Frames
<1> f.pc \in PromotePcs OBVIOUS
<1> HIDE DEF f
<1>1. CASE f.op \in {"run", "retry"}
  <2> DEFINE st == [f.st EXCEPT !.current = (f.pick = f.job)]
             g  == [f EXCEPT !.pc = "final", !.st = st]
  <2>1. st \in States /\ st.status = f.st.status BY <1>0 DEF States
  <2>2. Promoted(f) = g BY <1>0, <1>1 DEF Promoted, Frames
  <2> HIDE DEF st
  <2>3. g \in Frames BY <1>0, <2>1, FrameSt DEF Pcs
  <2>4. Place(t, g)
    BY <2>3, <1>0, <1>1 DEF Sound, Place, Frames, PcsOf, PromotePcs
  <2>5. Copy(g)
    BY <2>1, <2>3, <1>0, <1>1 DEF Sound, Copy, Frames, PromotePcs
  <2> QED BY <2>2, <2>3, <2>4, <2>5 DEF f, Sound
<1>2. CASE f.op = "delete"
  <2> DEFINE g == [f EXCEPT !.pc = "release"]
  <2>1. Promoted(f) = g BY <1>2 DEF Promoted
  <2>2. g \in Frames BY <1>0, FramePc DEF Pcs
  <2>3. Sound(t, g) BY <2>2, <1>0, <1>2 DEF Sound, Place, Copy, Frames, PcsOf, PromotePcs
  <2> QED BY <2>1, <2>3 DEF f
<1>3. CASE f.op \notin {"run", "retry", "delete"}
  BY <1>3, IdleSound DEF Promoted, f
<1> QED BY <1>1, <1>2, <1>3

\* So do the writes of the pointer and of the fallback.
LEMMA PromoteTyped ==
  ASSUME Typed, NEW t \in Threads,
         \/ PtrFile(t) \/ PtrClear(t) \/ PtrMark(t)
         \/ FallbackSelect(t) \/ FallbackUnflag(t) \/ FallbackUnlink(t)
  PROVE  Typed'
<1> DEFINE f == fr[t]
<1>0. f \in Frames /\ Sound(t, f) /\ f.st \in States /\ f.ps \in States
  BY DEF Typed, Calls, Sound, Frames
<1>a. f.pc \in PromotePcs
  BY DEF PtrFile, PtrClear, PtrMark, FallbackSelect, FallbackUnflag, FallbackUnlink, PromotePcs
<1> HIDE DEF f
<1>b. f.op \in Ops \ {"none", "create", "view"} /\ f.pc \in PcsOf[f.op]
  BY <1>0, <1>a DEF Sound, Place, Frames, Ops, PcsOf, PromotePcs
<1>c. f.pc \in {"select", "unflag", "unlink"} => f.op \in {"retry", "latest", "boot", "delete"}
  BY <1>b DEF PcsOf, Ops
<1>d. ASSUME NEW to \in PromotePcs, to \in PcsOf[f.op], to # "unflag",
             to \in {"file", "clear", "mark"} => f.pick \in Jobs /\ f.ps.status \in RestStatuses
      PROVE  Sound(t, At(t, to))
  <2> DEFINE g == [f EXCEPT !.pc = to]
  <2>1. g \in Frames BY <1>0, FramePc DEF Pcs, PromotePcs
  <2>2. /\ g.pc = to /\ g.op = f.op /\ g.mgr = f.mgr /\ g.job = f.job
        /\ g.stock = f.stock /\ g.st = f.st /\ g.pick = f.pick /\ g.ps = f.ps
    BY <1>0 DEF Frames
  <2> HIDE DEF g
  <2>3. Place(t, g) BY <2>2, <1>0, <1>a, <1>d DEF Sound, Place, PromotePcs
  <2>4. Copy(g) BY <2>2, <1>0, <1>a, <1>b, <1>d DEF Sound, Copy, PromotePcs
  <2> QED BY <2>1, <2>3, <2>4 DEF Sound, At, f, g
<1>e. f.pc \in {"file", "clear", "mark"} \/ (f.pc = "unflag" /\ f.pick # None)
        => f.pick \in Jobs /\ f.ps.status \in RestStatuses
  BY <1>0 DEF Sound, Copy
<1>1. CASE PtrFile(t)
  <2>0. f.pc = "file" BY <1>1 DEF PtrFile, f
  <2>1. Sound(t, At(t, "clear"))
    <3>1. "clear" \in PcsOf[f.op] BY <2>0, <1>b DEF PcsOf, PromotePcs, Ops
    <3> QED BY <3>1, <2>0, <1>d, <1>e DEF PromotePcs
  <2>2. fr' \in [Threads -> Frames] /\ Calls' BY <2>1, <1>1, GotoCalls DEF PtrFile
  <2>3. pointer' \in [Stocks -> Jobs \cup {None}]
    BY <2>0, <1>1, <1>e DEF PtrFile, Typed, TypeOK, f
  <2> QED BY <2>2, <2>3, <1>1 DEF PtrFile, Typed, TypeOK, mem, db
<1>2. CASE PtrClear(t)
  <2>0. f.pc = "clear" BY <1>2 DEF PtrClear, f
  <2>1. Sound(t, At(t, "mark"))
    <3>1. "mark" \in PcsOf[f.op] BY <2>0, <1>b DEF PcsOf, PromotePcs, Ops
    <3> QED BY <3>1, <2>0, <1>d, <1>e DEF PromotePcs
  <2>2. fr' \in [Threads -> Frames] /\ Calls' BY <2>1, <1>2, GotoCalls DEF PtrClear
  <2>3. rows' \in [Jobs -> States]
    <3> DEFINE r(j) == [rows[j] EXCEPT !.current = (j = f.pick)]
    <3>1. rows' = [j \in Jobs |-> IF StockOf[j] = f.stock /\ Present(j) THEN r(j) ELSE rows[j]]
      BY <1>2 DEF PtrClear, f
    <3>2. ASSUME NEW j \in Jobs PROVE r(j) \in States /\ rows[j] \in States
      <4>1. rows[j] \in States BY DEF Typed, TypeOK
      <4> QED BY <4>1 DEF States
    <3> HIDE DEF r
    <3> QED BY <3>1, <3>2
  <2> QED BY <2>2, <2>3, <1>2 DEF PtrClear, Typed, TypeOK, mem, disk
<1>3. CASE PtrMark(t)
  <2>1. Goto(t, Promoted(f)) /\ Save(f.pick, [f.ps EXCEPT !.current = TRUE])
    BY <1>3 DEF PtrMark, f
  <2>2. [f.ps EXCEPT !.current = TRUE] \in States BY <1>0 DEF States
  <2>3. Sound(t, Promoted(f)) BY <1>a, PromotedSound DEF f
  <2>4. fr' \in [Threads -> Frames] /\ Calls' BY <2>1, <2>3, GotoCalls
  <2>5. rows' \in [Jobs -> States] BY <2>1, <2>2, SaveType DEF Typed
  <2> QED BY <2>4, <2>5, <1>3 DEF PtrMark, Typed, TypeOK, mem, disk
<1>4. CASE FallbackSelect(t)
  <2>0. f.pc = "select" BY <1>4 DEF FallbackSelect, f
  <2>1. ASSUME NEW g \in Frames, g.pc = "unflag", g.op = f.op, g.mgr = f.mgr, g.job = f.job,
               g.stock = f.stock, g.st = f.st, g.pick # None => g.ps.status \in RestStatuses
        PROVE  Sound(t, g)
    <3>1. "unflag" \in PcsOf[f.op] BY <2>0, <1>c DEF PcsOf, PromotePcs
    <3>2. Place(t, g) BY <2>1, <3>1, <1>0, <1>a DEF Sound, Place, PromotePcs
    <3>3. Copy(g) BY <2>1, <1>0, <1>a, <2>0, <1>c DEF Sound, Copy, PromotePcs, Frames
    <3> QED BY <3>2, <3>3 DEF Sound
  <2>2. ASSUME NEW j \in Jobs, Whole(rows[j])
        PROVE  Sound(t, [f EXCEPT !.pc = "unflag", !.pick = j, !.ps = rows[j]])
    <3> DEFINE g == [f EXCEPT !.pc = "unflag", !.pick = j, !.ps = rows[j]]
    <3>1. rows[j] \in States /\ rows[j].status \in RestStatuses
      BY <2>2 DEF Whole, RestStatuses, Typed, TypeOK
    <3>2. g \in Frames BY <3>1, <1>0 DEF Frames, Pcs
    <3> QED BY <2>1, <3>1, <3>2, <1>0 DEF Frames
  <2>3. Sound(t, [f EXCEPT !.pc = "unflag", !.pick = None])
    <3> DEFINE g == [f EXCEPT !.pc = "unflag", !.pick = None]
    <3>1. g \in Frames BY <1>0 DEF Frames, Pcs
    <3> QED BY <2>1, <3>1, <1>0 DEF Frames
  <2>4. \E g : Sound(t, g) /\ Goto(t, g) BY <2>2, <2>3, <1>4 DEF FallbackSelect, f
  <2>5. fr' \in [Threads -> Frames] /\ Calls' BY <2>4, GotoCalls
  <2> QED BY <2>5, <1>4 DEF FallbackSelect, Typed, TypeOK, mem, db, disk
<1>5. CASE FallbackUnflag(t)
  <2> DEFINE to == IF f.pick = None THEN "unlink" ELSE "file"
  <2>0. f.pc = "unflag" /\ Goto(t, At(t, to)) BY <1>5 DEF FallbackUnflag, f
  <2>1. Sound(t, At(t, to))
    <3>1. to \in PcsOf[f.op] BY <2>0, <1>c DEF PcsOf, PromotePcs
    <3> QED BY <3>1, <2>0, <1>d, <1>e DEF PromotePcs
  <2>2. fr' \in [Threads -> Frames] /\ Calls' BY <2>0, <2>1, GotoCalls
  <2>3. rows' \in [Jobs -> States]
    <3> DEFINE r(j) == [rows[j] EXCEPT !.current = FALSE]
    <3>1. rows' = [j \in Jobs |-> IF StockOf[j] = f.stock /\ Present(j) THEN r(j) ELSE rows[j]]
      BY <1>5 DEF FallbackUnflag, f
    <3>2. ASSUME NEW j \in Jobs PROVE r(j) \in States /\ rows[j] \in States
      <4>1. rows[j] \in States BY DEF Typed, TypeOK
      <4> QED BY <4>1 DEF States
    <3> HIDE DEF r
    <3> QED BY <3>1, <3>2
  <2> QED BY <2>2, <2>3, <1>5 DEF FallbackUnflag, Typed, TypeOK, mem, disk
<1>6. CASE FallbackUnlink(t)
  <2>1. Goto(t, Promoted(f)) BY <1>6 DEF FallbackUnlink, f
  <2>2. Sound(t, Promoted(f)) BY <1>a, PromotedSound DEF f
  <2>3. fr' \in [Threads -> Frames] /\ Calls' BY <2>1, <2>2, GotoCalls
  <2> QED BY <2>3, <1>6 DEF FallbackUnlink, Typed, TypeOK, mem, db
<1> QED BY <1>1, <1>2, <1>3, <1>4, <1>5, <1>6

\* So do the later steps of delete and of the views.
LEMMA CallerTyped ==
  ASSUME Typed, NEW t \in Threads,
         Lock(t) \/ ViewSync(t) \/ ViewSave(t) \/ DeleteMark(t) \/ DeleteFiles(t) \/ DeleteRows(t)
  PROVE  Typed'
<1> DEFINE f == fr[t]
<1>0. f \in Frames /\ Sound(t, f) /\ f.st \in States BY DEF Typed, Calls, Sound, Frames
<1>a. f.op \in {"retry", "delete", "view"} /\ f.mgr \in Managers /\ f.job \in Jobs
  BY <1>0 DEF Lock, ViewSync, ViewSave, DeleteMark, DeleteFiles, DeleteRows, Sound, Place
<1> HIDE DEF f
<1>b. ASSUME NEW g \in Frames, g.op = f.op, g.mgr = f.mgr, g.job = f.job, g.stock = f.stock,
             \/ f.op \in {"retry", "delete"} /\ f.pc = "read" /\ g.pc = "locked"
             \/ f.op = "view" /\ g.pc = "synced" /\ g.st.status = f.st.status
             \/ f.op = "delete" /\ g.pc \in {"marked", "gone", "release", "select"}
             \/ f.op = "delete" /\ g.pc = "final" /\ g.st.status \in RestStatuses
      PROVE  Sound(t, g)
  <2>1. t \in Tasks => f.op = "retry" /\ f.pc # "read" BY <1>0, <1>a DEF Sound, Place
  <2>2. g.pc \in PcsOf[g.op] BY <1>b DEF PcsOf, PromotePcs
  <2>3. t \notin Tasks /\ t # Main BY <2>1, <1>0, <1>a, <1>b DEF Sound, Place
  <2>4. g.stock = StockOf[g.job] BY <1>0, <1>a, <1>b DEF Sound, Place
  <2>5. f.op = "retry" => g.pc = "locked" BY <1>b
  <2>6. Place(t, g) BY <2>2, <2>3, <2>4, <2>5, <1>a, <1>b DEF Place
  <2>7. Copy(g) BY <1>0, <1>a, <1>b DEF Sound, Copy, PromotePcs
  <2> QED BY <2>6, <2>7 DEF Sound
<1>c. ASSUME NEW to \in {"locked", "marked", "gone", "release", "select"},
             \/ f.op \in {"retry", "delete"} /\ f.pc = "read" /\ to = "locked"
             \/ f.op = "delete" /\ to \in {"gone", "release", "select"}
      PROVE  Sound(t, At(t, to))
  <2> DEFINE g == [f EXCEPT !.pc = to]
  <2>1. g \in Frames BY <1>0, FramePc DEF Pcs
  <2>2. g.pc = to /\ g.op = f.op /\ g.mgr = f.mgr /\ g.job = f.job /\ g.stock = f.stock
    BY <1>0 DEF Frames
  <2> HIDE DEF g
  <2>3. Sound(t, g) BY <1>b, <1>c, <2>1, <2>2
  <2> QED BY <2>3 DEF At, f, g
<1>1. CASE Lock(t)
  <2>1. \/ Goto(t, Idle) /\ UNCHANGED active
        \/ Goto(t, At(t, "locked")) /\ active' = [active EXCEPT ![f.mgr] = @ \cup {f.job}]
    BY <1>1 DEF Lock, f
  <2>2. Sound(t, At(t, "locked")) BY <1>1, <1>c DEF Lock, f
  <2>3. fr' \in [Threads -> Frames] /\ Calls' BY <2>1, <2>2, IdleSound, GotoCalls
  <2>4. active' \in [Managers -> SUBSET Jobs] BY <2>1, <1>a DEF Typed, TypeOK
  <2> QED BY <2>3, <2>4, <1>1 DEF Lock, Typed, TypeOK, db, disk
<1>2. CASE ViewSync(t)
  <2> DEFINE st == [f.st EXCEPT !.groups = groups[f.job]]
             g  == [f EXCEPT !.pc = "synced", !.st = st]
  <2>1. st \in States /\ st.status = f.st.status BY <1>0, <1>a DEF States, Typed, TypeOK
  <2>2. Goto(t, Idle) \/ Goto(t, [f EXCEPT !.pc = "synced", !.st.groups = groups[f.job]])
    BY <1>2 DEF ViewSync, f
  <2>3. [f EXCEPT !.pc = "synced", !.st.groups = groups[f.job]] = g BY <1>0 DEF Frames
  <2> HIDE DEF st
  <2>4. g \in Frames BY <2>1, <1>0, FrameSt DEF Pcs
  <2>5. g.pc = "synced" /\ g.st = st /\ g.op = f.op /\ g.mgr = f.mgr /\ g.job = f.job
        /\ g.stock = f.stock
    BY <1>0 DEF Frames
  <2> HIDE DEF g
  <2>6. f.op = "view" BY <1>2 DEF ViewSync, f
  <2>7. Sound(t, g) BY <2>1, <2>4, <2>5, <2>6, <1>b
  <2>8. fr' \in [Threads -> Frames] /\ Calls' BY <2>2, <2>3, <2>7, IdleSound, GotoCalls
  <2> QED BY <2>8, <1>2 DEF ViewSync, Typed, TypeOK, db, disk, mem
<1>3. CASE ViewSave(t)
  <2>1. fr' \in [Threads -> Frames] /\ Calls' BY <1>3, IdleSound, GotoCalls DEF ViewSave
  <2>2. rows' \in [Jobs -> States] BY <1>3, <1>0, SaveType DEF ViewSave, Typed, f
  <2> QED BY <2>1, <2>2, <1>3 DEF ViewSave, Typed, TypeOK, disk, mem
<1>4. CASE DeleteMark(t)
  <2> DEFINE st == [f.st EXCEPT !.status = "DELETING"]
             g  == [f EXCEPT !.pc = "marked", !.st = st]
  <2>1. st \in States BY <1>0 DEF States, ActiveStatuses
  <2>2. Goto(t, g) /\ Save(f.job, st) /\ f.op = "delete" BY <1>4 DEF DeleteMark, f
  <2> HIDE DEF st
  <2>3. g \in Frames BY <2>1, <1>0, FrameSt DEF Pcs
  <2>4. g.pc = "marked" /\ g.op = f.op /\ g.mgr = f.mgr /\ g.job = f.job /\ g.stock = f.stock
    BY <1>0 DEF Frames
  <2> HIDE DEF g
  <2>5. Sound(t, g) BY <2>2, <2>3, <2>4, <1>b
  <2>6. fr' \in [Threads -> Frames] /\ Calls' BY <2>2, <2>5, GotoCalls
  <2>7. rows' \in [Jobs -> States] BY <2>1, <2>2, SaveType DEF Typed
  <2> QED BY <2>6, <2>7, <1>4 DEF DeleteMark, Typed, TypeOK, disk, mem
<1>5. CASE DeleteFiles(t)
  <2> DEFINE g == [f EXCEPT !.pc = "final", !.st.status = "DELETE_FAILED"]
             st == [f.st EXCEPT !.status = "DELETE_FAILED"]
  <2>1. g \in Frames BY <1>0, FrameStatus DEF Pcs, RestStatuses
  <2>2. g.pc = "final" /\ g.op = f.op /\ g.mgr = f.mgr /\ g.job = f.job /\ g.stock = f.stock
        /\ g.st = st
    BY <1>0 DEF Frames
  <2>3. st.status \in RestStatuses BY <1>0 DEF States, RestStatuses
  <2>4. f.op = "delete" /\ (Goto(t, g) \/ Goto(t, At(t, "gone"))) BY <1>5 DEF DeleteFiles, f
  <2> HIDE DEF g, st
  <2>5. Sound(t, g) BY <2>1, <2>2, <2>3, <2>4, <1>b
  <2>6. Sound(t, At(t, "gone")) BY <2>4, <1>c
  <2>7. fr' \in [Threads -> Frames] /\ Calls' BY <2>4, <2>5, <2>6, GotoCalls
  <2> QED BY <2>7, <1>5 DEF DeleteFiles, Typed, TypeOK, db, mem
<1>6. CASE DeleteRows(t)
  <2>1. f.op = "delete" /\ \E to \in {"select", "release"} : Goto(t, At(t, to))
    BY <1>6 DEF DeleteRows, f
  <2>2. fr' \in [Threads -> Frames] /\ Calls' BY <2>1, <1>c, GotoCalls
  <2>3. rows' \in [Jobs -> States] BY <1>6, AbsentType, SaveType DEF DeleteRows, Typed
  <2>4. groups' \in [Jobs -> Counts] BY <1>6 DEF DeleteRows, Typed, TypeOK, Counts
  <2>5. events' \in [Managers -> [Jobs -> {"none", "clear", "set"}]]
    BY <1>6, <1>a DEF DeleteRows, Typed, TypeOK, f
  <2> QED BY <2>2, <2>3, <2>4, <2>5, <1>6 DEF DeleteRows, Typed, TypeOK, disk
<1> QED BY <1>1, <1>2, <1>3, <1>4, <1>5, <1>6

\* So does the end of an operation.
LEMMA EndTyped ==
  ASSUME Typed, NEW t \in Threads, Final(t) \/ Release(t) PROVE Typed'
<1> DEFINE f == fr[t]
<1>0. f \in Frames /\ Sound(t, f) /\ f.st \in States BY DEF Typed, Calls, Sound, Frames
<1>1. f.op \in {"run", "retry", "delete"} /\ f.mgr \in Managers /\ f.job \in Jobs
  <2>1. f.pc \in {"final", "release"} /\ f.pc \in PcsOf[f.op] /\ f.op \in Ops
    BY <1>0 DEF Final, Release, Sound, Place, Frames
  <2>2. f.op \in {"run", "retry", "delete"} BY <2>1 DEF Ops, PcsOf, PromotePcs
  <2> QED BY <2>2, <1>0 DEF Sound, Place
<1>2. CASE Final(t)
  <2> DEFINE g == [f EXCEPT !.pc = "release"]
  <2>1. g \in Frames BY <1>0, FramePc DEF Pcs
  <2>2. g.pc = "release" /\ g.op = f.op /\ g.mgr = f.mgr /\ g.job = f.job /\ g.stock = f.stock
    BY <1>0 DEF Frames
  <2>3. Goto(t, g) BY <1>2 DEF Final, At
  <2>x. t \in Callers => f.op = "delete" BY <1>0, <1>1, <1>2 DEF Sound, Place, Final
  <2> HIDE DEF f, g
  <2>4. g.pc \in PcsOf[g.op] BY <2>2, <1>1 DEF PcsOf
  <2>5. Place(t, g) BY <2>2, <2>4, <2>x, <1>0, <1>1 DEF Sound, Place
  <2>6. Copy(g) BY <2>2, <1>1 DEF Copy, PromotePcs
  <2>7. fr' \in [Threads -> Frames] /\ Calls' BY <2>1, <2>3, <2>5, <2>6, GotoCalls DEF Sound
  <2>8. rows' \in [Jobs -> States] BY <1>0, <1>2, SaveType DEF Final, Typed, f
  <2> QED BY <2>7, <2>8, <1>2 DEF Final, Typed, TypeOK, disk, mem
<1>3. CASE Release(t)
  <2>1. fr' \in [Threads -> Frames] /\ Calls' BY <1>3, IdleSound, GotoCalls DEF Release
  <2>2. active' \in [Managers -> SUBSET Jobs] BY <1>1, <1>3 DEF Release, Typed, TypeOK
  <2>3. events' \in [Managers -> [Jobs -> {"none", "clear", "set"}]]
    BY <1>1, <1>3 DEF Release, Typed, TypeOK
  <2> QED BY <2>1, <2>2, <2>3, <1>3 DEF Release, Typed, TypeOK, db, disk
<1> QED BY <1>2, <1>3

\* So does a crash.
LEMMA CrashTyped == ASSUME Typed, Crash PROVE Typed'
<1>1. Calls' BY IdleSound DEF Crash, Calls, Sound, Place, Copy
<1>2. fr' \in [Threads -> Frames] BY IdleType DEF Crash
<1>3. boot' \in [jobs : SUBSET Jobs, stocks : SUBSET Stocks] BY DEF Crash
<1> QED BY <1>1, <1>2, <1>3 DEF Crash, Typed, TypeOK, db, disk

\* A repaired row is a row.
LEMMA RepairedType == ASSUME TypeOK, NEW j \in Jobs PROVE Repaired(j) \in States
<1> DEFINE st == Loaded(j)
           settled == IF st.status \in ActiveStatuses THEN Unfinished(st) ELSE st.status
           counted == [st EXCEPT !.status = settled, !.groups = groups[j]]
<1>1. st \in States BY LoadedType
<1>2. Repaired(j) = IF settled = "COMPLETED" /\ groups[j] # "complete"
                    THEN [counted EXCEPT !.status = Unfinished(counted)] ELSE counted
  BY DEF Repaired
<1> HIDE DEF st
<1>3. settled \in RestStatuses \cup {"ABSENT"} BY <1>1, UnfinishedType DEF States
<1> HIDE DEF settled
<1>4. counted \in States BY <1>1, <1>3 DEF States, TypeOK
<1> HIDE DEF counted
<1>5. [counted EXCEPT !.status = Unfinished(counted)] \in States
  BY <1>4, UnfinishedType DEF States
<1> QED BY <1>2, <1>4, <1>5

\* The start-up repair keeps types and shapes.
LEMMA BootTyped == ASSUME Typed, Boot PROVE Typed'
<1> USE DEF Threads
<1>1. ASSUME NEW j \in Jobs, BootRow(j) PROVE Typed'
  <2>1. rows' \in [Jobs -> States] BY <1>1, RepairedType, SaveType DEF BootRow, Typed
  <2>2. boot' \in [jobs : SUBSET Jobs, stocks : SUBSET Stocks] BY <1>1 DEF BootRow, Typed, TypeOK
  <2> QED BY <2>1, <2>2, <1>1 DEF BootRow, Typed, TypeOK, Calls, disk, mem
<1>2. ASSUME NEW s \in Stocks, BootStock(s) PROVE Typed'
  <2> DEFINE j == pointer[s]
             st == Loaded(j)
             g1 == [Idle EXCEPT !.op = "boot", !.pc = "file", !.stock = s, !.pick = j, !.ps = st]
             g2 == [Idle EXCEPT !.op = "boot", !.pc = "select", !.stock = s]
  <2>1. \/ Goto(Main, g1) /\ j # None /\ Whole(st)
        \/ Goto(Main, g2)
    BY <1>2 DEF BootStock
  <2>2. Sound(Main, g2)
    <3>1. g2 \in Frames BY IdleType DEF Frames, Ops, Pcs
    <3> QED BY <3>1 DEF Sound, Place, Copy, PcsOf, PromotePcs, Idle
  <2>3. ASSUME j # None, Whole(st) PROVE Sound(Main, g1)
    <3>1. j \in Jobs BY <2>3 DEF Typed, TypeOK
    <3>2. st \in States /\ st.status \in RestStatuses
      BY <3>1, <2>3, LoadedType DEF Typed, Whole, RestStatuses
    <3> HIDE DEF j, st
    <3>3. g1 \in Frames BY <3>1, <3>2, IdleType DEF Frames, Ops, Pcs
    <3>4. g1.op = "boot" /\ g1.pc = "file" /\ g1.pick = j /\ g1.ps = st BY DEF Idle
    <3> HIDE DEF g1
    <3>5. Place(Main, g1) /\ Copy(g1)
      BY <3>1, <3>2, <3>3, <3>4 DEF Place, Copy, PcsOf, PromotePcs
    <3> QED BY <3>3, <3>5 DEF Sound
  <2>4. \E g : Sound(Main, g) /\ Goto(Main, g) BY <2>1, <2>2, <2>3
  <2>5. fr' \in [Threads -> Frames] /\ Calls' BY <2>4, GotoCalls
  <2>6. boot' \in [jobs : SUBSET Jobs, stocks : SUBSET Stocks]
    BY <1>2 DEF BootStock, Typed, TypeOK
  <2> QED BY <2>5, <2>6, <1>2 DEF BootStock, Typed, TypeOK, db, disk, mem
<1> QED BY <1>1, <1>2 DEF Boot

\* Types and shapes hold initially.
LEMMA InitTyped == ASSUME Init PROVE Typed
  BY AbsentType, IdleType, IdleSound DEF Init, Typed, TypeOK, Calls, Counts

\* Every step keeps types and shapes.
LEMMA NextTyped == ASSUME Typed, [Next]_vars PROVE Typed'
<1>1. CASE \E c \in Callers : Request(c) BY <1>1, RequestTyped
<1>2. CASE \E t \in Threads : Start(t) \/ Step(t)
  BY <1>2, SubmitTyped, RunTyped, RetryTyped, PromoteTyped, CallerTyped, EndTyped DEF Start, Step
<1>3. CASE Boot BY <1>3, BootTyped
<1>4. CASE Crash BY <1>4, CrashTyped
<1>5. CASE UNCHANGED vars
  BY <1>5 DEF vars, Typed, TypeOK, Calls
<1> QED BY <1>1, <1>2, <1>3, <1>4, <1>5 DEF Next, Rest

\* Every reachable state of the task centre is well typed, for any jobs, stocks,
\* managers, server threads and pool sizes.
THEOREM TypeInvariant == Spec => []TypeOK
<1>1. Init => Typed BY InitTyped
<1>2. Typed /\ [Next]_vars => Typed' BY NextTyped
<1>3. Typed => TypeOK BY DEF Typed
<1> QED BY <1>1, <1>2, <1>3, PTL DEF Spec

----------------------------------------------------------------------------
(* The inductive invariant behind ManagerExclusion and BusyIsExecuting.    *)

\* A job id that was not handed out has no row and no call knows it.
Fresh ==
  \A j \in Jobs \ born : ~Present(j) /\ \A t \in Threads : fr[t].job # j /\ fr[t].pick # j

\* Requests and tasks wait for the start-up repair.
RepairAlone ==
  ~Serving => \A t \in Threads \ {Main} : fr[t].op = "none"

\* Between the insertion of a job and its submission nobody but its creator has
\* got past the lock: whoever read the row, read an active status.
CreatorAlone ==
  \A c \in Threads : fr[c].op = "create" =>
    /\ rows[fr[c].job].status \in ActiveStatuses /\ fr[c].job \in born
    /\ \A t \in Threads \ {c} :
         /\ fr[t].pick # fr[c].job
         /\ fr[t].job = fr[c].job =>
              fr[t].op \in {"retry", "delete"} /\ fr[t].pc = "read" /\ fr[t].st.status \in ActiveStatuses

\* Who executes a job is in the active set.
HoldersActive == \A t \in Threads : Holds(t) => fr[t].job \in active[fr[t].mgr]

Locked == Typed /\ Fresh /\ RepairAlone /\ CreatorAlone /\ HoldersActive /\ ManagerExclusion

\* Working: executing, and the row not yet given its last status.
Working(f) ==
  \/ f.op = "create"
  \/ /\ f.op \in {"run", "retry", "delete"}
     /\ f.pc \notin {"idle", "read", "release"}
     /\ ~(f.op = "delete" /\ f.pc \in PromotePcs)

\* An active status is the status of a job somebody works on, or is still to be repaired.
BusyIsWorked ==
  \A j \in Jobs : rows[j].status \in ActiveStatuses =>
    j \in boot.jobs \/ \E t \in Threads : fr[t].job = j /\ Working(fr[t])

----------------------------------------------------------------------------
(* Every step of a call past its lock does the same few things to what the *)
(* invariant speaks of.                                                    *)

\* The call goes on, with the same operation on the same job, or ends.
Follows(f, g) ==
  g = Idle \/ /\ g.op = f.op /\ g.mgr = f.mgr /\ g.job = f.job
              /\ g.pc \notin {"idle", "read"} /\ f.pc # "release"

\* It picks no job but its own, the one it has or a completed one.
Picks(f, g) ==
  g.pick \in {None, f.job, f.pick} \/ (g.pick \in Jobs /\ rows[g.pick].status = "COMPLETED")

\* It changes no status but that of its job and its pick, makes none active but
\* that of the job it goes on working on, and leaves its job with a last status.
Statuses(f, g) ==
  /\ \A j \in Jobs : rows'[j].status # rows[j].status => j \in {f.job, f.pick}
  /\ \A j \in Jobs : rows'[j].status \in ActiveStatuses =>
       rows[j].status \in ActiveStatuses \/ (j = f.job /\ Working(g))
  /\ Working(f) /\ ~Working(g) => rows'[f.job].status \notin ActiveStatuses

Quiet(t) ==
  LET f == fr[t]  g == fr'[t] IN
  /\ f.op \notin {"none", "create"}
  /\ f.op \in {"retry", "delete"} => f.pc # "read"
  /\ fr' = [fr EXCEPT ![t] = g]
  /\ Follows(f, g) /\ Picks(f, g) /\ Statuses(f, g)
  /\ active' = IF f.pc = "release" THEN [active EXCEPT ![f.mgr] = @ \ {f.job}] ELSE active
  /\ UNCHANGED <<born, boot>>

\* A thread at rest holds nothing.
LEMMA IdleFrame ==
  /\ Idle.op = "none" /\ Idle.pc = "idle" /\ Idle.job = None /\ Idle.pick = None
  /\ ~Working(Idle)
  BY DEF Idle, Working

\* What a step does to the frames.
LEMMA GotoFrame ==
  ASSUME Typed, NEW t \in Threads, NEW g, Goto(t, g)
  PROVE  fr'[t] = g /\ fr' = [fr EXCEPT ![t] = fr'[t]]
  BY DEF Typed, TypeOK, Goto

\* What a save does to the statuses.
LEMMA SaveStatus ==
  ASSUME Typed, NEW j \in Jobs, NEW st, Save(j, st)
  PROVE  rows'[j].status = st.status /\ \A k \in Jobs \ {j} : rows'[k] = rows[k]
  BY DEF Typed, TypeOK, Save

\* A step that writes at most the row of its own job.
LEMMA OwnRow ==
  ASSUME Typed, NEW t \in Threads, NEW g, NEW st, Goto(t, g), fr[t].job \in Jobs,
         Follows(fr[t], g), Picks(fr[t], g),
         \/ UNCHANGED rows /\ (Working(fr[t]) => Working(g))
         \/ Save(fr[t].job, st) /\ (st.status \in ActiveStatuses => Working(g)),
         fr[t].op \notin {"none", "create"},
         fr[t].op \in {"retry", "delete"} => fr[t].pc # "read",
         fr[t].pc # "release", UNCHANGED <<active, born, boot>>
  PROVE  Quiet(t)
<1>1. fr'[t] = g /\ fr' = [fr EXCEPT ![t] = fr'[t]] BY GotoFrame
<1>2. Statuses(fr[t], g)
  <2>1. CASE UNCHANGED rows /\ (Working(fr[t]) => Working(g)) BY <2>1 DEF Statuses
  <2>2. CASE Save(fr[t].job, st) /\ (st.status \in ActiveStatuses => Working(g))
    BY <2>2, SaveStatus DEF Statuses
  <2> QED BY <2>1, <2>2
<1> QED BY <1>1, <1>2 DEF Quiet

\* The same call, wherever it is.
Same(f, g) == g.op = f.op /\ g.mgr = f.mgr /\ g.job = f.job

\* The steps of a run are quiet.
LEMMA RunQuiet ==
  ASSUME Typed, NEW t \in Threads,
         RunStart(t) \/ RunProgress(t) \/ RunReturn(t) \/ RunExported(t) \/ RunRaise(t)
  PROVE  Quiet(t)
<1> DEFINE f == fr[t]  g == fr'[t]
<1>0. f \in Frames /\ Sound(t, f) BY DEF Typed, Calls, Sound
<1>1. f.op = "run" /\ f.pc \in {"queued", "fetch", "export"} /\ f.job \in Jobs
  BY <1>0 DEF RunStart, RunProgress, RunReturn, RunExported, RunRaise, Sound, Place
<1>2. /\ Same(f, g) /\ g.pc \in {"fetch", "export", "final", "file"}
      /\ g.pick \in {f.pick, f.job}
  <2> DEFINE h == g
  <2>0. \A x : Goto(t, x) => h = x BY GotoFrame
  <2> HIDE DEF f, h
  <2> SUFFICES /\ Same(f, h) /\ h.pc \in {"fetch", "export", "final", "file"}
               /\ h.pick \in {f.pick, f.job}
    BY DEF h
  <2>1. CASE RunStart(t) BY <2>1, <2>0, <1>0 DEF RunStart, Same, Frames, f
  <2>2. CASE RunProgress(t) BY <2>2, <2>0, <1>0 DEF RunProgress, Same, Frames, f
  <2>3. CASE RunReturn(t) BY <2>3, <2>0, <1>0 DEF RunReturn, Same, Frames, f
  <2>4. CASE RunExported(t) BY <2>4, <2>0, <1>0 DEF RunExported, Same, Frames, f
  <2>5. CASE RunRaise(t) BY <2>5, <2>0, <1>0 DEF RunRaise, Same, Frames, f
  <2> QED BY <2>1, <2>2, <2>3, <2>4, <2>5
<1>3. \E st : UNCHANGED rows \/ Save(f.job, st)
  BY DEF RunStart, RunProgress, RunReturn, RunExported, RunRaise, db
<1>4. UNCHANGED <<active, born, boot>>
  BY DEF RunStart, RunProgress, RunReturn, RunExported, RunRaise, mem
<1>7. Goto(t, g)
  <2>1. \A x : Goto(t, x) => Goto(t, g) BY GotoFrame DEF Goto
  <2> HIDE DEF f, g
  <2> QED BY <2>1 DEF RunStart, RunProgress, RunReturn, RunExported, RunRaise
<1> HIDE DEF f, g
<1>5. Working(g) BY <1>1, <1>2 DEF Working, Same
<1>6. Follows(f, g) /\ Picks(f, g) BY <1>1, <1>2 DEF Follows, Picks, Same
<1> QED BY <1>1, <1>2, <1>3, <1>4, <1>5, <1>6, <1>7, OwnRow DEF f

\* So are the steps of a retry.
LEMMA RetryQuiet ==
  ASSUME Typed, NEW t \in Threads,
         \/ RetryStart(t) \/ RetryFetch(t) \/ RetrySync(t) \/ RetrySave(t)
         \/ RetryExported(t) \/ RetryRaise(t)
  PROVE  Quiet(t)
<1> DEFINE f == fr[t]  g == fr'[t]
<1>0. f \in Frames /\ Sound(t, f) BY DEF Typed, Calls, Sound
<1>1. f.op = "retry" /\ f.pc \in {"queued", "fetch", "fetched", "resync", "export"} /\ f.job \in Jobs
  BY <1>0 DEF RetryStart, RetryFetch, RetrySync, RetrySave, RetryExported, RetryRaise, Sound, Place
<1>2. CASE RetryStart(t) /\ ~Present(f.job)
  <2>1. Goto(t, Idle) BY <1>2 DEF RetryStart
  <2>2. g = Idle /\ fr' = [fr EXCEPT ![t] = g] BY <2>1, GotoFrame
  <2>3. UNCHANGED <<rows, active, born, boot>> BY <1>2 DEF RetryStart, db, mem
  <2>4. Statuses(f, g) BY <1>2, <2>3 DEF Statuses, Present, ActiveStatuses
  <2>5. Follows(f, g) /\ Picks(f, g) BY <2>2, IdleFrame DEF Follows, Picks
  <2> QED BY <1>1, <2>2, <2>3, <2>4, <2>5 DEF Quiet
<1>3. CASE ~(RetryStart(t) /\ ~Present(f.job))
  <2>1. /\ Same(f, g) /\ g.pc \in {"fetch", "fetched", "resync", "export", "final", "file", "select"}
        /\ g.pick \in {f.pick, f.job}
    <3> DEFINE h == g
    <3>0. \A x : Goto(t, x) => h = x BY GotoFrame
    <3>a. RetryStart(t) => Present(f.job) BY <1>3
    <3> HIDE DEF f, h
    <3> SUFFICES /\ Same(f, h)
                 /\ h.pc \in {"fetch", "fetched", "resync", "export", "final", "file", "select"}
                 /\ h.pick \in {f.pick, f.job}
      BY DEF h
    <3>1. CASE RetryStart(t) BY <3>1, <3>0, <3>a, <1>0 DEF RetryStart, Same, Frames, f
    <3>2. CASE RetryFetch(t) BY <3>2, <3>0, <1>0 DEF RetryFetch, At, Same, Frames, f
    <3>3. CASE RetrySync(t) BY <3>3, <3>0, <1>0 DEF RetrySync, Same, Frames, f
    <3>4. CASE RetrySave(t) BY <3>4, <3>0, <1>0 DEF RetrySave, At, Same, Frames, f
    <3>5. CASE RetryExported(t)
      <4>1. \/ \E st : h = [f EXCEPT !.pc = "file", !.st = st, !.pick = f.job, !.ps = st]
            \/ \E to \in {"select", "final"} : h = [f EXCEPT !.pc = to, !.st.status = "PARTIAL"]
        BY <3>5, <3>0 DEF RetryExported, f
      <4> QED BY <4>1, <1>0 DEF Same, Frames
    <3>6. CASE RetryRaise(t) BY <3>6, <3>0, <1>0 DEF RetryRaise, Same, Frames, f
    <3> QED BY <3>1, <3>2, <3>3, <3>4, <3>5, <3>6
  <2>2. \E st : UNCHANGED rows \/ Save(f.job, st)
    BY DEF RetryStart, RetryFetch, RetrySync, RetrySave, RetryExported, RetryRaise, db
  <2>3. UNCHANGED <<active, born, boot>>
    BY DEF RetryStart, RetryFetch, RetrySync, RetrySave, RetryExported, RetryRaise, mem
  <2>6. Goto(t, g)
    <3>1. \A x : Goto(t, x) => Goto(t, g) BY GotoFrame DEF Goto
    <3> HIDE DEF f, g
    <3> QED BY <3>1 DEF RetryStart, RetryFetch, RetrySync, RetrySave, RetryExported, RetryRaise
  <2> HIDE DEF f, g
  <2>4. Working(g) BY <1>1, <2>1 DEF Working, Same
  <2>5. Follows(f, g) /\ Picks(f, g) BY <1>1, <2>1 DEF Follows, Picks, Same
  <2> QED BY <1>1, <2>1, <2>2, <2>3, <2>4, <2>5, <2>6, OwnRow DEF f
<1> QED BY <1>2, <1>3

\* So are the later steps of delete and of the views.
LEMMA CallerQuiet ==
  ASSUME Typed, NEW t \in Threads,
         ViewSync(t) \/ ViewSave(t) \/ DeleteMark(t) \/ DeleteFiles(t) \/ DeleteRows(t)
  PROVE  Quiet(t)
<1> DEFINE f == fr[t]  g == fr'[t]
<1>0. f \in Frames /\ Sound(t, f) /\ f.st \in States BY DEF Typed, Calls, Sound, Frames
<1> HIDE DEF g
<1>a. \A x : Goto(t, x) => g = x BY GotoFrame DEF g
<1>b. Goto(t, g)
  <2>1. \A x : Goto(t, x) => Goto(t, g) BY GotoFrame DEF Goto, g
  <2> HIDE DEF f
  <2> QED BY <2>1 DEF ViewSync, ViewSave, DeleteMark, DeleteFiles, DeleteRows
<1>1. CASE ViewSync(t) \/ ViewSave(t)
  <2>1. f.op = "view" /\ f.job \in Jobs /\ f.pc # "release" /\ f.st.status \in RestStatuses
    BY <1>1, <1>0 DEF ViewSync, ViewSave, Sound, Place, Copy
  <2>2. (g = Idle \/ (Same(f, g) /\ g.pc = "synced" /\ g.pick = f.pick))
    <3> HIDE DEF f
    <3>1. CASE ViewSync(t) BY <3>1, <1>a, <1>0 DEF ViewSync, Same, Frames, f
    <3>2. CASE ViewSave(t) BY <3>2, <1>a DEF ViewSave
    <3> QED BY <3>1, <3>2, <1>1
  <2>3. UNCHANGED rows \/ Save(f.job, f.st) BY <1>1 DEF ViewSync, ViewSave, db
  <2>4. UNCHANGED <<active, born, boot>> BY <1>1 DEF ViewSync, ViewSave, mem
  <2>5. f.st.status \notin ActiveStatuses BY <2>1 DEF RestStatuses, ActiveStatuses
  <2> HIDE DEF f
  <2>6. Follows(f, g) /\ Picks(f, g) BY <2>1, <2>2, IdleFrame DEF Follows, Picks, Same
  <2>7. ~Working(f) BY <2>1 DEF Working
  <2> QED BY <1>b, <2>1, <2>2, <2>3, <2>4, <2>5, <2>6, <2>7, OwnRow DEF f
<1>2. CASE DeleteMark(t) \/ DeleteFiles(t) \/ DeleteRows(t)
  <2>1. f.op = "delete" /\ f.job \in Jobs /\ f.pc \in {"locked", "marked", "gone"}
    BY <1>2, <1>0 DEF DeleteMark, DeleteFiles, DeleteRows, Sound, Place
  <2>2. /\ Same(f, g) /\ g.pick = f.pick
        /\ g.pc \in {"marked", "gone", "final", "select", "release"}
        /\ g.pc \in {"select", "release"} => DeleteRows(t)
    <3> HIDE DEF f
    <3>1. CASE DeleteMark(t) BY <3>1, <1>a, <1>0 DEF DeleteMark, Same, Frames, f
    <3>2. CASE DeleteFiles(t) BY <3>2, <1>a, <1>0 DEF DeleteFiles, At, Same, Frames, f
    <3>3. CASE DeleteRows(t)
      <4>1. Goto(t, [f EXCEPT !.pc = IF f.st.current THEN "select" ELSE "release"])
        BY <3>3 DEF DeleteRows, At, f
      <4> QED BY <4>1, <3>3, <1>a, <1>0 DEF Same, Frames
    <3> QED BY <3>1, <3>2, <3>3, <1>2
  <2>3. \/ ~DeleteRows(t) /\ \E st : UNCHANGED rows \/ Save(f.job, st)
        \/ Save(f.job, Absent)
    BY <1>2 DEF DeleteMark, DeleteFiles, DeleteRows, db
  <2>4. UNCHANGED <<active, born, boot>> BY <1>2 DEF DeleteMark, DeleteFiles, DeleteRows, mem
  <2>5. Absent.status \notin ActiveStatuses BY DEF Absent, ActiveStatuses
  <2> HIDE DEF f
  <2>6. Follows(f, g) /\ Picks(f, g) BY <2>1, <2>2 DEF Follows, Picks, Same
  <2>7. g.pc \in {"marked", "gone", "final"} => Working(g)
    BY <2>1, <2>2 DEF Working, Same, PromotePcs
  <2> QED BY <1>b, <2>1, <2>2, <2>3, <2>4, <2>5, <2>6, <2>7, OwnRow DEF f
<1> QED BY <1>1, <1>2

\* So is the end of an operation.
LEMMA EndQuiet ==
  ASSUME Typed, NEW t \in Threads, Final(t) \/ Release(t) PROVE Quiet(t)
<1> DEFINE f == fr[t]  g == fr'[t]
<1>0. f \in Frames /\ Sound(t, f) BY DEF Typed, Calls, Sound
<1>1. f.pc \in {"final", "release"} /\ f.op \in Ops /\ f.pc \in PcsOf[f.op]
  BY <1>0 DEF Final, Release, Sound, Place, Frames
<1>2. f.op \in {"run", "retry", "delete"} BY <1>1 DEF Ops, PcsOf, PromotePcs
<1>3. f.job \in Jobs BY <1>0, <1>2 DEF Sound, Place
<1>4. CASE Final(t)
  <2>1. Goto(t, [f EXCEPT !.pc = "release"]) /\ Save(f.job, f.st)
        /\ f.pc = "final" /\ UNCHANGED <<active, born, boot>>
    BY <1>4 DEF Final, At, mem
  <2>2. g = [f EXCEPT !.pc = "release"] BY <2>1, GotoFrame
  <2>3. f.st.status \notin ActiveStatuses
    BY <2>1, <1>0 DEF Sound, Copy, RestStatuses, ActiveStatuses
  <2> HIDE DEF f, g
  <2>4. Same(f, g) /\ g.pc = "release" /\ g.pick = f.pick BY <2>2, <1>0 DEF Same, Frames
  <2>5. Follows(f, g) /\ Picks(f, g) BY <2>1, <2>4 DEF Follows, Picks, Same
  <2> QED BY <1>2, <1>3, <2>1, <2>2, <2>3, <2>5, OwnRow DEF f
<1>5. CASE Release(t)
  <2>1. Goto(t, Idle) /\ f.pc = "release" /\ UNCHANGED <<rows, born, boot>>
        /\ active' = [active EXCEPT ![f.mgr] = @ \ {f.job}]
    BY <1>5 DEF Release, db
  <2>2. g = Idle /\ fr' = [fr EXCEPT ![t] = g] BY <2>1, GotoFrame
  <2>3. ~Working(f) BY <2>1, <1>2 DEF Working
  <2>4. Statuses(f, g) BY <2>1, <2>3 DEF Statuses
  <2>5. Follows(f, g) /\ Picks(f, g) BY <2>2, IdleFrame DEF Follows, Picks
  <2> QED BY <1>2, <2>1, <2>2, <2>4, <2>5 DEF Quiet
<1> QED BY <1>4, <1>5

\* So are the writes of the pointer and of the fallback.
LEMMA PromoteQuiet ==
  ASSUME Typed, NEW t \in Threads,
         \/ PtrFile(t) \/ PtrClear(t) \/ PtrMark(t)
         \/ FallbackSelect(t) \/ FallbackUnflag(t) \/ FallbackUnlink(t)
  PROVE  Quiet(t)
<1> DEFINE f == fr[t]  g == fr'[t]
<1>0. f \in Frames /\ Sound(t, f) /\ f.ps \in States BY DEF Typed, Calls, Sound, Frames
<1>1. f.pc \in PromotePcs
  BY DEF PtrFile, PtrClear, PtrMark, FallbackSelect, FallbackUnflag, FallbackUnlink, PromotePcs
<1>2. f.op \in Ops \ {"none", "create", "view"}
  BY <1>0, <1>1 DEF Sound, Place, Frames, Ops, PcsOf, PromotePcs
<1> HIDE DEF g
<1>3. Goto(t, g) /\ fr' = [fr EXCEPT ![t] = g]
  <2>1. \A x : Goto(t, x) => Goto(t, g) /\ fr' = [fr EXCEPT ![t] = g] BY GotoFrame DEF Goto, g
  <2> HIDE DEF f
  <2> QED BY <2>1 DEF PtrFile, PtrClear, PtrMark, FallbackSelect, FallbackUnflag, FallbackUnlink
<1>4. UNCHANGED <<active, born, boot>>
  BY DEF PtrFile, PtrClear, PtrMark, FallbackSelect, FallbackUnflag, FallbackUnlink, mem
<1>5. \A j \in Jobs : \/ rows'[j].status = rows[j].status
                      \/ j = f.pick /\ rows'[j].status \notin ActiveStatuses
  <2>1. CASE PtrFile(t) \/ FallbackSelect(t) \/ FallbackUnlink(t)
    BY <2>1 DEF PtrFile, FallbackSelect, FallbackUnlink, db
  <2>2. CASE PtrClear(t) \/ FallbackUnflag(t)
    <3>1. \A j \in Jobs : rows[j] \in States BY DEF Typed, TypeOK
    <3>2. \A j \in Jobs : \E b : rows'[j] = [rows[j] EXCEPT !.current = b] \/ rows'[j] = rows[j]
      BY <2>2 DEF PtrClear, FallbackUnflag
    <3> QED BY <3>1, <3>2 DEF States
  <2>3. CASE PtrMark(t)
    <3>1. f.pick \in Jobs /\ f.ps.status \in RestStatuses
      BY <2>3, <1>0 DEF PtrMark, Sound, Copy
    <3>2. Save(f.pick, [f.ps EXCEPT !.current = TRUE]) BY <2>3 DEF PtrMark
    <3>3. [f.ps EXCEPT !.current = TRUE].status = f.ps.status BY <1>0 DEF States
    <3> QED BY <3>1, <3>2, <3>3, SaveStatus DEF RestStatuses, ActiveStatuses
  <2> QED BY <2>1, <2>2, <2>3
<1>6. \/ g = Idle /\ f.op \notin {"run", "retry", "delete"}
      \/ /\ Same(f, g) /\ g.pc \in PromotePcs \cup {"final", "release"}
         /\ g.pc = "release" => f.op = "delete"
         /\ Picks(f, g)
  <2> DEFINE Ok == \/ g = Idle /\ f.op \notin {"run", "retry", "delete"}
                   \/ /\ Same(f, g) /\ g.pc \in PromotePcs \cup {"final", "release"}
                      /\ g.pc = "release" => f.op = "delete"
                      /\ Picks(f, g)
  <2>a. \A x : Goto(t, x) => g = x BY GotoFrame DEF g
  <2> HIDE DEF f
  <2>b. ASSUME NEW to \in PromotePcs, g = [f EXCEPT !.pc = to] PROVE Ok
    BY <2>b, <1>0 DEF Same, Frames, Picks, PromotePcs
  <2>c. ASSUME g = Promoted(f) PROVE Ok
    <3>1. CASE f.op \in {"run", "retry"}
      <4>1. g = [f EXCEPT !.pc = "final", !.st.current = (f.pick = f.job)]
        BY <3>1, <2>c DEF Promoted
      <4>2. Same(f, g) /\ g.pc = "final" /\ g.pick = f.pick BY <4>1, <1>0 DEF Same, Frames
      <4> QED BY <4>2 DEF Picks
    <3>2. CASE f.op = "delete"
      <4>1. g = [f EXCEPT !.pc = "release"] BY <3>2, <2>c DEF Promoted
      <4>2. Same(f, g) /\ g.pc = "release" /\ g.pick = f.pick BY <4>1, <1>0 DEF Same, Frames
      <4> QED BY <4>2, <3>2 DEF Picks
    <3>3. CASE f.op \notin {"run", "retry", "delete"} BY <3>3, <2>c DEF Promoted
    <3> QED BY <3>1, <3>2, <3>3
  <2>1. CASE PtrFile(t)
    <3>1. g = [f EXCEPT !.pc = "clear"] BY <2>1, <2>a DEF PtrFile, At, f
    <3> QED BY <3>1, <2>b DEF PromotePcs
  <2>2. CASE PtrClear(t)
    <3>1. g = [f EXCEPT !.pc = "mark"] BY <2>2, <2>a DEF PtrClear, At, f
    <3> QED BY <3>1, <2>b DEF PromotePcs
  <2>3. CASE PtrMark(t) BY <2>3, <2>a, <2>c DEF PtrMark, f
  <2>4. CASE FallbackSelect(t)
    <3>1. \/ \E j \in Jobs : /\ rows[j].status = "COMPLETED"
                             /\ g = [f EXCEPT !.pc = "unflag", !.pick = j, !.ps = rows[j]]
          \/ g = [f EXCEPT !.pc = "unflag", !.pick = None]
      BY <2>4, <2>a DEF FallbackSelect, Whole, f
    <3>2. CASE \E j \in Jobs : /\ rows[j].status = "COMPLETED"
                               /\ g = [f EXCEPT !.pc = "unflag", !.pick = j, !.ps = rows[j]]
      BY <3>2, <1>0 DEF Same, Frames, Picks, PromotePcs
    <3>3. CASE g = [f EXCEPT !.pc = "unflag", !.pick = None]
      BY <3>3, <1>0 DEF Same, Frames, Picks, PromotePcs
    <3> QED BY <3>1, <3>2, <3>3
  <2>5. CASE FallbackUnflag(t)
    <3>1. \E to \in {"unlink", "file"} : g = [f EXCEPT !.pc = to]
      BY <2>5, <2>a DEF FallbackUnflag, At, f
    <3> QED BY <3>1, <2>b DEF PromotePcs
  <2>6. CASE FallbackUnlink(t) BY <2>6, <2>a, <2>c DEF FallbackUnlink, f
  <2> QED BY <2>1, <2>2, <2>3, <2>4, <2>5, <2>6
<1> HIDE DEF f
<1>7. Follows(f, g) /\ Picks(f, g)
  BY <1>1, <1>6, IdleFrame DEF Follows, Picks, Same, PromotePcs
<1>8. Working(f) => Working(g) BY <1>1, <1>2, <1>6 DEF Working, Same, PromotePcs
<1>9. Statuses(f, g) BY <1>5, <1>8 DEF Statuses
<1> QED BY <1>1, <1>2, <1>3, <1>4, <1>7, <1>9 DEF Quiet, PromotePcs, f, g

----------------------------------------------------------------------------
(* Each kind of step preserves the invariant.                              *)

\* A quiet step keeps the locks.
LEMMA QuietLocked ==
  ASSUME Locked, Typed', NEW t \in Threads, Quiet(t) PROVE Locked'
<1> DEFINE f == fr[t]  g == fr'[t]
<1>0. Sound(t, f) /\ rows \in [Jobs -> States] /\ fr \in [Threads -> Frames] /\ Sound(t, g)
  BY DEF Locked, Typed, TypeOK, Calls
<1>1. /\ f.op \notin {"none", "create"}
      /\ f.op \in {"retry", "delete"} => f.pc # "read"
      /\ Follows(f, g) /\ Picks(f, g) /\ Statuses(f, g)
      /\ born' = born /\ boot' = boot
      /\ active' = IF f.pc = "release" THEN [active EXCEPT ![f.mgr] = @ \ {f.job}] ELSE active
  BY DEF Quiet
<1>2. \A u \in Threads \ {t} : fr'[u] = fr[u] BY <1>0 DEF Quiet
<1>3. Fresh'
  <2> SUFFICES ASSUME NEW j \in Jobs \ born PROVE ~Present(j)' /\ \A u \in Threads : fr'[u].job # j /\ fr'[u].pick # j
    BY <1>1 DEF Fresh
  <2>1. ~Present(j) /\ \A u \in Threads : fr[u].job # j /\ fr[u].pick # j BY DEF Locked, Fresh
  <2>2. ~Present(j)' BY <2>1, <1>1 DEF Statuses, Present
  <2>3. g.job # j BY <2>1, <1>1, IdleFrame DEF Follows
  <2>4. g.pick # j BY <2>1, <1>1 DEF Picks, Present
  <2> QED BY <2>1, <2>2, <2>3, <2>4, <1>2
<1>4. RepairAlone'
  <2> SUFFICES ASSUME ~Serving', NEW u \in Threads \ {Main} PROVE fr'[u].op = "none"
    BY DEF RepairAlone
  <2>1. CASE Serving
    <3>1. fr[Main].pc = "idle" /\ fr'[Main].pc # "idle" BY <2>1, <1>1 DEF Serving
    <3>2. t = Main BY <3>1, <1>2 DEF Threads
    <3>3. f.pc # "idle" BY <1>0, <1>1 DEF Sound, Place, PcsOf, PromotePcs, Frames, Ops
    <3> QED BY <3>1, <3>2, <3>3
  <2>2. CASE ~Serving
    <3>1. \A v \in Threads \ {Main} : fr[v].op = "none" BY <2>2 DEF Locked, RepairAlone
    <3>2. t = Main BY <3>1, <1>1
    <3> QED BY <3>1, <3>2, <1>2
  <2> QED BY <2>1, <2>2
<1>5. CreatorAlone'
  <2> SUFFICES ASSUME NEW c \in Threads, fr'[c].op = "create"
               PROVE  /\ rows'[fr'[c].job].status \in ActiveStatuses /\ fr'[c].job \in born
                      /\ \A u \in Threads \ {c} :
                           /\ fr'[u].pick # fr'[c].job
                           /\ fr'[u].job = fr'[c].job =>
                                fr'[u].op \in {"retry", "delete"} /\ fr'[u].pc = "read" /\ fr'[u].st.status \in ActiveStatuses
    BY <1>1 DEF CreatorAlone
  <2> DEFINE j == fr[c].job
  <2>1. c # t BY <1>1, IdleFrame DEF Follows
  <2>2. fr'[c] = fr[c] /\ fr[c].op = "create" BY <2>1, <1>2
  <2>3. j \in Jobs BY <2>2 DEF Locked, Typed, Calls, Sound, Place
  <2>4. /\ rows[j].status \in ActiveStatuses /\ j \in born
        /\ \A u \in Threads \ {c} :
             /\ fr[u].pick # j
             /\ fr[u].job = j =>
                  fr[u].op \in {"retry", "delete"} /\ fr[u].pc = "read" /\ fr[u].st.status \in ActiveStatuses
    BY <2>2 DEF Locked, CreatorAlone
  <2> HIDE DEF j
  <2>5. f.job # j /\ f.pick # j BY <2>1, <2>4, <1>1
  <2>6. rows'[j].status = rows[j].status BY <2>3, <2>5, <1>1 DEF Statuses
  <2>7. g.job # j BY <2>3, <2>5, <1>1, IdleFrame DEF Follows
  <2>8. g.pick # j BY <2>3, <2>4, <2>5, <1>1 DEF Picks, ActiveStatuses
  <2> QED BY <2>2, <2>4, <2>6, <2>7, <2>8, <1>2 DEF j
<1>6. HoldersActive'
  <2> SUFFICES ASSUME NEW u \in Threads, Holds(u)' PROVE fr'[u].job \in active'[fr'[u].mgr]
    BY DEF HoldersActive
  <2>0. active \in [Managers -> SUBSET Jobs] BY DEF Locked, Typed, TypeOK
  <2>1. CASE u = t
    <3>1. g # Idle BY <2>1, IdleFrame DEF Holds
    <3>2. g.op = f.op /\ g.mgr = f.mgr /\ g.job = f.job /\ f.pc # "release" BY <3>1, <1>1 DEF Follows
    <3>3. f.pc # "idle" /\ (f.op = "run" => f.pc # "read")
      BY <1>0, <1>1 DEF Sound, Place, PcsOf, PromotePcs, Frames, Ops
    <3>4. Holds(t) BY <2>1, <3>2, <3>3, <1>1 DEF Holds
    <3> QED BY <2>1, <3>2, <3>4, <1>1 DEF Locked, HoldersActive
  <2>2. CASE u # t
    <3>1. fr'[u] = fr[u] /\ Holds(u) BY <2>2, <1>2 DEF Holds
    <3>2. fr[u].job \in active[fr[u].mgr] BY <3>1 DEF Locked, HoldersActive
    <3>3. CASE f.pc = "release"
      <4>1. f.op \in {"run", "retry", "delete"}
        BY <3>3, <1>0 DEF Sound, Place, PcsOf, PromotePcs, Frames, Ops
      <4>2. Holds(t) BY <3>3, <4>1 DEF Holds
      <4>3. fr[u].mgr = f.mgr => fr[u].job # f.job
        BY <2>2, <3>1, <4>2 DEF Locked, ManagerExclusion
      <4> QED BY <2>0, <3>1, <3>2, <3>3, <4>3, <1>1
    <3> QED BY <3>1, <3>2, <3>3, <1>1
  <2> QED BY <2>1, <2>2
<1>7. ManagerExclusion'
  <2> SUFFICES ASSUME NEW u \in Threads, NEW v \in Threads, u # v, Holds(u)', Holds(v)',
                      fr'[u].mgr = fr'[v].mgr
               PROVE  fr'[u].job # fr'[v].job
    BY DEF ManagerExclusion
  <2>1. \A w \in Threads : Holds(w)' => Holds(w) /\ fr'[w].mgr = fr[w].mgr /\ fr'[w].job = fr[w].job
    <3> SUFFICES ASSUME NEW w \in Threads, Holds(w)'
                 PROVE  Holds(w) /\ fr'[w].mgr = fr[w].mgr /\ fr'[w].job = fr[w].job
      OBVIOUS
    <3>1. CASE w = t
      <4>1. g # Idle BY <3>1, IdleFrame DEF Holds
      <4>2. g.op = f.op /\ g.mgr = f.mgr /\ g.job = f.job BY <4>1, <1>1 DEF Follows
      <4>3. f.pc # "idle" /\ (f.op = "run" => f.pc # "read")
        BY <1>0, <1>1 DEF Sound, Place, PcsOf, PromotePcs, Frames, Ops
      <4> QED BY <3>1, <4>2, <4>3, <1>1 DEF Holds
    <3>2. CASE w # t BY <3>2, <1>2 DEF Holds
    <3> QED BY <3>1, <3>2
  <2> QED BY <2>1 DEF Locked, ManagerExclusion
<1> QED BY <1>3, <1>4, <1>5, <1>6, <1>7 DEF Locked

\* A quiet step leaves no busy row without its executor.
LEMMA QuietWorked ==
  ASSUME Typed, BusyIsWorked, NEW t \in Threads, Quiet(t) PROVE BusyIsWorked'
<1> DEFINE f == fr[t]  g == fr'[t]
<1>1. /\ f.op \notin {"none", "create"} /\ Follows(f, g) /\ Statuses(f, g) /\ boot' = boot
  BY DEF Quiet
<1>2. \A u \in Threads \ {t} : fr'[u] = fr[u] BY DEF Quiet, Typed, TypeOK
<1> SUFFICES ASSUME NEW j \in Jobs, rows'[j].status \in ActiveStatuses, j \notin boot.jobs
             PROVE  \E u \in Threads : fr'[u].job = j /\ Working(fr'[u])
  BY <1>1 DEF BusyIsWorked
<1>3. CASE rows[j].status \in ActiveStatuses
  <2>1. PICK u \in Threads : fr[u].job = j /\ Working(fr[u]) BY <1>3 DEF BusyIsWorked
  <2>2. CASE u # t BY <2>1, <2>2, <1>2
  <2>3. CASE u = t
    <3>1. Working(g) BY <2>1, <2>3, <1>1 DEF Statuses
    <3>2. g.job = f.job BY <3>1, <1>1, IdleFrame DEF Follows
    <3> QED BY <2>1, <2>3, <3>1, <3>2
  <2> QED BY <2>2, <2>3
<1>4. CASE rows[j].status \notin ActiveStatuses
  <2>1. j = f.job /\ Working(g) BY <1>4, <1>1 DEF Statuses
  <2>2. g.job = f.job BY <2>1, <1>1, IdleFrame DEF Follows
  <2> QED BY <2>1, <2>2
<1> QED BY <1>3, <1>4

\* A request that has read what it needs and holds nothing.
Arrives(c, g) ==
  /\ Serving /\ fr[c].op = "none"
  /\ fr' = [fr EXCEPT ![c] = g]
  /\ UNCHANGED <<rows, active, born, boot>>
  /\ g.op \in {"retry", "delete", "view", "set", "latest"}
  /\ g.job # None => g.job \in Jobs /\ Present(g.job)
  /\ \/ /\ g.op \in {"retry", "delete"} /\ g.pc = "read"
        /\ g.pick = None /\ g.st = Loaded(g.job)
     \/ /\ g.op \notin {"retry", "delete"} /\ g.pick \in {None, g.job}
        /\ g.job # None => rows[g.job].status \notin ActiveStatuses

\* A request that only begins keeps the locks.
LEMMA ArriveLocked ==
  ASSUME Locked, Typed', NEW c \in Callers, NEW g, Arrives(c, g) PROVE Locked'
<1>0. /\ c \in Threads /\ c # Main /\ rows \in [Jobs -> States] /\ fr \in [Threads -> Frames]
  BY DEF Locked, Typed, TypeOK, Threads
<1>1. fr'[c] = g /\ \A u \in Threads \ {c} : fr'[u] = fr[u] BY <1>0 DEF Arrives
<1>2. UNCHANGED <<rows, active, born, boot>> BY DEF Arrives
<1>3. Fresh'
  <2> SUFFICES ASSUME NEW j \in Jobs \ born
               PROVE  ~Present(j)' /\ \A u \in Threads : fr'[u].job # j /\ fr'[u].pick # j
    BY <1>2 DEF Fresh
  <2>1. ~Present(j) /\ \A u \in Threads : fr[u].job # j /\ fr[u].pick # j BY DEF Locked, Fresh
  <2>2. g.job # j /\ g.pick # j BY <2>1 DEF Arrives
  <2> QED BY <2>1, <2>2, <1>1, <1>2 DEF Present
<1>4. Serving' BY <1>0, <1>1, <1>2 DEF Arrives, Serving, Threads
<1>5. RepairAlone' BY <1>4 DEF RepairAlone
<1>6. CreatorAlone'
  <2> SUFFICES ASSUME NEW d \in Threads, fr'[d].op = "create"
               PROVE  /\ rows'[fr'[d].job].status \in ActiveStatuses /\ fr'[d].job \in born
                      /\ \A u \in Threads \ {d} :
                           /\ fr'[u].pick # fr'[d].job
                           /\ fr'[u].job = fr'[d].job =>
                                fr'[u].op \in {"retry", "delete"} /\ fr'[u].pc = "read" /\ fr'[u].st.status \in ActiveStatuses
    BY <1>2 DEF CreatorAlone
  <2> DEFINE j == fr[d].job
  <2>1. d # c BY <1>1 DEF Arrives
  <2>2. fr'[d] = fr[d] BY <2>1, <1>1
  <2>3. j \in Jobs BY <2>2 DEF Locked, Typed, Calls, Sound, Place
  <2>4. /\ rows[j].status \in ActiveStatuses /\ j \in born
        /\ \A u \in Threads \ {d} :
             /\ fr[u].pick # j
             /\ fr[u].job = j =>
                  fr[u].op \in {"retry", "delete"} /\ fr[u].pc = "read" /\ fr[u].st.status \in ActiveStatuses
    BY <2>2 DEF Locked, CreatorAlone
  <2> HIDE DEF j
  <2>5. g.pick # j BY <2>3, <2>4 DEF Arrives
  <2>6. g.job = j => g.op \in {"retry", "delete"} /\ g.pc = "read" /\ g.st.status \in ActiveStatuses
    BY <2>3, <2>4 DEF Arrives, Loaded, ActiveStatuses
  <2> QED BY <2>2, <2>4, <2>5, <2>6, <1>1, <1>2 DEF j
<1>7. \A u \in Threads : Holds(u)' => Holds(u) /\ fr'[u] = fr[u]
  BY <1>1 DEF Holds, Arrives
<1>8. HoldersActive' BY <1>2, <1>7 DEF Locked, HoldersActive
<1>9. ManagerExclusion' BY <1>7 DEF Locked, ManagerExclusion
<1> QED BY <1>3, <1>5, <1>6, <1>8, <1>9 DEF Locked

\* A request that only begins leaves every executor alone.
LEMMA ArriveWorked ==
  ASSUME Typed, BusyIsWorked, NEW c \in Callers, NEW g, Arrives(c, g) PROVE BusyIsWorked'
<1>1. c \in Threads /\ ~Working(fr[c]) BY DEF Threads, Arrives, Working
<1>2. \A u \in Threads : Working(fr[u]) => fr'[u] = fr[u] BY <1>1 DEF Arrives, Typed, TypeOK
<1> QED BY <1>2 DEF BusyIsWorked, Arrives

\* Taking the lock: nobody else has the job in this manager.
LEMMA LockLocked ==
  ASSUME Locked, Typed', NEW c \in Threads, Lock(c) PROVE Locked' /\ (BusyIsWorked => BusyIsWorked')
<1> DEFINE f == fr[c]  g == fr'[c]
<1>0. /\ rows \in [Jobs -> States] /\ fr \in [Threads -> Frames]
      /\ f \in Frames /\ Sound(c, f) /\ active \in [Managers -> SUBSET Jobs]
  BY DEF Locked, Typed, TypeOK, Calls, Sound
<1>1. f.op \in {"retry", "delete"} /\ f.pc = "read" /\ UNCHANGED <<rows, born, boot>>
  BY DEF Lock, db
<1>2. f.mgr \in Managers /\ f.job \in Jobs BY <1>0, <1>1 DEF Sound, Place
<1>3. \A u \in Threads \ {c} : fr'[u] = fr[u] BY <1>0 DEF Lock, Goto
<1>4. \/ g = Idle /\ UNCHANGED active
      \/ /\ ~Busy(f) /\ Same(f, g) /\ g.pc = "locked" /\ g.pick = f.pick
         /\ active' = [active EXCEPT ![f.mgr] = @ \cup {f.job}]
  <2> HIDE DEF f
  <2>1. \/ Goto(c, Idle) /\ UNCHANGED active
        \/ /\ ~Busy(f) /\ Goto(c, [f EXCEPT !.pc = "locked"])
           /\ active' = [active EXCEPT ![f.mgr] = @ \cup {f.job}]
    BY DEF Lock, At, f
  <2>2. \A x : Goto(c, x) => g = x BY GotoFrame DEF Locked
  <2> HIDE DEF g
  <2> QED BY <2>1, <2>2, <1>0 DEF Same, Frames
<1> HIDE DEF f, g
<1>5. Fresh'
  <2> SUFFICES ASSUME NEW j \in Jobs \ born
               PROVE  ~Present(j)' /\ \A u \in Threads : fr'[u].job # j /\ fr'[u].pick # j
    BY <1>1 DEF Fresh
  <2>1. ~Present(j) /\ \A u \in Threads : fr[u].job # j /\ fr[u].pick # j BY DEF Locked, Fresh
  <2>2. g.job # j /\ g.pick # j BY <2>1, <1>4, IdleFrame DEF Same, f
  <2> QED BY <2>1, <2>2, <1>1, <1>3 DEF Present, g
<1>6. Serving /\ Serving'
  <2>1. c # Main BY <1>0, <1>1 DEF Sound, Place
  <2>2. Serving BY <2>1, <1>1 DEF Locked, RepairAlone, f
  <2> QED BY <2>1, <2>2, <1>1, <1>3 DEF Serving, Threads
<1>7. CreatorAlone'
  <2> SUFFICES ASSUME NEW d \in Threads, fr'[d].op = "create"
               PROVE  /\ rows'[fr'[d].job].status \in ActiveStatuses /\ fr'[d].job \in born
                      /\ \A u \in Threads \ {d} :
                           /\ fr'[u].pick # fr'[d].job
                           /\ fr'[u].job = fr'[d].job =>
                                fr'[u].op \in {"retry", "delete"} /\ fr'[u].pc = "read" /\ fr'[u].st.status \in ActiveStatuses
    BY <1>1 DEF CreatorAlone
  <2> DEFINE j == fr[d].job
  <2>1. d # c BY <1>1, <1>4, IdleFrame DEF Same, g
  <2>2. fr'[d] = fr[d] BY <2>1, <1>3
  <2>3. j \in Jobs BY <2>2 DEF Locked, Typed, Calls, Sound, Place
  <2>4. /\ rows[j].status \in ActiveStatuses /\ j \in born
        /\ \A u \in Threads \ {d} :
             /\ fr[u].pick # j
             /\ fr[u].job = j =>
                  fr[u].op \in {"retry", "delete"} /\ fr[u].pc = "read" /\ fr[u].st.status \in ActiveStatuses
    BY <2>2 DEF Locked, CreatorAlone
  <2> HIDE DEF j
  <2>5. f.pick # j /\ (f.job = j => Busy(f)) BY <2>1, <2>4 DEF Busy, f
  <2>6. g.pick # j /\ g.job # j BY <2>3, <2>5, <1>4, IdleFrame DEF Same
  <2> QED BY <2>2, <2>4, <2>6, <1>1, <1>3 DEF j, g
<1>8. \A u \in Threads \ {c} : Holds(u)' <=> Holds(u) BY <1>3 DEF Holds
<1>9. ~Holds(c) /\ (Holds(c)' => Same(f, g) /\ f.job \notin active[f.mgr]
                                 /\ active' = [active EXCEPT ![f.mgr] = @ \cup {f.job}])
  BY <1>1, <1>4, IdleFrame DEF Holds, Busy, f, g
<1>10. HoldersActive'
  <2> SUFFICES ASSUME NEW u \in Threads, Holds(u)' PROVE fr'[u].job \in active'[fr'[u].mgr]
    BY DEF HoldersActive
  <2>1. CASE u = c BY <2>1, <1>0, <1>2, <1>9 DEF Same, g
  <2>2. CASE u # c
    <3>1. fr'[u] = fr[u] /\ fr[u].job \in active[fr[u].mgr] BY <2>2, <1>3, <1>8 DEF Locked, HoldersActive
    <3>2. Holds(u) BY <2>2, <1>8
    <3>3. fr[u].mgr \in Managers BY <3>2 DEF Locked, Typed, Calls, Sound, Place, Holds
    <3> QED BY <3>1, <3>3, <1>0, <1>4
  <2> QED BY <2>1, <2>2
<1>11. ManagerExclusion'
  <2>1. \A u \in Threads \ {c} : Holds(u)' /\ Holds(c)' => ~(fr'[u].mgr = g.mgr /\ fr'[u].job = g.job)
    BY <1>3, <1>8, <1>9 DEF Locked, HoldersActive, Same
  <2>2. \A u, v \in Threads \ {c} : u # v /\ Holds(u)' /\ Holds(v)' /\ fr'[u].mgr = fr'[v].mgr
                                      => fr'[u].job # fr'[v].job
    BY <1>3, <1>8 DEF Locked, ManagerExclusion
  <2> QED BY <2>1, <2>2 DEF ManagerExclusion, g
<1>12. BusyIsWorked => BusyIsWorked'
  <2>1. ~Working(fr[c]) BY <1>1 DEF Working, f
  <2>2. \A u \in Threads : Working(fr[u]) => fr'[u] = fr[u] BY <2>1, <1>3
  <2> QED BY <2>2, <1>1 DEF BusyIsWorked
<1> QED BY <1>5, <1>6, <1>7, <1>10, <1>11, <1>12 DEF Locked, RepairAlone

\* The fields of a frame that begins.
LEMMA FrameFields ==
  ASSUME NEW op, NEW to, NEW m, NEW j, NEW st
  PROVE  LET f == Frame(op, to, m, j, st) IN
         f.op = op /\ f.pc = to /\ f.mgr = m /\ f.job = j /\ f.st = st /\ f.pick = None
  BY DEF Frame, Idle

\* A thread at rest has no operation.
LEMMA IdleOp == ASSUME Typed, NEW t \in Threads, fr[t].pc = "idle" PROVE fr[t].op = "none"
<1>1. fr[t] \in Frames /\ Place(t, fr[t]) BY DEF Typed, Calls, Sound
<1> QED BY <1>1 DEF Place, PcsOf, PromotePcs, Frames, Ops

\* While the repair runs nobody creates, executes or works on anything.
LEMMA RepairQuiet ==
  ASSUME Locked, ~Serving, NEW t \in Threads
  PROVE  fr[t].op # "create" /\ ~Holds(t) /\ ~Working(fr[t])
<1>1. CASE t = Main BY <1>1 DEF Locked, Typed, Calls, Sound, Place, Holds, Working
<1>2. CASE t # Main
  <2>1. fr[t].op = "none" BY <1>2 DEF Locked, RepairAlone
  <2> QED BY <2>1 DEF Holds, Working
<1> QED BY <1>1, <1>2

\* Handing a job to the pool: its task was free.
LEMMA SubmitLocked ==
  ASSUME Locked, Typed', NEW c \in Threads, CreateSubmit(c) \/ RetrySubmit(c)
  PROVE  Locked' /\ (BusyIsWorked => BusyIsWorked')
<1> DEFINE f == fr[c]  t == <<f.mgr, f.job>>  h == fr'[t]
<1>0. /\ rows \in [Jobs -> States] /\ fr \in [Threads -> Frames]
      /\ f \in Frames /\ Sound(c, f) /\ active \in [Managers -> SUBSET Jobs]
  BY DEF Locked, Typed, TypeOK, Calls, Sound
<1>1. /\ f.mgr \in Managers /\ f.job \in Jobs /\ c \in Callers
      /\ \/ f.op = "create"
         \/ f.op = "retry" /\ f.pc = "locked" /\ Holds(c)
  BY <1>0 DEF CreateSubmit, RetrySubmit, Sound, Place, Threads, Holds
<1>2. t \in Tasks /\ t \in Threads /\ c # t BY <1>1 DEF Tasks, Threads
<1>3. /\ h.op \in {"run", "retry"} /\ h.pc = "queued" /\ h.mgr = f.mgr /\ h.job = f.job
      /\ h.pick = None /\ fr'[c] = Idle
      /\ \A u \in Threads \ {c, t} : fr'[u] = fr[u]
  <2>1. PICK op, st : op \in {"run", "retry"} /\
          fr' = [fr EXCEPT ![c] = Idle, ![t] = Frame(op, "queued", f.mgr, f.job, st)]
    BY DEF CreateSubmit, RetrySubmit
  <2> HIDE DEF f, t
  <2>2. h = Frame(op, "queued", f.mgr, f.job, st) BY <2>1, <1>0, <1>2
  <2>3. fr'[c] = Idle /\ \A u \in Threads \ {c, t} : fr'[u] = fr[u] BY <2>1, <1>0, <1>2
  <2> HIDE DEF h
  <2>4. op \in {"run", "retry"} BY <2>1
  <2>5. /\ h.op = op /\ h.pc = "queued" /\ h.mgr = f.mgr /\ h.job = f.job /\ h.pick = None
    BY <2>2, FrameFields
  <2> QED BY <2>3, <2>4, <2>5
<1>4. /\ born' = born /\ boot' = boot
      /\ \A j \in Jobs \ {f.job} : rows'[j] = rows[j]
      /\ \/ active' = [active EXCEPT ![f.mgr] = @ \cup {f.job}]
         \/ active' = active /\ Holds(c)
  <2>1. CASE CreateSubmit(c) BY <2>1 DEF CreateSubmit, db
  <2>2. CASE RetrySubmit(c) BY <2>2, <1>0, <1>1 DEF RetrySubmit, mem, Save
  <2> QED BY <2>1, <2>2
<1> HIDE DEF h
<1>5. Fresh'
  <2> SUFFICES ASSUME NEW j \in Jobs \ born
               PROVE  ~Present(j)' /\ \A u \in Threads : fr'[u].job # j /\ fr'[u].pick # j
    BY <1>4 DEF Fresh
  <2>1. ~Present(j) /\ \A u \in Threads : fr[u].job # j /\ fr[u].pick # j BY DEF Locked, Fresh
  <2>2. f.job # j BY <2>1
  <2>3. ~Present(j)' BY <2>1, <2>2, <1>4 DEF Present
  <2> QED BY <2>1, <2>2, <2>3, <1>3, IdleFrame DEF h
<1>6. RepairAlone'
  <2>1. c # Main /\ t # Main BY <1>1, <1>2
  <2>2. Serving BY <2>1, <1>1 DEF Locked, RepairAlone
  <2>3. Serving' BY <2>1, <2>2, <1>3, <1>4 DEF Serving, Threads
  <2> QED BY <2>3 DEF RepairAlone
<1>a. \A u \in Threads \ {c} : fr[u].job = f.job /\ Holds(u) => fr[u].mgr # f.mgr
  BY <1>1 DEF Locked, CreatorAlone, ManagerExclusion, Holds
<1>7. CreatorAlone'
  <2> SUFFICES ASSUME NEW d \in Threads, fr'[d].op = "create"
               PROVE  /\ rows'[fr'[d].job].status \in ActiveStatuses /\ fr'[d].job \in born
                      /\ \A u \in Threads \ {d} :
                           /\ fr'[u].pick # fr'[d].job
                           /\ fr'[u].job = fr'[d].job =>
                                fr'[u].op \in {"retry", "delete"} /\ fr'[u].pc = "read" /\ fr'[u].st.status \in ActiveStatuses
    BY <1>4 DEF CreatorAlone
  <2> DEFINE j == fr[d].job
  <2>1. d # c /\ d # t BY <1>3, IdleFrame DEF h
  <2>2. fr'[d] = fr[d] BY <2>1, <1>3
  <2>3. j \in Jobs BY <2>2 DEF Locked, Typed, Calls, Sound, Place
  <2>4. /\ rows[j].status \in ActiveStatuses /\ j \in born
        /\ \A u \in Threads \ {d} :
             /\ fr[u].pick # j
             /\ fr[u].job = j =>
                  fr[u].op \in {"retry", "delete"} /\ fr[u].pc = "read" /\ fr[u].st.status \in ActiveStatuses
    BY <2>2 DEF Locked, CreatorAlone
  <2> HIDE DEF j
  <2>5. f.job # j BY <2>1, <2>4, <1>1
  <2>6. \A u \in Threads \ {d, c, t} : fr'[u] = fr[u] BY <1>3
  <2>7. h.job # j /\ h.pick # j /\ Idle.job # j /\ Idle.pick # j BY <2>3, <2>5, <1>3, IdleFrame
  <2> QED BY <2>2, <2>3, <2>4, <2>5, <2>6, <2>7, <1>3, <1>4 DEF j, h
<1>8. \A u \in Threads : Holds(u)' => u # c /\ (u # t => Holds(u) /\ fr'[u] = fr[u])
  BY <1>3, IdleFrame DEF Holds
<1>9. HoldersActive'
  <2> SUFFICES ASSUME NEW u \in Threads, Holds(u)' PROVE fr'[u].job \in active'[fr'[u].mgr]
    BY DEF HoldersActive
  <2>1. CASE u = t
    <3>1. f.job \in active'[f.mgr] BY <1>0, <1>1, <1>4 DEF Locked, HoldersActive
    <3> QED BY <2>1, <3>1, <1>3 DEF h
  <2>2. CASE u # t
    <3>1. fr'[u] = fr[u] /\ Holds(u) BY <2>2, <1>8
    <3>2. fr[u].job \in active[fr[u].mgr] BY <3>1 DEF Locked, HoldersActive
    <3>3. fr[u].mgr \in Managers BY <3>1 DEF Locked, Typed, Calls, Sound, Place, Holds
    <3> QED BY <3>1, <3>2, <3>3, <1>0, <1>4
  <2> QED BY <2>1, <2>2
<1>10. ManagerExclusion'
  <2>1. \A u \in Threads \ {t} : Holds(u)' => ~(fr'[u].mgr = f.mgr /\ fr'[u].job = f.job)
    BY <1>8, <1>a
  <2>2. \A u, v \in Threads \ {t} : u # v /\ Holds(u)' /\ Holds(v)' /\ fr'[u].mgr = fr'[v].mgr
                                      => fr'[u].job # fr'[v].job
    BY <1>8 DEF Locked, ManagerExclusion
  <2>3. fr'[t].mgr = f.mgr /\ fr'[t].job = f.job BY <1>3 DEF h
  <2> HIDE DEF f, t
  <2> QED BY <2>1, <2>2, <2>3 DEF ManagerExclusion
<1>11. BusyIsWorked => BusyIsWorked'
  <2> SUFFICES ASSUME BusyIsWorked, NEW j \in Jobs, rows'[j].status \in ActiveStatuses, j \notin boot.jobs
               PROVE  \E u \in Threads : fr'[u].job = j /\ Working(fr'[u])
    BY <1>4 DEF BusyIsWorked
  <2>1. CASE j = f.job
    <3>1. fr'[t].job = j /\ Working(fr'[t]) BY <2>1, <1>3 DEF Working, h
    <3> QED BY <3>1, <1>2
  <2>2. CASE j # f.job
    <3>1. PICK u \in Threads : fr[u].job = j /\ Working(fr[u]) BY <2>2, <1>4 DEF BusyIsWorked
    <3>2. u # c BY <3>1, <2>2
    <3>3. u # t
      <4> SUFFICES ASSUME u = t PROVE FALSE OBVIOUS
      <4>1. fr[t].op # "none" BY <3>1 DEF Working
      <4>2. t = <<fr[t].mgr, fr[t].job>> BY <4>1, <1>2 DEF Locked, Typed, Calls, Sound, Place
      <4> QED BY <4>2, <3>1, <2>2
    <3> QED BY <3>1, <3>2, <3>3, <1>3
  <2> QED BY <2>1, <2>2
<1> QED BY <1>5, <1>6, <1>7, <1>9, <1>10, <1>11 DEF Locked

\* A new job belongs to nobody yet.
LEMMA CreateLocked ==
  ASSUME Locked, Typed', NEW c \in Callers, NEW m \in Managers, NEW k \in Jobs, Create(c, m, k)
  PROVE  Locked' /\ (BusyIsWorked => BusyIsWorked')
<1> DEFINE h == fr'[c]
<1>0. /\ rows \in [Jobs -> States] /\ fr \in [Threads -> Frames] /\ c \in Threads /\ c # Main
  BY DEF Locked, Typed, TypeOK, Threads
<1>1. /\ Serving /\ fr[c].op = "none" /\ k \notin born /\ born' = born \cup {k}
      /\ UNCHANGED <<active, boot>>
  BY <1>0, IdleOp DEF Create, Call, Locked, mem
<1>2. rows'[k].status = "PENDING" /\ \A j \in Jobs \ {k} : rows'[j] = rows[j]
  BY <1>0 DEF Create, Save
<1>3. /\ h.op = "create" /\ h.pc = "saved" /\ h.job = k /\ h.pick = None
      /\ \A u \in Threads \ {c} : fr'[u] = fr[u]
  <2>1. PICK st : Goto(c, Frame("create", "saved", m, k, st)) BY DEF Create
  <2>2. h = Frame("create", "saved", m, k, st) BY <2>1, <1>0 DEF Goto
  <2>3. \A u \in Threads \ {c} : fr'[u] = fr[u] BY <2>1, <1>0 DEF Goto
  <2> HIDE DEF h
  <2> QED BY <2>2, <2>3, FrameFields
<1> HIDE DEF h
<1>a. ~Present(k) /\ \A t \in Threads : fr[t].job # k /\ fr[t].pick # k
  BY <1>1 DEF Locked, Fresh
<1>4. Fresh'
  <2> SUFFICES ASSUME NEW j \in Jobs \ born, j # k
               PROVE  ~Present(j)' /\ \A u \in Threads : fr'[u].job # j /\ fr'[u].pick # j
    BY <1>1 DEF Fresh
  <2>1. ~Present(j) /\ \A u \in Threads : fr[u].job # j /\ fr[u].pick # j BY DEF Locked, Fresh
  <2> QED BY <2>1, <1>2, <1>3 DEF Present, h
<1>5. RepairAlone'
  <2>1. Serving' BY <1>0, <1>1, <1>3 DEF Serving, Threads
  <2> QED BY <2>1 DEF RepairAlone
<1>6. CreatorAlone'
  <2> SUFFICES ASSUME NEW d \in Threads, fr'[d].op = "create"
               PROVE  /\ rows'[fr'[d].job].status \in ActiveStatuses /\ fr'[d].job \in born'
                      /\ \A u \in Threads \ {d} :
                           /\ fr'[u].pick # fr'[d].job
                           /\ fr'[u].job = fr'[d].job =>
                                fr'[u].op \in {"retry", "delete"} /\ fr'[u].pc = "read" /\ fr'[u].st.status \in ActiveStatuses
    BY DEF CreatorAlone
  <2>1. CASE d = c BY <2>1, <1>1, <1>2, <1>3, <1>a DEF ActiveStatuses, h
  <2>2. CASE d # c
    <3> DEFINE j == fr[d].job
    <3>1. fr'[d] = fr[d] BY <2>2, <1>3
    <3>2. j \in Jobs BY <3>1 DEF Locked, Typed, Calls, Sound, Place
    <3>3. /\ rows[j].status \in ActiveStatuses /\ j \in born
          /\ \A u \in Threads \ {d} :
               /\ fr[u].pick # j
               /\ fr[u].job = j =>
                    fr[u].op \in {"retry", "delete"} /\ fr[u].pc = "read" /\ fr[u].st.status \in ActiveStatuses
      BY <3>1 DEF Locked, CreatorAlone
    <3> HIDE DEF j
    <3>4. j # k BY <3>3, <1>1
    <3> QED BY <3>1, <3>2, <3>3, <3>4, <1>1, <1>2, <1>3 DEF j, h
  <2> QED BY <2>1, <2>2
<1>7. \A u \in Threads : Holds(u)' => Holds(u) /\ fr'[u] = fr[u] BY <1>3 DEF Holds, h
<1>8. HoldersActive' BY <1>1, <1>7 DEF Locked, HoldersActive
<1>9. ManagerExclusion' BY <1>7 DEF Locked, ManagerExclusion
<1>10. BusyIsWorked => BusyIsWorked'
  <2> SUFFICES ASSUME BusyIsWorked, NEW j \in Jobs, rows'[j].status \in ActiveStatuses, j \notin boot.jobs
               PROVE  \E u \in Threads : fr'[u].job = j /\ Working(fr'[u])
    BY <1>1 DEF BusyIsWorked
  <2>1. CASE j = k BY <2>1, <1>0, <1>3 DEF Working, h
  <2>2. CASE j # k
    <3>1. PICK u \in Threads : fr[u].job = j /\ Working(fr[u]) BY <2>2, <1>2 DEF BusyIsWorked
    <3>2. u # c BY <3>1, <1>1 DEF Working
    <3> QED BY <3>1, <3>2, <1>3
  <2> QED BY <2>1, <2>2
<1> QED BY <1>4, <1>5, <1>6, <1>8, <1>9, <1>10 DEF Locked

\* Every arrival of a request keeps the invariant.
LEMMA RequestLocked ==
  ASSUME Locked, Typed', NEW c \in Callers, Request(c)
  PROVE  Locked' /\ (BusyIsWorked => BusyIsWorked')
<1>0. c \in Threads /\ rows \in [Jobs -> States] /\ fr \in [Threads -> Frames]
  BY DEF Locked, Typed, TypeOK, Threads
<1>a. Call(c) => Serving /\ fr[c].op = "none" /\ boot' = boot
  BY <1>0, IdleOp DEF Call, Locked
<1>b. ASSUME \E g : Arrives(c, g) PROVE Locked' /\ (BusyIsWorked => BusyIsWorked')
  BY <1>b, ArriveLocked, ArriveWorked DEF Locked
<1>1. CASE \E m \in Managers, j \in Jobs : Create(c, m, j) BY <1>1, CreateLocked
<1>2. CASE \E m \in Managers, j \in Jobs : RetryRead(c, m, j) \/ DeleteRead(c, m, j)
  <2> PICK m \in Managers, j \in Jobs : RetryRead(c, m, j) \/ DeleteRead(c, m, j) BY <1>2
  <2>1. PICK op \in {"retry", "delete"} : Goto(c, Frame(op, "read", m, j, Loaded(j)))
    BY DEF RetryRead, DeleteRead
  <2>2. Call(c) /\ Present(j) /\ UNCHANGED <<rows, active, born>>
    BY DEF RetryRead, DeleteRead, db, mem
  <2>3. Arrives(c, Frame(op, "read", m, j, Loaded(j)))
    BY <2>1, <2>2, <1>a, FrameFields DEF Arrives, Goto
  <2> QED BY <2>3, <1>b
<1>3. CASE \E m \in Managers, j \in Jobs : ViewRead(c, m, j)
  <2> PICK m \in Managers, j \in Jobs : ViewRead(c, m, j) BY <1>3
  <2>1. Goto(c, Frame("view", "read", m, j, Loaded(j))) BY DEF ViewRead
  <2>2. Call(c) /\ Present(j) /\ UNCHANGED <<rows, active, born>> BY DEF ViewRead, db, mem
  <2>3. rows[j].status \notin ActiveStatuses
    BY <1>0 DEF ViewRead, Loaded, States, ActiveStatuses
  <2>4. Arrives(c, Frame("view", "read", m, j, Loaded(j)))
    BY <2>1, <2>2, <2>3, <1>a, FrameFields DEF Arrives, Goto
  <2> QED BY <2>4, <1>b
<1>4. CASE \E m \in Managers, j \in Jobs, p \in BOOLEAN : SetCurrent(c, m, j, p)
  <2> PICK m \in Managers, j \in Jobs, p \in BOOLEAN : SetCurrent(c, m, j, p) BY <1>4
  <2> DEFINE f == Frame("set", "file", m, j, Loaded(j))
             g == [f EXCEPT !.pick = j, !.ps = Loaded(j)]
  <2>1. Goto(c, g) BY DEF SetCurrent
  <2>2. Call(c) /\ Present(j) /\ UNCHANGED <<rows, active, born>> BY DEF SetCurrent, db, mem
  <2>3. rows[j].status \notin ActiveStatuses
    BY <1>0 DEF SetCurrent, Whole, Loaded, States, ActiveStatuses
  <2>4. g.op = "set" /\ g.job = j /\ g.pick = j BY DEF Frame, Idle
  <2> HIDE DEF g
  <2>5. Arrives(c, g) BY <2>1, <2>2, <2>3, <2>4, <1>a DEF Arrives, Goto
  <2> QED BY <2>5, <1>b
<1>5. CASE \E m \in Managers, s \in Stocks : Latest(c, m, s)
  <2> PICK m \in Managers, s \in Stocks : Latest(c, m, s) BY <1>5
  <2> DEFINE g == [Idle EXCEPT !.op = "latest", !.pc = "select", !.mgr = m, !.stock = s]
  <2>1. Goto(c, g) /\ Call(c) /\ UNCHANGED <<rows, active, born>> BY DEF Latest, db, mem
  <2>2. g.op = "latest" /\ g.job = None /\ g.pick = None BY DEF Idle
  <2> HIDE DEF g
  <2>3. Arrives(c, g) BY <2>1, <2>2, <1>a DEF Arrives, Goto
  <2> QED BY <2>3, <1>b
<1>6. CASE \E m \in Managers, j \in Jobs : Cancel(c, m, j)
  <2>1. UNCHANGED <<rows, active, born, boot, fr>> BY <1>6 DEF Cancel, Call, db
  <2> QED BY <2>1 DEF Locked, Fresh, RepairAlone, CreatorAlone, HoldersActive, ManagerExclusion,
                      BusyIsWorked, Holds, Serving, Present
<1> QED BY <1>1, <1>2, <1>3, <1>4, <1>5, <1>6 DEF Request

\* A crash empties the memory and begins the repair of all jobs.
LEMMA CrashLocked ==
  ASSUME Locked, Typed', Crash PROVE Locked' /\ BusyIsWorked'
<1>1. \A t \in Threads : fr'[t] = Idle BY DEF Crash
<1>2. UNCHANGED <<rows, born>> /\ boot'.jobs = {j \in Jobs : Present(j)} BY DEF Crash, db
<1>3. \A t \in Threads : ~Holds(t)' /\ fr'[t].op = "none" BY <1>1, IdleFrame DEF Holds
<1>4. Fresh' BY <1>1, <1>2, IdleFrame DEF Locked, Fresh, Present
<1>5. BusyIsWorked' BY <1>2 DEF BusyIsWorked, Present, ActiveStatuses
<1> QED BY <1>3, <1>4, <1>5
      DEF Locked, RepairAlone, CreatorAlone, HoldersActive, ManagerExclusion

\* A repaired row is not busy.
LEMMA RepairedStatus ==
  ASSUME TypeOK, NEW j \in Jobs
  PROVE  /\ Repaired(j).status \notin ActiveStatuses
         /\ ~Present(j) => Repaired(j).status = "ABSENT"
<1> DEFINE st == Loaded(j)
           settled == IF st.status \in ActiveStatuses THEN Unfinished(st) ELSE st.status
           counted == [st EXCEPT !.status = settled, !.groups = groups[j]]
<1>1. st \in States BY LoadedType
<1>2. ~Present(j) => st.status = "ABSENT" BY DEF Present, Loaded
<1>3. Repaired(j) = IF settled = "COMPLETED" /\ groups[j] # "complete"
                    THEN [counted EXCEPT !.status = Unfinished(counted)] ELSE counted
  BY DEF Repaired
<1>4. \A x : Unfinished(x) \notin ActiveStatuses BY DEF Unfinished, ActiveStatuses
<1>5. "ABSENT" \notin ActiveStatuses BY DEF ActiveStatuses
<1> HIDE DEF st
<1>6. counted.status = settled BY <1>1 DEF States
<1>7. settled \notin ActiveStatuses /\ (~Present(j) => settled = "ABSENT") BY <1>2, <1>4, <1>5
<1>8. [counted EXCEPT !.status = Unfinished(counted)].status = Unfinished(counted)
  BY <1>1 DEF States
<1> HIDE DEF settled, counted
<1> QED BY <1>3, <1>4, <1>6, <1>7, <1>8

\* The start-up repair keeps the invariant.
LEMMA BootLocked ==
  ASSUME Locked, Typed', Boot PROVE Locked' /\ (BusyIsWorked => BusyIsWorked')
<1>0. /\ rows \in [Jobs -> States] /\ fr \in [Threads -> Frames] /\ TypeOK /\ Main \in Threads
      /\ boot \in [jobs : SUBSET Jobs, stocks : SUBSET Stocks]
  BY DEF Locked, Typed, TypeOK, Threads
<1>a. ~Serving BY DEF Boot, BootRow, BootStock, Serving
<1>1. ASSUME NEW j \in Jobs, BootRow(j) PROVE Locked' /\ (BusyIsWorked => BusyIsWorked')
  <2>1. /\ rows'[j] = Repaired(j) /\ \A k \in Jobs \ {j} : rows'[k] = rows[k]
        /\ UNCHANGED <<fr, active, born>> /\ boot'.jobs = boot.jobs \ {j}
    BY <1>0, <1>1 DEF BootRow, Save, mem
  <2>2. Fresh' BY <2>1, <1>0, RepairedStatus DEF Locked, Fresh, Present
  <2>3. RepairAlone' BY <2>1, <1>a DEF Locked, RepairAlone
  <2>4. CreatorAlone' BY <2>1, <1>a, RepairQuiet DEF CreatorAlone
  <2>5. HoldersActive' /\ ManagerExclusion'
    BY <2>1 DEF Locked, HoldersActive, ManagerExclusion, Holds
  <2>6. BusyIsWorked => BusyIsWorked' BY <2>1, <1>0, RepairedStatus DEF BusyIsWorked
  <2> QED BY <2>2, <2>3, <2>4, <2>5, <2>6 DEF Locked
<1>2. ASSUME NEW s \in Stocks, BootStock(s) PROVE Locked' /\ (BusyIsWorked => BusyIsWorked')
  <2> DEFINE g == fr'[Main]
  <2>1. /\ UNCHANGED <<rows, active, born>> /\ boot'.jobs = boot.jobs
        /\ \A u \in Threads \ {Main} : fr'[u] = fr[u]
    BY <1>0, <1>2 DEF BootStock, Goto, db, mem
  <2>2. g.op = "boot" /\ g.job = None /\ (g.pick # None => g.pick \in Jobs /\ Present(g.pick))
    <3>1. \/ /\ pointer[s] # None /\ Present(pointer[s])
             /\ Goto(Main, [Idle EXCEPT !.op = "boot", !.pc = "file", !.stock = s,
                                        !.pick = pointer[s], !.ps = Loaded(pointer[s])])
          \/ Goto(Main, [Idle EXCEPT !.op = "boot", !.pc = "select", !.stock = s])
      BY <1>2 DEF BootStock
    <3>2. \A x : Goto(Main, x) => g = x BY <1>0, GotoFrame DEF Locked
    <3>3. pointer[s] # None => pointer[s] \in Jobs BY <1>0 DEF TypeOK
    <3> HIDE DEF g
    <3>4. CASE /\ pointer[s] # None /\ Present(pointer[s])
               /\ g = [Idle EXCEPT !.op = "boot", !.pc = "file", !.stock = s,
                                   !.pick = pointer[s], !.ps = Loaded(pointer[s])]
      <4>1. g.op = "boot" /\ g.job = None /\ g.pick = pointer[s] BY <3>4 DEF Idle
      <4> QED BY <4>1, <3>3, <3>4
    <3>5. CASE g = [Idle EXCEPT !.op = "boot", !.pc = "select", !.stock = s]
      BY <3>5 DEF Idle
    <3> QED BY <3>1, <3>2, <3>4, <3>5
  <2> HIDE DEF g
  <2>3. Fresh'
    <3> SUFFICES ASSUME NEW j \in Jobs \ born
                 PROVE  ~Present(j)' /\ \A u \in Threads : fr'[u].job # j /\ fr'[u].pick # j
      BY <2>1 DEF Fresh
    <3>1. ~Present(j) /\ \A u \in Threads : fr[u].job # j /\ fr[u].pick # j BY DEF Locked, Fresh
    <3>2. g.job # j /\ g.pick # j BY <3>1, <2>2
    <3> QED BY <3>1, <3>2, <2>1 DEF Present, g
  <2>4. RepairAlone' BY <2>1, <1>a DEF Locked, RepairAlone
  <2>5. CreatorAlone' BY <2>1, <2>2, <1>a, RepairQuiet DEF CreatorAlone, g
  <2>6. \A u \in Threads : ~Holds(u)' BY <2>1, <2>2, <1>a, RepairQuiet DEF Holds, g
  <2>7. HoldersActive' /\ ManagerExclusion' BY <2>6 DEF HoldersActive, ManagerExclusion
  <2>8. BusyIsWorked => BusyIsWorked'
    BY <2>1, <1>a, RepairQuiet DEF BusyIsWorked
  <2> QED BY <2>3, <2>4, <2>5, <2>7, <2>8 DEF Locked
<1> QED BY <1>1, <1>2 DEF Boot

\* Every step keeps the invariant.
LEMMA NextLocked ==
  ASSUME Locked, BusyIsWorked, [Next]_vars PROVE Locked' /\ BusyIsWorked'
<1>0. Typed /\ Typed' BY NextTyped DEF Locked
<1>1. CASE \E c \in Callers : Request(c) BY <1>0, <1>1, RequestLocked
<1>2. CASE \E t \in Threads : Start(t) \/ Step(t)
  <2> PICK t \in Threads : Start(t) \/ Step(t) BY <1>2
  <2>1. CreateSubmit(t) \/ RetrySubmit(t) \/ Lock(t) \/ Quiet(t)
    BY <1>0, RunQuiet, RetryQuiet, CallerQuiet, EndQuiet, PromoteQuiet DEF Start, Step
  <2> QED BY <1>0, <2>1, SubmitLocked, LockLocked, QuietLocked, QuietWorked
<1>3. CASE Boot BY <1>0, <1>3, BootLocked
<1>4. CASE Crash BY <1>0, <1>4, CrashLocked
<1>5. CASE UNCHANGED vars
  BY <1>5 DEF vars, Locked, Typed, TypeOK, Calls, Fresh, RepairAlone, CreatorAlone, HoldersActive,
              ManagerExclusion, BusyIsWorked, Holds, Serving, Present
<1> QED BY <1>1, <1>2, <1>3, <1>4, <1>5 DEF Next, Rest

\* The invariant holds initially.
LEMMA InitLocked == ASSUME Init PROVE Locked /\ BusyIsWorked
<1>1. Typed BY InitTyped
<1>2. \A t \in Threads : fr[t] = Idle BY DEF Init
<1>3. \A j \in Jobs : rows[j].status = "ABSENT" BY DEF Init, Absent
<1>4. Fresh BY <1>2, <1>3, IdleFrame DEF Fresh, Present
<1>5. BusyIsWorked BY <1>3 DEF BusyIsWorked, ActiveStatuses
<1>6. \A t \in Threads : ~Holds(t) /\ fr[t].op = "none" BY <1>2, IdleFrame DEF Holds
<1> QED BY <1>1, <1>4, <1>5, <1>6
      DEF Locked, RepairAlone, CreatorAlone, HoldersActive, ManagerExclusion

\* The invariant holds always.
LEMMA LockedInvariant == Spec => [](Locked /\ BusyIsWorked)
<1>1. Init => Locked /\ BusyIsWorked BY InitLocked
<1>2. Locked /\ BusyIsWorked /\ [Next]_vars => (Locked /\ BusyIsWorked)' BY NextLocked
<1> QED BY <1>1, <1>2, PTL DEF Spec

\* Within a manager a run, a retry and a deletion of one job exclude each other,
\* whatever status the caller read before it took the lock.
THEOREM ExclusionHolds == Spec => []ManagerExclusion
<1>1. Locked /\ BusyIsWorked => ManagerExclusion BY DEF Locked
<1> QED BY <1>1, LockedInvariant, PTL

\* No job reads as in progress without a thread that will give it a last status.
THEOREM BusyHolds == Spec => []BusyIsExecuting
<1>1. Locked /\ BusyIsWorked => BusyIsExecuting
  <2> SUFFICES ASSUME Locked, BusyIsWorked, Serving, NEW j \in Jobs, rows[j].status \in ActiveStatuses
               PROVE  \E t \in Threads : fr[t].job = j /\ (Holds(t) \/ fr[t].op = "create")
    BY DEF BusyIsExecuting
  <2>1. PICK t \in Threads : fr[t].job = j /\ Working(fr[t]) BY DEF BusyIsWorked, Serving
  <2> QED BY <2>1 DEF Working, Holds
<1> QED BY <1>1, LockedInvariant, PTL

----------------------------------------------------------------------------
(* The start-up repair.  A pointer names a job of its own stock (Homes);   *)
(* while the repair runs it is alone, it comes to the stocks when all rows *)
(* are mended, and what it has settled stays settled (Mending).            *)

PickPcs == {"file", "clear", "mark"}

\* A call makes a job of its own stock current.
Home(f) ==
  f.pc \in PickPcs \/ (f.pc = "unflag" /\ f.pick # None) => StockOf[f.pick] = f.stock

Homes ==
  /\ \A t \in Threads : Home(fr[t])
  /\ \A s \in Stocks : pointer[s] # None => StockOf[pointer[s]] = s

\* A frame that is not making a job current.
LEMMA HomeElsewhere ==
  ASSUME NEW f, f.pc \notin PickPcs, f.pc # "unflag" \/ f.pick = None PROVE Home(f)
  BY DEF Home

\* One thread moves on and no pointer is written.
LEMMA HomeMove ==
  ASSUME Typed, Homes, NEW t \in Threads, NEW g, Goto(t, g), UNCHANGED pointer, Home(g)
  PROVE  Homes'
<1>1. fr'[t] = g /\ \A u \in Threads \ {t} : fr'[u] = fr[u] BY DEF Typed, TypeOK, Goto
<1> QED BY <1>1 DEF Homes, Home

\* The steps of runs and retries.
LEMMA HomeTask ==
  ASSUME Typed, Homes, NEW t \in Threads,
         \/ RunStart(t) \/ RunProgress(t) \/ RunReturn(t) \/ RunExported(t) \/ RunRaise(t)
         \/ RetryStart(t) \/ RetryFetch(t) \/ RetrySync(t) \/ RetrySave(t) \/ RetryExported(t)
         \/ RetryRaise(t)
  PROVE  Homes'
<1> DEFINE f == fr[t]
           Else == Pcs \ (PickPcs \cup {"unflag"})
<1>0. f \in Frames /\ Place(t, f) /\ Idle.pc = "idle" BY DEF Typed, Calls, Sound, Idle
<1>1. UNCHANGED pointer
  BY DEF RunStart, RunProgress, RunReturn, RunExported, RunRaise, RetryStart, RetryFetch, RetrySync,
         RetrySave, RetryExported, RetryRaise, disk
<1>2. \/ \E g : Goto(t, g) /\ g.pc \in Else
      \/ \E st : /\ Goto(t, [f EXCEPT !.pc = "file", !.st = st, !.pick = f.job, !.ps = st])
                 /\ f.op \in {"run", "retry"}
  <2>1. CASE RunStart(t) \/ RunProgress(t) \/ RunReturn(t) \/ RunRaise(t)
    <3>1. \A to \in Else : \A st : [f EXCEPT !.pc = to, !.st = st].pc \in Else BY <1>0 DEF Frames
    <3>2. \A st : f.pc \in Else => [f EXCEPT !.st = st].pc \in Else BY <1>0 DEF Frames
    <3>3. \A to \in Else : \A x : [f EXCEPT !.pc = to, !.st.status = x].pc \in Else BY <1>0 DEF Frames
    <3>4. CASE RunStart(t) BY <3>4, <3>1 DEF RunStart, PickPcs, Pcs
    <3>5. CASE RunProgress(t) BY <3>5, <3>2 DEF RunProgress, PickPcs, Pcs
    <3>6. CASE RunReturn(t) BY <3>6, <3>1 DEF RunReturn, PickPcs, Pcs
    <3>7. CASE RunRaise(t) BY <3>7, <3>3 DEF RunRaise, PickPcs, Pcs
    <3> QED BY <2>1, <3>4, <3>5, <3>6, <3>7
  <2>2. CASE RetryStart(t) \/ RetryFetch(t) \/ RetrySync(t) \/ RetrySave(t) \/ RetryRaise(t)
    <3>1. \A to \in Else : \A st : [f EXCEPT !.pc = to, !.st = st].pc \in Else BY <1>0 DEF Frames
    <3>2. \A to \in Else : [f EXCEPT !.pc = to].pc \in Else BY <1>0 DEF Frames
    <3>3. CASE RetryStart(t) BY <3>3, <3>1, <1>0 DEF RetryStart, PickPcs, Pcs
    <3>4. CASE RetryFetch(t) \/ RetrySave(t) BY <3>4, <3>2 DEF RetryFetch, RetrySave, At, PickPcs, Pcs
    <3>5. CASE RetrySync(t) BY <3>5, <3>1 DEF RetrySync, PickPcs, Pcs
    <3>6. CASE RetryRaise(t) BY <3>6, <3>1 DEF RetryRaise, PickPcs, Pcs
    <3> QED BY <2>2, <3>3, <3>4, <3>5, <3>6
  <2>3. CASE RunExported(t) \/ RetryExported(t)
    <3>1. \A to \in Else : \A x : [f EXCEPT !.pc = to, !.st.status = x].pc \in Else BY <1>0 DEF Frames
    <3>2. CASE RunExported(t)
      <4>1. CASE f.st.groups = "complete" BY <4>1, <3>2 DEF RunExported
      <4>2. CASE f.st.groups # "complete" BY <4>2, <3>1, <3>2 DEF RunExported, PickPcs, Pcs
      <4> QED BY <4>1, <4>2
    <3>3. CASE RetryExported(t)
      <4>1. CASE f.st.groups = "complete" BY <4>1, <3>3 DEF RetryExported
      <4>2. CASE f.st.groups # "complete"
        <5>1. Goto(t, [f EXCEPT !.pc = IF f.st.current THEN "select" ELSE "final", !.st.status = "PARTIAL"])
          BY <4>2, <3>3 DEF RetryExported
        <5>2. (IF f.st.current THEN "select" ELSE "final") \in Else BY DEF PickPcs, Pcs
        <5> QED BY <5>1, <5>2, <3>1
      <4> QED BY <4>1, <4>2
    <3> QED BY <2>3, <3>2, <3>3
  <2> QED BY <2>1, <2>2, <2>3
<1>3. CASE \E g : Goto(t, g) /\ g.pc \in Else BY <1>1, <1>3, HomeElsewhere, HomeMove
<1>4. CASE \E st : /\ Goto(t, [f EXCEPT !.pc = "file", !.st = st, !.pick = f.job, !.ps = st])
                   /\ f.op \in {"run", "retry"}
  <2> PICK st : /\ Goto(t, [f EXCEPT !.pc = "file", !.st = st, !.pick = f.job, !.ps = st])
                /\ f.op \in {"run", "retry"}
    BY <1>4
  <2> DEFINE g == [f EXCEPT !.pc = "file", !.st = st, !.pick = f.job, !.ps = st]
  <2>1. g.pick = f.job /\ g.stock = f.stock BY <1>0 DEF Frames
  <2>2. f.stock = StockOf[f.job] BY <1>0 DEF Place
  <2>3. Home(g) BY <2>1, <2>2 DEF Home
  <2> HIDE DEF g
  <2>4. Goto(t, g) BY DEF g
  <2> QED BY <1>1, <2>3, <2>4, HomeMove
<1> QED BY <1>2, <1>3, <1>4

\* The steps that make a job current, or none.
LEMMA HomePromote ==
  ASSUME Typed, Homes, NEW t \in Threads,
         \/ PtrFile(t) \/ PtrClear(t) \/ PtrMark(t)
         \/ FallbackSelect(t) \/ FallbackUnflag(t) \/ FallbackUnlink(t)
  PROVE  Homes'
<1> DEFINE f == fr[t]
<1>0. f \in Frames /\ Home(f) BY DEF Typed, Calls, Sound, Homes
<1>1. Home(Promoted(f))
  <2>1. CASE f.op \in {"run", "retry"}
    <3>1. [f EXCEPT !.pc = "final", !.st.current = (f.pick = f.job)].pc = "final" BY <1>0 DEF Frames
    <3> QED BY <2>1, <3>1 DEF Promoted, Home, PickPcs
  <2>2. CASE f.op = "delete"
    <3>1. [f EXCEPT !.pc = "release"].pc = "release" BY <1>0 DEF Frames
    <3> QED BY <2>2, <3>1 DEF Promoted, Home, PickPcs
  <2>3. CASE f.op \notin {"run", "retry", "delete"}
    BY <2>3, IdleFrame DEF Promoted, Home, PickPcs
  <2> QED BY <2>1, <2>2, <2>3
<1>2. \A to : /\ [f EXCEPT !.pc = to].pick = f.pick /\ [f EXCEPT !.pc = to].stock = f.stock
              /\ to \in Pcs => [f EXCEPT !.pc = to].pc = to
  BY <1>0 DEF Frames
<1>3. \A to : StockOf[f.pick] = f.stock => Home([f EXCEPT !.pc = to]) BY <1>2 DEF Home
<1>4. CASE PtrFile(t)
  <2>1. StockOf[f.pick] = f.stock BY <1>0, <1>4 DEF PtrFile, Home, PickPcs
  <2>2. /\ Goto(t, [f EXCEPT !.pc = "clear"]) /\ pointer' = [pointer EXCEPT ![f.stock] = f.pick]
    BY <1>4 DEF PtrFile, At
  <2>3. fr' = [fr EXCEPT ![t] = [f EXCEPT !.pc = "clear"]] BY <2>2 DEF Goto
  <2>4. \A u \in Threads : Home(fr'[u])
    <3>1. Home([f EXCEPT !.pc = "clear"]) BY <1>3, <2>1
    <3> HIDE DEF f
    <3> QED BY <2>3, <3>1 DEF Typed, TypeOK, Homes
  <2>5. \A s \in Stocks : pointer'[s] # None => StockOf[pointer'[s]] = s
    BY <2>1, <2>2 DEF Typed, TypeOK, Homes
  <2> QED BY <2>4, <2>5 DEF Homes, Home
<1>5. CASE PtrClear(t)
  <2>1. StockOf[f.pick] = f.stock BY <1>0, <1>5 DEF PtrClear, Home, PickPcs
  <2> QED BY <1>5, <2>1, <1>3, HomeMove DEF PtrClear, At, disk
<1>6. CASE PtrMark(t) BY <1>1, <1>6, HomeMove DEF PtrMark, disk
<1>7. CASE FallbackSelect(t)
  <2>1. ASSUME NEW j \in Jobs, StockOf[j] = f.stock,
               Goto(t, [f EXCEPT !.pc = "unflag", !.pick = j, !.ps = rows[j]])
        PROVE  Homes'
    <3> DEFINE g == [f EXCEPT !.pc = "unflag", !.pick = j, !.ps = rows[j]]
    <3>1. g.pick = j /\ g.stock = f.stock BY <1>0 DEF Frames
    <3>2. Home(g) BY <3>1, <2>1 DEF Home
    <3> HIDE DEF g
    <3>3. Goto(t, g) BY <2>1 DEF g
    <3> QED BY <1>7, <3>2, <3>3, HomeMove DEF FallbackSelect, disk
  <2>2. ASSUME Goto(t, [f EXCEPT !.pc = "unflag", !.pick = None]) PROVE Homes'
    <3> DEFINE g == [f EXCEPT !.pc = "unflag", !.pick = None]
    <3>1. g.pick = None /\ g.pc = "unflag" BY <1>0 DEF Frames
    <3>2. Home(g) BY <3>1 DEF Home, PickPcs
    <3> HIDE DEF g
    <3>3. Goto(t, g) BY <2>2 DEF g
    <3> QED BY <1>7, <3>2, <3>3, HomeMove DEF FallbackSelect, disk
  <2>3. \/ \E j \in Jobs : /\ StockOf[j] = f.stock
                           /\ Goto(t, [f EXCEPT !.pc = "unflag", !.pick = j, !.ps = rows[j]])
        \/ Goto(t, [f EXCEPT !.pc = "unflag", !.pick = None])
    BY <1>7 DEF FallbackSelect
  <2> QED BY <2>1, <2>2, <2>3
<1>8. CASE FallbackUnflag(t)
  <2>1. CASE f.pick = None
    <3>1. [f EXCEPT !.pc = "unlink"].pc = "unlink" BY <1>0 DEF Frames
    <3>2. Goto(t, [f EXCEPT !.pc = "unlink"]) BY <1>8, <2>1 DEF FallbackUnflag, At
    <3>3. Home([f EXCEPT !.pc = "unlink"]) BY <3>1 DEF Home, PickPcs
    <3> QED BY <1>8, <3>2, <3>3, HomeMove DEF FallbackUnflag, disk
  <2>2. CASE f.pick # None
    <3>1. StockOf[f.pick] = f.stock BY <1>0, <1>8, <2>2 DEF FallbackUnflag, Home
    <3>2. Goto(t, [f EXCEPT !.pc = "file"]) BY <1>8, <2>2 DEF FallbackUnflag, At
    <3> QED BY <1>8, <3>1, <3>2, <1>3, HomeMove DEF FallbackUnflag, disk
  <2> QED BY <2>1, <2>2
<1>9. CASE FallbackUnlink(t)
  <2>1. /\ Goto(t, Promoted(f)) /\ pointer' = [pointer EXCEPT ![f.stock] = None]
    BY <1>9 DEF FallbackUnlink
  <2>2. \A u \in Threads : Home(fr'[u])
    <3> DEFINE g == Promoted(f)
    <3>1. fr' = [fr EXCEPT ![t] = g] /\ Home(g) BY <1>1, <2>1 DEF Goto
    <3> HIDE DEF g, f
    <3> QED BY <3>1 DEF Typed, TypeOK, Homes
  <2>3. \A s \in Stocks : pointer'[s] # None => StockOf[pointer'[s]] = s
    BY <2>1 DEF Typed, TypeOK, Homes
  <2> QED BY <2>2, <2>3 DEF Homes, Home
<1> QED BY <1>4, <1>5, <1>6, <1>7, <1>8, <1>9

\* The other steps of requests, and the ends of calls.
LEMMA HomeCaller ==
  ASSUME Typed, Homes, NEW c \in Threads,
         \/ CreateSubmit(c) \/ Lock(c) \/ RetrySubmit(c) \/ ViewSync(c) \/ ViewSave(c)
         \/ DeleteMark(c) \/ DeleteFiles(c) \/ DeleteRows(c) \/ Final(c) \/ Release(c)
  PROVE  Homes'
<1> DEFINE f == fr[c]
           Else == Pcs \ (PickPcs \cup {"unflag"})
<1>0. f \in Frames /\ Idle.pc \in Else BY DEF Typed, Calls, Sound, Idle, PickPcs, Pcs
<1>1. UNCHANGED pointer
  BY DEF CreateSubmit, Lock, RetrySubmit, ViewSync, ViewSave, DeleteMark, DeleteFiles, DeleteRows,
         Final, Release, disk
<1>2. \A to \in Else : [f EXCEPT !.pc = to].pc \in Else BY <1>0 DEF Frames
<1>3. \A to \in Else : \A st : [f EXCEPT !.pc = to, !.st = st].pc \in Else BY <1>0 DEF Frames
<1>4. {"locked", "synced", "marked", "gone", "final", "release", "select"} \subseteq Else
  BY DEF PickPcs, Pcs
<1>5. CASE CreateSubmit(c) \/ RetrySubmit(c)
  <2>0. \/ fr' = [fr EXCEPT ![c] = Idle,
                          ![<<f.mgr, f.job>>] = Frame("run", "queued", f.mgr, f.job, f.st)]
        \/ fr' = [fr EXCEPT ![c] = Idle,
                          ![<<f.mgr, f.job>>] = Frame("retry", "queued", f.mgr, f.job,
                                                      [f.st EXCEPT !.status = "RETRYING"])]
    BY <1>5 DEF CreateSubmit, RetrySubmit
  <2>1. PICK u, op, st : fr' = [fr EXCEPT ![c] = Idle, ![u] = Frame(op, "queued", f.mgr, f.job, st)]
    BY <2>0
  <2> DEFINE g == Frame(op, "queued", f.mgr, f.job, st)
  <2>2. g.pc = "queued" BY FrameFields
  <2>3. Home(g) /\ Home(Idle) BY <2>2, <1>0 DEF Home, PickPcs
  <2> HIDE DEF g, f
  <2>4. \A v \in Threads : Home(fr'[v]) BY <2>1, <2>3 DEF Typed, TypeOK, Homes, g, f
  <2> QED BY <2>4, <1>1 DEF Homes, Home
<1>6. CASE ~(CreateSubmit(c) \/ RetrySubmit(c))
  <2>1. \E g : Goto(c, g) /\ g.pc \in Else
    <3>1. CASE Lock(c) BY <3>1, <1>0, <1>2, <1>4 DEF Lock, At
    <3>2. CASE ViewSync(c)
      <4>1. [f EXCEPT !.pc = "synced", !.st.groups = groups[f.job]].pc = "synced" BY <1>0 DEF Frames
      <4> QED BY <3>2, <4>1, <1>0, <1>4 DEF ViewSync
    <3>3. CASE ViewSave(c) BY <3>3, <1>0 DEF ViewSave
    <3>4. CASE DeleteMark(c) BY <3>4, <1>3, <1>4 DEF DeleteMark
    <3>5. CASE DeleteFiles(c)
      <4>1. [f EXCEPT !.pc = "final", !.st.status = "DELETE_FAILED"].pc = "final" BY <1>0 DEF Frames
      <4> QED BY <3>5, <4>1, <1>2, <1>4 DEF DeleteFiles, At
    <3>6. CASE DeleteRows(c)
      <4>1. Goto(c, At(c, IF f.st.current THEN "select" ELSE "release")) BY <3>6 DEF DeleteRows
      <4> QED BY <4>1, <1>2, <1>4 DEF At
    <3>7. CASE Final(c) BY <3>7, <1>2, <1>4 DEF Final, At
    <3>8. CASE Release(c) BY <3>8, <1>0 DEF Release
    <3> QED BY <1>6, <3>1, <3>2, <3>3, <3>4, <3>5, <3>6, <3>7, <3>8
  <2> QED BY <2>1, <1>1, HomeElsewhere, HomeMove
<1> QED BY <1>5, <1>6

\* A new request.
LEMMA HomeRequest ==
  ASSUME Typed, Homes, NEW c \in Callers, Request(c) PROVE Homes'
<1>0. c \in Threads BY DEF Threads
<1>1. UNCHANGED pointer
  BY DEF Request, Create, RetryRead, DeleteRead, ViewRead, Cancel, SetCurrent, Latest, disk
<1>2. CASE \E m \in Managers, j \in Jobs : Cancel(c, m, j)
  BY <1>1, <1>2 DEF Cancel, Homes, Home
<1>3. CASE \E g : Goto(c, g) /\ Home(g) BY <1>0, <1>1, <1>3, HomeMove
<1>4. ASSUME NEW op, NEW to, NEW m, NEW j, NEW st, to \in {"saved", "read"}
      PROVE  Home(Frame(op, to, m, j, st))
  BY <1>4, FrameFields DEF Home, PickPcs
<1>5. ASSUME NEW m \in Managers, NEW j \in Jobs,
             \/ Create(c, m, j) \/ RetryRead(c, m, j) \/ DeleteRead(c, m, j) \/ ViewRead(c, m, j)
      PROVE  \E g : Goto(c, g) /\ Home(g)
  BY <1>4, <1>5 DEF Create, RetryRead, DeleteRead, ViewRead
<1>6. ASSUME NEW m \in Managers, NEW j \in Jobs, NEW p \in BOOLEAN, SetCurrent(c, m, j, p)
      PROVE  \E g : Goto(c, g) /\ Home(g)
  <2> DEFINE st == Loaded(j)
             g == [Frame("set", "file", m, j, st) EXCEPT !.pick = j, !.ps = st]
  <2>1. g.pick = j /\ g.stock = StockOf[j] BY DEF Frame, Idle
  <2>2. Home(g) BY <2>1 DEF Home
  <2> HIDE DEF g
  <2>3. Goto(c, g) BY <1>6 DEF SetCurrent, g
  <2> QED BY <2>2, <2>3
<1>7. ASSUME NEW m \in Managers, NEW s \in Stocks, Latest(c, m, s)
      PROVE  \E g : Goto(c, g) /\ Home(g)
  <2> DEFINE g == [Idle EXCEPT !.op = "latest", !.pc = "select", !.mgr = m, !.stock = s]
  <2>1. g.pc = "select" BY DEF Idle
  <2>2. Home(g) BY <2>1 DEF Home, PickPcs
  <2> HIDE DEF g
  <2>3. Goto(c, g) BY <1>7 DEF Latest, g
  <2> QED BY <2>2, <2>3
<1> QED BY <1>2, <1>3, <1>5, <1>6, <1>7 DEF Request

\* The start-up repair keeps the pointer's job if that is of the stock.
LEMMA HomeBoot == ASSUME Typed, Homes, Boot PROVE Homes'
<1>1. ASSUME NEW j \in Jobs, BootRow(j) PROVE Homes'
  BY <1>1 DEF BootRow, disk, Homes, Home
<1>2. ASSUME NEW s \in Stocks, BootStock(s) PROVE Homes'
  <2> DEFINE j == pointer[s]
             g1 == [Idle EXCEPT !.op = "boot", !.pc = "file", !.stock = s, !.pick = j, !.ps = Loaded(j)]
             g2 == [Idle EXCEPT !.op = "boot", !.pc = "select", !.stock = s]
  <2>1. (Goto(Main, g1) /\ j # None) \/ Goto(Main, g2) BY <1>2 DEF BootStock
  <2>2. j # None => Home(g1)
    <3>1. g1.pick = j /\ g1.stock = s BY DEF Idle
    <3> QED BY <3>1 DEF Homes, Home
  <2>3. Home(g2)
    <3>1. g2.pc = "select" BY DEF Idle
    <3> QED BY <3>1 DEF Home, PickPcs
  <2>4. \E g : Goto(Main, g) /\ Home(g) BY <2>1, <2>2, <2>3
  <2> QED BY <2>4, <1>2, HomeMove DEF BootStock, disk, Threads
<1> QED BY <1>1, <1>2 DEF Boot

\* Every step keeps pointers and picks at home.
LEMMA NextHomes == ASSUME Typed, Homes, [Next]_vars PROVE Homes'
<1>1. CASE \E c \in Callers : Request(c) BY <1>1, HomeRequest
<1>2. CASE \E t \in Threads : Start(t) \/ Step(t)
  BY <1>2, HomeTask, HomePromote, HomeCaller DEF Start, Step
<1>3. CASE Boot BY <1>3, HomeBoot
<1>4. CASE Crash BY <1>4, IdleFrame, HomeElsewhere DEF Crash, disk, Homes, PickPcs
<1>5. CASE UNCHANGED vars BY <1>5 DEF vars, Homes, Home
<1> QED BY <1>1, <1>2, <1>3, <1>4, <1>5 DEF Next, Rest

\* The job the start-up repair makes current is a whole one of the stock.
WholePick(f) ==
  f.pick \in Jobs /\ StockOf[f.pick] = f.stock /\ Whole(rows[f.pick]) /\ Whole(f.ps)

\* How far the repair is with a stock.
Halfway(f) ==
  /\ f.pc = "unflag" => f.pick = None \/ WholePick(f)
  /\ f.pc \in PickPcs => WholePick(f)
  /\ f.pc \in {"clear", "mark"} => pointer[f.stock] = f.pick
  /\ f.pc = "mark" => CurrentJobs(f.stock) = {f.pick}
  /\ f.pc = "unlink" => CurrentJobs(f.stock) = {}

\* A stock is still to be looked at, or settled, or being looked at.
Handled(s) ==
  s \in boot.stocks \/ Agrees(s) \/ (fr[Main].pc # "idle" /\ fr[Main].stock = s)

Mended ==
  /\ boot.jobs # {} =>
       fr[Main].pc = "idle" /\ \A j \in Jobs : Present(j) => StockOf[j] \in boot.stocks
  /\ boot.jobs = {} => \A j \in Jobs : Present(j) => Handled(StockOf[j])
  /\ Halfway(fr[Main])

Mending == ~Serving => Mended

\* While the repair runs, only the thread that constructs the manager moves,
\* and only to make a job current.
LEMMA RepairMoves ==
  ASSUME Locked, ~Serving, NEW t \in Threads, Start(t) \/ Step(t)
  PROVE  /\ t = Main /\ fr[Main].op = "boot" /\ fr[Main].pc \in PromotePcs
         /\ \/ PtrFile(t) \/ PtrClear(t) \/ PtrMark(t)
            \/ FallbackSelect(t) \/ FallbackUnflag(t) \/ FallbackUnlink(t)
<1>1. CreateSubmit(t) \/ RetrySubmit(t) \/ Lock(t) \/ Quiet(t)
  BY RunQuiet, RetryQuiet, CallerQuiet, EndQuiet, PromoteQuiet DEF Locked, Start, Step
<1>2. fr[t].op # "none" BY <1>1 DEF CreateSubmit, RetrySubmit, Lock, Quiet
<1>3. t = Main BY <1>2 DEF Locked, RepairAlone
<1>4. fr[Main].op = "boot" /\ fr[Main].pc \in PromotePcs
  BY <1>2, <1>3 DEF Locked, Typed, Calls, Sound, Place, PcsOf
<1> QED
  BY <1>3, <1>4 DEF Start, Step, RunStart, RunProgress, RunReturn, RunExported, RunRaise, RetryStart,
     RetryFetch, RetrySync, RetrySave, RetryExported, RetryRaise, CreateSubmit, Lock, RetrySubmit,
     ViewSync, ViewSave, DeleteMark, DeleteFiles, DeleteRows, Final, Release, PromotePcs

\* Nothing of another stock changes: it stays as it was.
LEMMA AgreesKept ==
  ASSUME NEW s \in Stocks, Agrees(s), pointer'[s] = pointer[s],
         \A j \in Jobs : StockOf[j] = s => rows'[j] = rows[j]
  PROVE  Agrees(s)'
<1>1. \A j \in Jobs : StockOf[j] = s => (Present(j)' <=> Present(j)) BY DEF Present
<1>2. CurrentJobs(s)' = CurrentJobs(s) BY <1>1 DEF CurrentJobs
<1>3. \A j \in Jobs : j \in CurrentJobs(s) => rows'[j] = rows[j] BY DEF CurrentJobs
<1> QED BY <1>2, <1>3 DEF Agrees

\* Flagging a row, or taking its flag away, changes nothing else of it (_set_current_pointer).
LEMMA FlagRow ==
  ASSUME NEW row \in States, NEW b \in BOOLEAN, NEW flagged,
         flagged = [row EXCEPT !.current = b]
  PROVE  flagged.status = row.status /\ flagged.groups = row.groups /\ flagged.current = b
BY DEF States

\* A step of the repair on one stock.
LEMMA RepairStock ==
  ASSUME Locked, ~Serving, Mended,
         fr[Main].op = "boot", fr[Main].pc \in PromotePcs,
         \/ PtrFile(Main) \/ PtrClear(Main) \/ PtrMark(Main)
         \/ FallbackSelect(Main) \/ FallbackUnflag(Main) \/ FallbackUnlink(Main)
  PROVE  Mended'
<1> DEFINE f == fr[Main]  g == fr'[Main]
<1>0. /\ f \in Frames /\ Main \in Threads /\ rows \in [Jobs -> States]
      /\ pointer \in [Stocks -> Jobs \cup {None}] /\ fr \in [Threads -> Frames]
      /\ f.pc # "idle" /\ f.stock \in Stocks \cup {None}
  BY DEF Locked, Typed, TypeOK, Calls, Sound, Threads, PromotePcs, Frames
<1>1. \A x : Goto(Main, x) => g = x BY <1>0 DEF Goto
<1>2. Promoted(f) = Idle BY DEF Promoted
<1>3. UNCHANGED boot /\ boot.jobs = {}
  BY <1>0 DEF PtrFile, PtrClear, PtrMark, FallbackSelect, FallbackUnflag, FallbackUnlink, Mended
<1>4. \A to \in Pcs : /\ [f EXCEPT !.pc = to].pc = to /\ [f EXCEPT !.pc = to].stock = f.stock
                      /\ [f EXCEPT !.pc = to].pick = f.pick /\ [f EXCEPT !.pc = to].ps = f.ps
  BY <1>0 DEF Frames
<1>5. {"clear", "mark", "unlink", "file"} \subseteq Pcs BY DEF Pcs
<1>6. Halfway(f) BY DEF Mended
<1> HIDE DEF f, g
<1>s. PICK s : s = f.stock OBVIOUS
\* What the step does: no other stock is touched, and this one goes on or is settled.
<1>7. /\ \A j \in Jobs : StockOf[j] # f.stock => rows'[j] = rows[j]
      /\ \A j \in Jobs : rows'[j].status = rows[j].status
      /\ \A z \in Stocks : z # f.stock => pointer'[z] = pointer[z]
      /\ Halfway(fr[Main])'
      /\ \/ g.pc # "idle" /\ g.stock = f.stock
         \/ f.stock \in Stocks => Agrees(s)'
  <2>1. CASE PtrFile(Main)
    <3>1. UNCHANGED rows /\ pointer' = [pointer EXCEPT ![f.stock] = f.pick]
      BY <2>1 DEF PtrFile, db, f
    <3>2. g = [f EXCEPT !.pc = "clear"] BY <2>1, <1>1 DEF PtrFile, At, f
    <3>3. g.pc = "clear" /\ g.stock = f.stock /\ g.pick = f.pick /\ g.ps = f.ps
      BY <3>2, <1>4, <1>5
    <3>4. WholePick(f) BY <2>1, <1>6 DEF PtrFile, Halfway, PickPcs, f
    <3>5. f.stock \in Stocks BY <3>4 DEF WholePick
    <3>6. pointer'[f.stock] = f.pick BY <3>1, <3>5, <1>0
    <3>7. WholePick(fr[Main])' BY <3>1, <3>3, <3>4 DEF WholePick, g
    <3>8. Halfway(fr[Main])' BY <1>s, <3>3, <3>6, <3>7 DEF Halfway, PickPcs, g
    <3> QED BY <3>1, <3>3, <3>8, <1>0
  <2>2. CASE PtrClear(Main)
    <3>1. /\ UNCHANGED pointer
          /\ rows' = [j \in Jobs |-> IF StockOf[j] = f.stock /\ Present(j)
                                     THEN [rows[j] EXCEPT !.current = (j = f.pick)] ELSE rows[j]]
      BY <2>2 DEF PtrClear, disk, f
    <3>2. g = [f EXCEPT !.pc = "mark"] BY <2>2, <1>1 DEF PtrClear, At, f
    <3>3. g.pc = "mark" /\ g.stock = f.stock /\ g.pick = f.pick /\ g.ps = f.ps
      BY <3>2, <1>4, <1>5
    <3>4. WholePick(f) /\ pointer[f.stock] = f.pick BY <2>2, <1>6 DEF PtrClear, Halfway, PickPcs, f
    <3>5. \A j \in Jobs : /\ rows'[j].status = rows[j].status /\ rows'[j].groups = rows[j].groups
                          /\ StockOf[j] # f.stock => rows'[j] = rows[j]
                          /\ StockOf[j] = f.stock /\ Present(j) => (rows'[j].current <=> j = f.pick)
      <4> SUFFICES ASSUME NEW j \in Jobs
                   PROVE  /\ rows'[j].status = rows[j].status /\ rows'[j].groups = rows[j].groups
                          /\ StockOf[j] # f.stock => rows'[j] = rows[j]
                          /\ StockOf[j] = f.stock /\ Present(j) => (rows'[j].current <=> j = f.pick)
        OBVIOUS
      <4>1. PICK b \in BOOLEAN : b = (j = f.pick)
        OBVIOUS
      <4>2. CASE StockOf[j] = f.stock /\ Present(j)
        <5>1. rows[j] \in States /\ rows'[j] = [rows[j] EXCEPT !.current = b]
          BY <1>0, <3>1, <4>1, <4>2
        <5>2. rows'[j].status = rows[j].status /\ rows'[j].groups = rows[j].groups /\ rows'[j].current = b
          BY ONLY <5>1, FlagRow
        <5> QED BY ONLY <4>1, <4>2, <5>2
      <4>3. CASE ~(StockOf[j] = f.stock /\ Present(j))
        <5>1. rows'[j] = rows[j]
          BY <3>1, <4>3
        <5> QED BY ONLY <4>3, <5>1
      <4> QED BY ONLY <4>2, <4>3
    <3>6. \A j \in Jobs : Present(j)' <=> Present(j) BY <3>5 DEF Present
    <3>7. f.pick \in Jobs /\ StockOf[f.pick] = f.stock /\ Present(f.pick)
      BY <3>4 DEF WholePick, Whole, Present
    <3>8. CurrentJobs(s)' = {f.pick} BY <1>s, <3>5, <3>6, <3>7 DEF CurrentJobs
    <3>a. rows'[f.pick].status = rows[f.pick].status /\ rows'[f.pick].groups = rows[f.pick].groups
      BY <3>5, <3>7
    <3>9. WholePick(fr[Main])' BY <3>3, <3>4, <3>7, <3>a DEF WholePick, Whole, g
    <3>10. Halfway(fr[Main])' BY <1>s, <3>1, <3>3, <3>4, <3>8, <3>9 DEF Halfway, PickPcs, g
    <3> QED BY <3>1, <3>3, <3>5, <3>10
  <2>3. CASE PtrMark(Main)
    <3>1. UNCHANGED pointer /\ Save(f.pick, [f.ps EXCEPT !.current = TRUE]) /\ g = Idle
      BY <2>3, <1>1, <1>2 DEF PtrMark, disk, f
    <3>2. WholePick(f) /\ pointer[f.stock] = f.pick /\ CurrentJobs(f.stock) = {f.pick}
      BY <2>3, <1>6 DEF PtrMark, Halfway, PickPcs, f
    <3>3. f.pick \in Jobs /\ StockOf[f.pick] = f.stock /\ f.ps \in States /\ Whole(f.ps)
      BY <3>2, <1>0 DEF WholePick, Frames
    <3>4. /\ rows'[f.pick].status = f.ps.status /\ rows'[f.pick].groups = f.ps.groups
          /\ rows'[f.pick].current
          /\ \A j \in Jobs \ {f.pick} : rows'[j] = rows[j]
      BY <3>1, <3>3, <1>0 DEF Save, States
    <3>5. \A j \in Jobs : rows'[j].status = rows[j].status
      BY <3>2, <3>4 DEF WholePick, Whole
    <3>6. \A j \in Jobs : Present(j)' <=> Present(j) BY <3>5 DEF Present
    <3>7. Present(f.pick) BY <3>2 DEF WholePick, Whole, Present
    <3>8. CurrentJobs(s)' = {f.pick} BY <1>s, <3>2, <3>3, <3>4, <3>6, <3>7 DEF CurrentJobs
    <3>9. Agrees(s)' BY <1>s, <3>1, <3>2, <3>3, <3>4, <3>8 DEF Agrees, Whole
    <3>10. Halfway(fr[Main])' BY <1>s, <3>1, IdleFrame DEF Halfway, PickPcs, g
    <3> QED BY <3>1, <3>3, <3>4, <3>5, <3>9, <3>10
  <2>4. CASE FallbackSelect(Main)
    <3>1. UNCHANGED <<rows, pointer>> BY <2>4 DEF FallbackSelect, db, disk
    <3>2. \/ \E j \in Jobs : /\ StockOf[j] = f.stock /\ Whole(rows[j])
                             /\ g = [f EXCEPT !.pc = "unflag", !.pick = j, !.ps = rows[j]]
          \/ g = [f EXCEPT !.pc = "unflag", !.pick = None]
      BY <2>4, <1>1 DEF FallbackSelect, f
    <3>3. g.pc = "unflag" /\ g.stock = f.stock BY <3>2, <1>0 DEF Frames, f
    <3>4. g.pick = None \/ WholePick(g)
      BY <3>2, <1>0 DEF Frames, WholePick, f
    <3>5. Halfway(fr[Main])' BY <1>s, <3>1, <3>3, <3>4 DEF Halfway, PickPcs, WholePick, g
    <3> QED BY <3>1, <3>3, <3>5
  <2>5. CASE FallbackUnflag(Main)
    <3>1. /\ UNCHANGED pointer
          /\ rows' = [j \in Jobs |-> IF StockOf[j] = f.stock /\ Present(j)
                                     THEN [rows[j] EXCEPT !.current = FALSE] ELSE rows[j]]
      BY <2>5 DEF FallbackUnflag, disk, f
    <3>2. g = [f EXCEPT !.pc = IF f.pick = None THEN "unlink" ELSE "file"]
      BY <2>5, <1>1 DEF FallbackUnflag, At, f
    <3>3. /\ g.pc = (IF f.pick = None THEN "unlink" ELSE "file")
          /\ g.stock = f.stock /\ g.pick = f.pick /\ g.ps = f.ps
      BY <3>2, <1>4, <1>5
    <3>4. f.pick = None \/ WholePick(f) BY <2>5, <1>6 DEF FallbackUnflag, Halfway, f
    <3>5. \A j \in Jobs : /\ rows'[j].status = rows[j].status /\ rows'[j].groups = rows[j].groups
                          /\ StockOf[j] # f.stock => rows'[j] = rows[j]
                          /\ StockOf[j] = f.stock /\ Present(j) => ~rows'[j].current
      <4> SUFFICES ASSUME NEW j \in Jobs
                   PROVE  /\ rows'[j].status = rows[j].status /\ rows'[j].groups = rows[j].groups
                          /\ StockOf[j] # f.stock => rows'[j] = rows[j]
                          /\ StockOf[j] = f.stock /\ Present(j) => ~rows'[j].current
        OBVIOUS
      <4>1. CASE StockOf[j] = f.stock /\ Present(j)
        <5>1. rows[j] \in States /\ rows'[j] = [rows[j] EXCEPT !.current = FALSE]
          BY <1>0, <3>1, <4>1
        <5>2. rows'[j].status = rows[j].status /\ rows'[j].groups = rows[j].groups /\ rows'[j].current = FALSE
          BY ONLY <5>1, FlagRow
        <5> QED BY ONLY <4>1, <5>2
      <4>2. CASE ~(StockOf[j] = f.stock /\ Present(j))
        <5>1. rows'[j] = rows[j]
          BY <3>1, <4>2
        <5> QED BY ONLY <4>2, <5>1
      <4> QED BY ONLY <4>1, <4>2
    <3>6. CurrentJobs(s)' = {} BY <1>s, <3>5 DEF CurrentJobs, Present
    <3>7. f.pick # None => WholePick(fr[Main])' BY <3>3, <3>4, <3>5 DEF WholePick, Whole, g
    <3>8. Halfway(fr[Main])' BY <1>s, <3>3, <3>6, <3>7 DEF Halfway, PickPcs, g
    <3> QED BY <3>1, <3>3, <3>5, <3>8
  <2>6. CASE FallbackUnlink(Main)
    <3>1. UNCHANGED rows /\ pointer' = [pointer EXCEPT ![f.stock] = None] /\ g = Idle
      BY <2>6, <1>1, <1>2 DEF FallbackUnlink, db, f
    <3>2. CurrentJobs(f.stock) = {} BY <2>6, <1>6 DEF FallbackUnlink, Halfway, f
    <3>3. CurrentJobs(s)' = {} BY <1>s, <3>1, <3>2 DEF CurrentJobs, Present
    <3>4. f.stock \in Stocks => Agrees(s)' BY <1>s, <3>1, <3>3, <1>0 DEF Agrees
    <3>5. Halfway(fr[Main])' BY <1>s, <3>1, IdleFrame DEF Halfway, PickPcs, g
    <3> QED BY <3>1, <3>4, <3>5, <1>0
  <2> QED BY <2>1, <2>2, <2>3, <2>4, <2>5, <2>6
<1>8. ASSUME NEW j \in Jobs, Present(j)' PROVE Handled(StockOf[j])'
  <2> DEFINE z == StockOf[j]
  <2>0. z \in Stocks OBVIOUS
  <2>1. Present(j) BY <1>7, <1>8 DEF Present
  <2>2. Handled(z) BY <2>1, <1>3 DEF Mended
  <2>3. CASE z = f.stock BY <2>0, <2>3, <1>7, <1>s DEF Handled, g
  <2>4. CASE z # f.stock
    <3>1. z \in boot.stocks \/ Agrees(z) BY <2>2, <2>4 DEF Handled, f
    <3>2. Agrees(z) => Agrees(z)' BY <2>0, <2>4, <1>7, AgreesKept
    <3> QED BY <3>1, <3>2, <1>3 DEF Handled
  <2> QED BY <2>3, <2>4
<1> QED BY <1>3, <1>7, <1>8 DEF Mended, g

\* The repair of a row, or the look at a stock's pointer.
LEMMA RepairBoot ==
  ASSUME Locked, Homes, Mended, Boot PROVE Mended'
<1>0. /\ Main \in Threads /\ rows \in [Jobs -> States] /\ fr \in [Threads -> Frames] /\ TypeOK
      /\ boot \in [jobs : SUBSET Jobs, stocks : SUBSET Stocks]
      /\ pointer \in [Stocks -> Jobs \cup {None}]
  BY DEF Locked, Typed, TypeOK, Threads
<1>1. ASSUME NEW k \in Jobs, BootRow(k) PROVE Mended'
  <2>1. /\ rows'[k] = Repaired(k) /\ \A j \in Jobs \ {k} : rows'[j] = rows[j]
        /\ UNCHANGED <<fr, pointer>> /\ boot'.stocks = boot.stocks /\ boot.jobs # {}
    BY <1>0, <1>1 DEF BootRow, Save, disk
  <2>2. fr[Main].pc = "idle" /\ \A j \in Jobs : Present(j) => StockOf[j] \in boot.stocks
    BY <2>1 DEF Mended
  <2>3. \A j \in Jobs : Present(j)' => Present(j) BY <2>1, <1>0, RepairedStatus DEF Present
  <2>4. \A j \in Jobs : Present(j)' => StockOf[j] \in boot'.stocks BY <2>1, <2>2, <2>3
  <2>5. Halfway(fr[Main])' BY <2>1, <2>2 DEF Halfway, PickPcs
  <2> QED BY <2>1, <2>2, <2>4, <2>5 DEF Mended, Handled
<1>2. ASSUME NEW s \in Stocks, BootStock(s) PROVE Mended'
  <2> DEFINE g == fr'[Main]
             i == pointer[s]
  <2>1. /\ UNCHANGED <<rows, pointer>> /\ boot.jobs = {} /\ boot'.jobs = {}
        /\ boot'.stocks = boot.stocks \ {s} /\ fr[Main].pc = "idle"
    BY <1>0, <1>2 DEF BootStock, db, disk
  <2>2. \/ /\ i # None /\ Whole(Loaded(i))
           /\ g = [Idle EXCEPT !.op = "boot", !.pc = "file", !.stock = s, !.pick = i, !.ps = Loaded(i)]
        \/ g = [Idle EXCEPT !.op = "boot", !.pc = "select", !.stock = s]
    <3>1. \A x : Goto(Main, x) => g = x BY <1>0 DEF Goto
    <3> HIDE DEF g
    <3> QED BY <1>2, <3>1 DEF BootStock
  <2> HIDE DEF g
  <2>3. g.stock = s /\ g.pc # "idle" BY <2>2 DEF Idle
  <2>4. Halfway(fr[Main])'
    <3>1. CASE i # None /\ Whole(Loaded(i)) /\
               g = [Idle EXCEPT !.op = "boot", !.pc = "file", !.stock = s, !.pick = i, !.ps = Loaded(i)]
      <4>1. g.pc = "file" /\ g.pick = i /\ g.ps = Loaded(i) BY <3>1 DEF Idle
      <4>2. i \in Jobs /\ StockOf[i] = s BY <3>1, <1>0 DEF Homes
      <4>3. Whole(rows[i]) BY <3>1, <4>2, <1>0 DEF Whole, Loaded, States
      <4> QED BY <3>1, <4>1, <4>2, <4>3, <2>1, <2>3 DEF Halfway, WholePick, PickPcs, g
    <3>2. CASE g = [Idle EXCEPT !.op = "boot", !.pc = "select", !.stock = s]
      <4>1. g.pc = "select" BY <3>2 DEF Idle
      <4> QED BY <4>1 DEF Halfway, PickPcs, g
    <3> QED BY <2>2, <3>1, <3>2
  <2>5. ASSUME NEW j \in Jobs, Present(j)' PROVE Handled(StockOf[j])'
    <3>1. Handled(StockOf[j]) BY <2>1, <2>5 DEF Mended, Present
    <3>2. CASE StockOf[j] = s BY <3>2, <2>3 DEF Handled, g
    <3>3. CASE StockOf[j] # s
      <4>1. StockOf[j] \in boot.stocks \/ Agrees(StockOf[j]) BY <3>1, <2>1 DEF Handled
      <4>2. Agrees(StockOf[j]) => Agrees(StockOf[j])' BY <2>1, AgreesKept
      <4> QED BY <4>1, <4>2, <3>3, <2>1 DEF Handled
    <3> QED BY <3>2, <3>3
  <2> QED BY <2>1, <2>4, <2>5 DEF Mended
<1> QED BY <1>1, <1>2 DEF Boot

\* A crash leaves every row and every stock that has one to be repaired.
LEMMA RepairBegins == ASSUME Typed, Crash PROVE Mended'
<1>1. /\ boot' = [jobs |-> {j \in Jobs : Present(j)},
                  stocks |-> {StockOf[j] : j \in {k \in Jobs : Present(k)}}]
      /\ UNCHANGED rows /\ fr'[Main] = Idle
  BY DEF Crash, db, Threads
<1>2. \A j \in Jobs : Present(j)' => j \in boot'.jobs /\ StockOf[j] \in boot'.stocks
  BY <1>1 DEF Present
<1>3. Halfway(fr[Main])' BY <1>1, IdleFrame DEF Halfway, PickPcs
<1> QED BY <1>1, <1>2, <1>3, IdleFrame DEF Mended, Handled

\* Every step from a state under repair leads to one where the repair is as far
\* as Mended says; only a crash leads from service to repair.
LEMMA NextMended ==
  ASSUME Locked, Homes, Mending, [Next]_vars
  PROVE  (~Serving => Mended') /\ Mending'
<1>1. CASE \E c \in Callers : Request(c)
  <2>1. PICK c \in Callers : Request(c) BY <1>1
  <2>2. Serving BY <2>1 DEF Request, Create, RetryRead, DeleteRead, ViewRead, Cancel, SetCurrent,
                            Latest, Call
  <2>3. UNCHANGED boot /\ fr'[Main] = fr[Main]
    <3>1. c # Main BY DEF Threads
    <3>2. fr' = fr \/ \E g : Goto(c, g)
      BY <2>1 DEF Request, Create, RetryRead, DeleteRead, ViewRead, Cancel, SetCurrent, Latest
    <3>3. UNCHANGED boot
      BY <2>1 DEF Request, Create, RetryRead, DeleteRead, ViewRead, Cancel, SetCurrent, Latest, Call
    <3> QED BY <3>1, <3>2, <3>3 DEF Goto, Locked, Typed, TypeOK, Threads
  <2> QED BY <2>2, <2>3 DEF Mending, Serving
<1>2. CASE \E t \in Threads : Start(t) \/ Step(t)
  <2> PICK t \in Threads : Start(t) \/ Step(t) BY <1>2
  <2>1. CASE ~Serving BY <2>1, RepairMoves, RepairStock DEF Mending
  <2>2. CASE Serving
    <3>1. CreateSubmit(t) \/ RetrySubmit(t) \/ Lock(t) \/ Quiet(t)
      BY RunQuiet, RetryQuiet, CallerQuiet, EndQuiet, PromoteQuiet DEF Locked, Start, Step
    <3>2. UNCHANGED boot BY <3>1 DEF CreateSubmit, RetrySubmit, Lock, Quiet
    <3>3. fr[Main].op = "none" BY <2>2, IdleOp DEF Locked, Serving, Threads
    <3>4. t # Main BY <3>1, <3>3 DEF CreateSubmit, RetrySubmit, Lock, Quiet
    <3>5. fr'[Main] = fr[Main]
      <4>1. CASE Quiet(t) BY <4>1, <3>4 DEF Quiet, Locked, Typed, TypeOK, Threads
      <4>2. CASE CreateSubmit(t) \/ RetrySubmit(t)
        <5>1. Place(t, fr[t]) /\ fr[t].op \in {"create", "retry"}
          BY <4>2 DEF CreateSubmit, RetrySubmit, Locked, Typed, Calls, Sound
        <5>2. <<fr[t].mgr, fr[t].job>> \in Tasks BY <5>1 DEF Place, Tasks
        <5>3. <<fr[t].mgr, fr[t].job>> # Main BY <5>2
        <5> QED BY <4>2, <3>4, <5>3 DEF CreateSubmit, RetrySubmit, Locked, Typed, TypeOK, Threads
      <4>3. CASE Lock(t) BY <4>3, <3>4 DEF Lock, Goto, Locked, Typed, TypeOK, Threads
      <4> QED BY <3>1, <4>1, <4>2, <4>3
    <3> QED BY <2>2, <3>2, <3>5 DEF Mending, Serving
  <2> QED BY <2>1, <2>2
<1>3. CASE Boot
  <2>1. ~Serving BY <1>3 DEF Boot, BootRow, BootStock, Serving
  <2> QED BY <2>1, <1>3, RepairBoot DEF Mending
<1>4. CASE Crash BY <1>4, RepairBegins DEF Locked, Mending
<1>5. CASE UNCHANGED vars
  BY <1>5 DEF vars, Mending, Mended, Serving, Halfway, WholePick, Handled, Agrees, CurrentJobs, Present
<1> QED BY <1>1, <1>2, <1>3, <1>4, <1>5 DEF Next, Rest

\* After a crash at any point, with any requests, runs, retries and deletions in
\* flight, start-up repair ends with no row in progress, and with latest.json
\* and the CURRENT flags in agreement for every stock that still has a job.
THEOREM RepairHolds == Spec => RestartRepairs
<1> DEFINE Good == Locked /\ BusyIsWorked /\ Homes /\ Mending
<1>1. ASSUME Init PROVE Good
  <2>1. Locked /\ BusyIsWorked BY <1>1, InitLocked
  <2>2. \A t \in Threads : fr[t].pc = "idle" BY <1>1, IdleFrame DEF Init
  <2>3. Homes BY <1>1, <2>2 DEF Init, Homes, Home, PickPcs
  <2>4. Serving BY <1>1, <2>2 DEF Init, Serving, Threads
  <2> QED BY <2>1, <2>3, <2>4 DEF Mending
<1>2. ASSUME Good, [Next]_vars PROVE Good' BY <1>2, NextLocked, NextHomes, NextMended DEF Locked
<1>3. ASSUME Good, Good', [Next]_vars, ~Serving, Serving'
      PROVE  Unbusy' /\ \A j \in Jobs : Present(j)' => Agrees(StockOf[j])'
  <2>1. \A j \in Jobs : Present(j)' => Agrees(StockOf[j])'
    BY <1>3, NextMended DEF Mended, Handled, Serving
  <2>2. ASSUME NEW t \in Threads PROVE ~Working(fr[t])'
    <3>1. \A u \in Threads : fr'[u] = fr[u] \/ u = Main \/ fr' = [v \in Threads |-> Idle]
      <4>0. fr \in [Threads -> Frames] /\ ~Serving BY <1>3 DEF Locked, Typed, TypeOK
      <4>1. CASE \E u \in Threads : Start(u) \/ Step(u)
        <5>1. PICK u \in Threads : Start(u) \/ Step(u) BY <4>1
        <5>2. u = Main /\ Quiet(u) BY <1>3, <5>1, RepairMoves, PromoteQuiet DEF Locked
        <5> QED BY <5>2, <4>0 DEF Quiet
      <4>2. CASE Boot
        <5>1. UNCHANGED fr \/ \E g : Goto(Main, g) BY <4>2 DEF Boot, BootRow, BootStock
        <5> QED BY <5>1, <4>0 DEF Goto
      <4>3. CASE Crash BY <4>3 DEF Crash
      <4>4. CASE UNCHANGED vars BY <4>4 DEF vars
      <4>5. CASE \E c \in Callers : Request(c)
        <5>1. PICK c \in Callers : Request(c) BY <4>5
        <5>2. Serving BY <5>1 DEF Request, Create, RetryRead, DeleteRead, ViewRead, Cancel,
                                  SetCurrent, Latest, Call
        <5> QED BY <5>2, <4>0
      <4>6. Next \/ UNCHANGED vars BY <1>3
      <4>7. \/ \E c \in Callers : Request(c)
            \/ \E u \in Threads : Start(u) \/ Step(u)
            \/ Boot \/ Crash \/ UNCHANGED vars
        BY <4>6 DEF Next, Rest
      <4> QED BY <4>7, <4>1, <4>2, <4>3, <4>4, <4>5
    <3>2. fr'[Main].op \in {"none", "boot"} BY <1>3 DEF Locked, Typed, Calls, Sound, Place, Threads
    <3>3. ~Working(fr[t]) BY <1>3, RepairQuiet
    <3> QED BY <3>1, <3>2, <3>3, IdleFrame DEF Working
  <2>3. Unbusy' BY <1>3, <2>2 DEF BusyIsWorked, Unbusy, Serving
  <2> QED BY <2>1, <2>3
<1>4. Good /\ Good' /\ [Next]_vars =>
        [~Serving /\ Serving' =>
           Unbusy' /\ \A j \in Jobs : Present(j)' => Agrees(StockOf[j])']_vars
  BY <1>3
<1> HIDE DEF Good
<1> QED BY <1>1, <1>2, <1>4, PTL DEF Spec, RestartRepairs

=============================================================================
