--------------------------- MODULE FetchPipeline ---------------------------
(***************************************************************************)
(* One output directory of FetchPipeline (fetch/pipeline.py) and the       *)
(* passes of run() over it: the raw cache of the HTTP clients, the group   *)
(* files, combined.json, and in memory the results of the pass and the     *)
(* tasks of its pool.  A host (FetchRun: the command line; JobData: the    *)
(* task centre) starts passes, sets the cancel event and is killed.        *)
(*                                                                         *)
(* A request stands for all pages of one request specification.  A write   *)
(* in place is one step; a kill while it may be under way tears the file.  *)
(***************************************************************************)
EXTENDS Integers, FiniteSets

CONSTANTS
    Page,      \* the PageAjax group, always first
    Standard,  \* the groups with fixed requests
    Fallback,  \* those of them that name a precise fallback
    Quote,     \* those answered by the realtime quote transport
    Dynamic,   \* the groups whose requests come from another group's records
    Source,    \* Source[d]: the group that dynamic group d reads
    Ids,       \* the identifiers a source with data names
    Workers    \* settings.max_workers

ASSUME FetchAssumption ==
    /\ Page \notin Standard \cup Dynamic
    /\ Standard \cap Dynamic = {}
    /\ Fallback \cup Quote \subseteq Standard
    /\ Source \in [Dynamic -> {Page} \cup Standard]
    /\ IsFiniteSet(Standard \cup Dynamic)
    /\ Workers \in Nat \ {0}

VARIABLES
    raw,       \* raw/: the cached answer of each request
    file,      \* groups/<group_id>.json
    combined,  \* combined.json
    pass,      \* where run() is
    results,   \* self.results of the pass
    task,      \* the step each group of the pass is at
    out,       \* the result of a finished task, until the pass collects it
    cancelled, \* the cancel event of the host
    disturbed  \* ghost: a request failed or a process was killed since the host reset it

pipeVars == <<raw, file, combined, pass, results, task, out, cancelled, disturbed>>

-----------------------------------------------------------------------------
Groups == {Page} \cup Standard \cup Dynamic

Kinds(g) == IF g \in Dynamic THEN Ids
            ELSE IF g \in Fallback THEN {"candidate", "fallback"} ELSE {"candidate"}

Requests == UNION {{<<g, k>> : k \in Kinds(g)} : g \in Groups}

\* A GroupResult by what its readers tell apart: its success flag and its data.
\* "bad" is an HTTP 200 answer that reports a business failure or lacks the
\* expected fields, "empty" a success without any request, "part" a success
\* with some requests failed.
Data == {"none", "bad", "part", "good", "empty"}
Result == [success : BOOLEAN, data : Data]
Missing == [success |-> FALSE, data |-> "absent"]
Torn == [success |-> FALSE, data |-> "torn"]
Readable(f) == f \notin {Missing, Torn}

NoGroups == [g \in Groups |-> Missing]
NoCombined == [state |-> "absent", groups |-> NoGroups]
TornCombined == [state |-> "torn", groups |-> NoGroups]
FailedIn(rs) == {g \in Groups : Readable(rs[g]) /\ ~rs[g].success}

-----------------------------------------------------------------------------
\* request: a cached answer is read outside the retry loop, so a torn file is
\* an error for good; otherwise the network answers, or fails all its retries.
\* Any answer about an identifier becomes a record.  The quote transport
\* accepts no answer but the one it asked for: all fields at once, or else by
\* batches, each halved until a single field fails, and the request with it.
QuoteAnswers == {"good"}
Accepted(g) == IF g \in Dynamic THEN {"good"}
               ELSE IF g \in Quote THEN QuoteAnswers ELSE {"good", "bad"}

Replies(r) == CASE raw[r] = "torn" -> {"error"}
                [] raw[r] = "none" -> {"error"} \cup Accepted(r[1])
                [] OTHER -> {raw[r]}

\* The requests of group g in the answers f: every answer is cached.
Answered(g, f) ==
    /\ raw' = [r \in Requests |->
                 IF r[1] = g /\ r[2] \in DOMAIN f /\ raw[r] = "none" /\ f[r[2]] # "error"
                 THEN f[r[2]] ELSE raw[r]]
    /\ disturbed' = (disturbed \/ \E k \in DOMAIN f : raw[<<g, k>>] = "none" /\ f[k] = "error")

\* The result of a standard group whose last request was answered o: the
\* validation of the payload decides on the fallback, not on the success.
StandardResult(o) == [success |-> o # "error", data |-> IF o = "error" THEN "none" ELSE o]

\* Only a source with data names identifiers.
Identifiers(d) == IF results[Source[d]].data = "good" THEN Ids ELSE {}

\* Variant: only a group with records is a success.
DynamicResultStrict(f) ==
    [success |-> \E i \in DOMAIN f : f[i] # "error",
     data |-> IF DOMAIN f = {} THEN "empty"
              ELSE IF \A i \in DOMAIN f : f[i] = "error" THEN "none"
              ELSE IF \E i \in DOMAIN f : f[i] = "error" THEN "part" ELSE "good"]

DynamicResult(f) ==
    LET failed == {i \in DOMAIN f : f[i] = "error"}
        records == DOMAIN f \ failed
    IN [success |-> failed = {} \/ records # {},
        data |-> IF DOMAIN f = {} THEN "empty"
                 ELSE IF records = {} THEN "none"
                 ELSE IF failed # {} THEN "part" ELSE "good"]

-----------------------------------------------------------------------------
PipeInit ==
    /\ raw = [r \in Requests |-> "none"]
    /\ file = NoGroups
    /\ combined = NoCombined
    /\ pass = "off"
    /\ results = NoGroups
    /\ task = [g \in Groups |-> "idle"]
    /\ out = NoGroups
    /\ cancelled = FALSE
    /\ disturbed = FALSE

\* Variant: a pass never loads the group files.
StartPassBlind(resume) ==
    /\ results' = NoGroups
    /\ pass' = "page"
    /\ task' = [g \in Groups |-> "idle"]
    /\ out' = NoGroups
    /\ UNCHANGED <<raw, file, combined, cancelled>>

\* run(resume): a new pipeline loads the group files that parse and succeeded.
StartPass(resume) ==
    /\ results' = [g \in Groups |-> IF resume /\ file[g].success THEN file[g] ELSE Missing]
    /\ pass' = "page"
    /\ task' = [g \in Groups |-> "idle"]
    /\ out' = NoGroups
    /\ UNCHANGED <<raw, file, combined, cancelled>>

\* PageAjax is fetched first, in the thread of the pass.
PageStart ==
    /\ pass = "page" /\ task[Page] = "idle" /\ results[Page] = Missing
    /\ task' = [task EXCEPT ![Page] = "candidate"]
    /\ UNCHANGED <<raw, file, combined, pass, results, out, cancelled, disturbed>>

\* _execute_requests raises when it finds the event set: out of run() for
\* PageAjax, into a future that nobody collects for a worker.
Abort(g) ==
    /\ task[g] \in {"candidate", "fallback"} /\ cancelled
    /\ task' = [task EXCEPT ![g] = "gone"]
    /\ pass' = IF g = Page THEN "raised" ELSE pass
    /\ UNCHANGED <<raw, file, combined, results, out, cancelled, disturbed>>

Candidate(g, o) ==
    /\ task[g] = "candidate" /\ ~cancelled
    /\ o \in Replies(<<g, "candidate">>)
    /\ Answered(g, [k \in {"candidate"} |-> o])
    /\ IF o # "good" /\ g \in Fallback
       THEN task' = [task EXCEPT ![g] = "fallback"] /\ UNCHANGED out
       ELSE /\ task' = [task EXCEPT ![g] = "done"]
            /\ out' = [out EXCEPT ![g] = StandardResult(o)]
    /\ UNCHANGED <<file, combined, pass, results, cancelled>>

FallbackTried(g, o) ==
    /\ task[g] = "fallback" /\ ~cancelled
    /\ o \in Replies(<<g, "fallback">>)
    /\ Answered(g, [k \in {"fallback"} |-> o])
    /\ task' = [task EXCEPT ![g] = "done"]
    /\ out' = [out EXCEPT ![g] = StandardResult(o)]
    /\ UNCHANGED <<file, combined, pass, results, cancelled>>

\* _save_group, called for each result the pass takes.
SaveGroup(g, res) ==
    /\ file' = [file EXCEPT ![g] = res]
    /\ results' = [results EXCEPT ![g] = res]
    /\ out' = [out EXCEPT ![g] = Missing]

PageSave ==
    /\ pass = "page" /\ task[Page] = "done"
    /\ SaveGroup(Page, out[Page])
    /\ task' = [task EXCEPT ![Page] = "idle"]
    /\ UNCHANGED <<raw, combined, pass, cancelled, disturbed>>

\* The standard groups that have no result yet are submitted to the pool.
PoolStart ==
    /\ pass = "page" /\ results[Page] # Missing
    /\ pass' = "pool"
    /\ task' = [g \in Groups |->
                  IF g \in Standard /\ results[g] = Missing THEN "queued" ELSE "idle"]
    /\ UNCHANGED <<raw, file, combined, results, out, cancelled, disturbed>>

Running == {g \in Standard : task[g] \in {"candidate", "fallback"}}

Take(g) ==
    /\ pass = "pool" /\ task[g] = "queued"
    /\ Cardinality(Running) < Workers
    /\ task' = [task EXCEPT ![g] = "candidate"]
    /\ UNCHANGED <<raw, file, combined, pass, results, out, cancelled, disturbed>>

\* Variant: a collected result is not written to its group file.
CollectUnsaved(g) ==
    /\ pass = "pool" /\ g \in Standard /\ task[g] = "done" /\ ~cancelled
    /\ results' = [results EXCEPT ![g] = out[g]]
    /\ out' = [out EXCEPT ![g] = Missing]
    /\ task' = [task EXCEPT ![g] = "idle"]
    /\ UNCHANGED <<raw, file, combined, pass, cancelled, disturbed>>

\* The loop over as_completed leaves at the first result it sees cancelled.
Collect(g) ==
    /\ pass = "pool" /\ g \in Standard /\ task[g] = "done" /\ ~cancelled
    /\ SaveGroup(g, out[g])
    /\ task' = [task EXCEPT ![g] = "idle"]
    /\ UNCHANGED <<raw, combined, pass, cancelled, disturbed>>

\* Leaving the pool waits for every task, also for those not collected.
PoolEnd ==
    /\ pass = "pool"
    /\ \A g \in Standard : task[g] \in {"idle"} \cup (IF cancelled THEN {"done", "gone"} ELSE {})
    /\ pass' = "dynamic"
    /\ UNCHANGED <<raw, file, combined, results, task, out, cancelled, disturbed>>

DynamicStart(d) ==
    /\ pass = "dynamic" /\ ~cancelled /\ results[d] = Missing
    /\ \A e \in Dynamic : task[e] = "idle"
    /\ task' = [task EXCEPT ![d] = "items"]
    /\ UNCHANGED <<raw, file, combined, pass, results, out, cancelled, disturbed>>

\* All identifiers are requested at once; no request looks at the cancel event.
DynamicAnswered(d, f) ==
    /\ pass = "dynamic" /\ task[d] = "items"
    /\ \A i \in DOMAIN f : f[i] \in Replies(<<d, i>>)
    /\ Answered(d, f)
    /\ task' = [task EXCEPT ![d] = "done"]
    /\ out' = [out EXCEPT ![d] = DynamicResult(f)]
    /\ UNCHANGED <<file, combined, pass, results, cancelled>>

DynamicSave(d) ==
    /\ pass = "dynamic" /\ task[d] = "done"
    /\ SaveGroup(d, out[d])
    /\ task' = [task EXCEPT ![d] = "idle"]
    /\ UNCHANGED <<raw, combined, pass, cancelled, disturbed>>

DynamicEnd ==
    /\ pass = "dynamic"
    /\ \A d \in Dynamic : task[d] = "idle" /\ (cancelled \/ results[d] # Missing)
    /\ pass' = "combine"
    /\ UNCHANGED <<raw, file, combined, results, task, out, cancelled, disturbed>>

Combine ==
    /\ pass = "combine"
    /\ combined' = [state |-> "whole", groups |-> results]
    /\ pass' = "returned"
    /\ UNCHANGED <<raw, file, results, task, out, cancelled, disturbed>>

GroupStep(g) ==
    \/ Take(g)
    \/ Abort(g)
    \/ \E o \in Replies(<<g, "candidate">>) : Candidate(g, o)
    \/ g \in Fallback /\ \E o \in Replies(<<g, "fallback">>) : FallbackTried(g, o)
    \/ Collect(g)

DynamicStep(d) ==
    \/ DynamicStart(d)
    \/ \E f \in [Identifiers(d) -> {"error", "good"}] : DynamicAnswered(d, f)
    \/ DynamicSave(d)

PassStep ==
    \/ PageStart \/ PageSave \/ PoolStart \/ PoolEnd \/ DynamicEnd \/ Combine
    \/ \E g \in {Page} \cup Standard : GroupStep(g)
    \/ \E d \in Dynamic : DynamicStep(d)

-----------------------------------------------------------------------------
\* The process is killed: requests under way may have been cached, wholly or
\* torn, and the file the pass was writing may be torn.
InFlight ==
    {r \in Requests : /\ raw[r] = "none"
                      /\ \/ task[r[1]] = r[2]
                         \/ task[r[1]] = "items" /\ r[2] \in Identifiers(r[1])}

Saving == {g \in Groups : task[g] = "done"
                          /\ (g \in Standard => ~cancelled)}

KillPass ==
    /\ pass # "off"
    /\ \E cut \in SUBSET InFlight :
         raw' = [r \in Requests |-> IF r \in cut THEN "torn" ELSE raw[r]]
    /\ \/ UNCHANGED file
       \/ \E g \in Saving : file' = [file EXCEPT ![g] = Torn]
    /\ \/ UNCHANGED combined
       \/ pass = "combine" /\ combined' = TornCombined
    /\ pass' = "off"
    /\ results' = NoGroups
    /\ task' = [g \in Groups |-> "idle"]
    /\ out' = NoGroups
    /\ disturbed' = TRUE
    /\ UNCHANGED cancelled

-----------------------------------------------------------------------------
PipeTypeOK ==
    /\ raw \in [Requests -> {"none", "torn", "good", "bad"}]
    /\ file \in [Groups -> Result \cup {Missing, Torn}]
    /\ combined \in [state : {"absent", "torn", "whole"},
                     groups : [Groups -> Result \cup {Missing}]]
    /\ pass \in {"off", "page", "pool", "dynamic", "combine", "returned", "raised"}
    /\ results \in [Groups -> Result \cup {Missing}]
    /\ task \in [Groups -> {"idle", "queued", "candidate", "fallback", "items", "done", "gone"}]
    /\ out \in [Groups -> Result \cup {Missing}]
    /\ cancelled \in BOOLEAN /\ disturbed \in BOOLEAN
=============================================================================
