------------------------------ MODULE FetchRun ------------------------------
(***************************************************************************)
(* The fetch command (cli.py) under the retrying wrapper                   *)
(* scripts/run_resilient_fetch.py: an invocation of the wrapper runs fetch *)
(* up to MaxAttempts times; a fetch makes up to three passes of            *)
(* FetchPipeline, builds the exports and is validated.  Both processes may *)
(* be killed, and the wrapper is invoked again on the same directory.      *)
(***************************************************************************)
EXTENDS FetchPipeline

CONSTANTS
    MaxAttempts,  \* --max-attempts
    MaxRuns,      \* bound on the invocations of the wrapper
    MaxKills      \* bound on the kills

ASSUME RunAssumption == MaxAttempts \in Nat \ {0} /\ MaxRuns \in Nat /\ MaxKills \in Nat

VARIABLES
    pc,       \* where the wrapper and its process are
    passes,   \* passes made by the fetch process
    force,    \* --force of this invocation
    attempt,  \* attempt of this invocation
    exports,  \* artifacts.json and the files it names
    report,   \* status in resilient-fetch-report.json
    runs,     \* invocations so far (bound)
    kills     \* kills so far (bound)

hostVars == <<pc, passes, force, attempt, exports, report, runs, kills>>
fetchVars == <<pipeVars, hostVars>>

-----------------------------------------------------------------------------
MaxPasses == 3

FetchInit ==
    /\ PipeInit
    /\ pc = "off"
    /\ passes = 0
    /\ force = FALSE
    /\ attempt = 0
    /\ exports = "absent"
    /\ report = "none"
    /\ runs = 0
    /\ kills = 0

\* The wrapper has ended.
Ended == pc' = "off" /\ passes' = 0 /\ force' = FALSE /\ attempt' = 0

Invoke(forced) ==
    /\ pc = "off" /\ runs < MaxRuns
    /\ pc' = "spawn"
    /\ force' = forced
    /\ attempt' = 1
    /\ runs' = runs + 1
    /\ disturbed' = FALSE
    /\ UNCHANGED <<raw, file, combined, pass, results, task, out, cancelled,
                   passes, exports, report, kills>>

\* --force is passed to the first attempt only.
Spawn ==
    /\ pc = "spawn"
    /\ StartPass(~(force /\ attempt = 1))
    /\ pc' = "fetch"
    /\ passes' = 1
    /\ UNCHANGED <<disturbed, force, attempt, exports, report, runs, kills>>

Fetching ==
    /\ pc = "fetch"
    /\ PassStep
    /\ UNCHANGED hostVars

\* fetch repeats the pass, resuming, while groups have failed.
PassAgain ==
    /\ pc = "fetch" /\ pass = "returned"
    /\ passes < MaxPasses /\ FailedIn(results) # {}
    /\ StartPass(TRUE)
    /\ passes' = passes + 1
    /\ UNCHANGED <<disturbed, pc, force, attempt, exports, report, runs, kills>>

PassLast ==
    /\ pc = "fetch" /\ pass = "returned"
    /\ passes = MaxPasses \/ FailedIn(results) = {}
    /\ pass' = "off"
    /\ pc' = "export"
    /\ UNCHANGED <<raw, file, combined, results, task, out, cancelled, disturbed,
                   passes, force, attempt, exports, report, runs, kills>>

\* build_exports; fetch then exits with 0, whether groups have failed or not.
Export ==
    /\ pc = "export"
    /\ exports' = "whole"
    /\ results' = NoGroups
    /\ out' = NoGroups
    /\ pc' = "validate"
    /\ UNCHANGED <<raw, file, combined, pass, task, cancelled, disturbed,
                   passes, force, attempt, report, runs, kills>>

\* Variant: the failed groups of combined.json are not counted.
ValidParsed ==
    /\ combined.state = "whole"
    /\ exports = "whole"

\* validate: both JSON files parse, no group has failed, the files exist.  (With
\* --skip-validate, which no caller in the repository gives, PASS needs only that fetch
\* exits with 0: left out.)
Valid ==
    /\ combined.state = "whole"
    /\ FailedIn(combined.groups) = {}
    /\ exports = "whole"

Validated ==
    /\ pc = "validate" /\ Valid
    /\ report' = "PASS"
    /\ Ended
    /\ UNCHANGED <<pipeVars, exports, runs, kills>>

Rejected ==
    /\ pc = "validate" /\ ~Valid
    /\ pc' = "classify"
    /\ UNCHANGED <<pipeVars, passes, force, attempt, exports, report, runs, kills>>

\* classify_failure: what the process prints names no network error, and the
\* code of a killed child (-9, -15) is none of those listed, so that failed
\* groups are the only reason to try again: those of combined.json, which an
\* earlier process may have written, or of the group files if there is none.
FailedGroupCount ==
    CASE combined.state = "whole" -> Cardinality(FailedIn(combined.groups))
      [] combined.state = "absent" -> Cardinality(FailedIn(file))
      [] OTHER -> 0

Retryable == FailedGroupCount > 0

Again ==
    /\ pc = "classify" /\ Retryable /\ attempt < MaxAttempts
    /\ report' = "RETRYING"
    /\ attempt' = attempt + 1
    /\ pc' = "spawn"
    /\ UNCHANGED <<pipeVars, passes, force, exports, runs, kills>>

GiveUp ==
    /\ pc = "classify" /\ ~(Retryable /\ attempt < MaxAttempts)
    /\ report' = "FAILED"
    /\ Ended
    /\ UNCHANGED <<pipeVars, exports, runs, kills>>

\* The fetch process is killed, with or without the wrapper.
Kill ==
    /\ kills < MaxKills
    /\ \/ pc = "fetch" /\ KillPass /\ UNCHANGED exports
       \/ /\ pc = "export"
          /\ exports' \in {exports, "torn"}
          /\ results' = NoGroups
          /\ out' = NoGroups
          /\ disturbed' = TRUE
          /\ UNCHANGED <<raw, file, combined, pass, task, cancelled>>
    /\ \/ pc' = "classify" /\ UNCHANGED <<passes, force, attempt>>
       \/ Ended
    /\ kills' = kills + 1
    /\ UNCHANGED <<report, runs>>

Work == Spawn \/ Fetching \/ PassAgain \/ PassLast \/ Export
        \/ Validated \/ Rejected \/ Again \/ GiveUp

\* The directory is left alone: anywhere else a state without a step is a
\* deadlock.
LeftAlone == pc = "off" /\ UNCHANGED fetchVars

FetchNext == Work \/ Kill \/ LeftAlone \/ \E forced \in BOOLEAN : Invoke(forced)

FetchSpec == FetchInit /\ [][FetchNext]_fetchVars

-----------------------------------------------------------------------------
\* Types of the directory, of the pass and of the wrapper around it.
FetchTypeOK ==
    /\ PipeTypeOK
    /\ pc \in {"off", "spawn", "fetch", "export", "validate", "classify"}
    /\ passes \in 0..MaxPasses
    /\ force \in BOOLEAN
    /\ attempt \in 0..MaxAttempts
    /\ exports \in {"absent", "torn", "whole"}
    /\ report \in {"none", "RETRYING", "PASS", "FAILED"}
    /\ runs \in 0..MaxRuns
    /\ kills \in 0..MaxKills

\* The wrapper says PASS only of a directory whose combined.json holds a
\* success for every group of the manifest, the very one saved in its group
\* file, whatever was torn or left by earlier processes (cli.validate looks at
\* combined.json alone, and counts failures, not groups).
PassMeansComplete ==
    [][pc = "validate" /\ pc' = "off" =>
         \A g \in Groups : combined.groups[g].success /\ combined.groups[g] = file[g]]_fetchVars

\* A group saved as a success is fetched again only by the one pass that was
\* told to ignore the group files: not by a resumed pass, a retry of fetch or
\* of the wrapper, or a later invocation (pipeline.py:95-102, 317-326).
SavedSuccessKept ==
    [][\A g \in Groups : file[g].success /\ file'[g] # file[g] =>
         force /\ attempt = 1 /\ passes = 1]_fetchVars

\* With the network answering and nothing killed, an invocation passes, from
\* whatever state the earlier ones left, unless a torn file in the raw cache
\* is in its way: reading it fails outside the retry loop (client.py:160).
FailureHasCause ==
    [][pc = "classify" /\ pc' = "off" =>
         disturbed \/ \E r \in Requests : raw[r] = "torn"]_fetchVars

\* What the documentation expects of a repeated run: of a directory that
\* passed, a dynamic group is empty only if its source had nothing to name.
\* A source that fails in the first pass makes its dynamic group an empty
\* success, which no later pass repeats (pipeline.py:274, 349-351).
DynamicFollowsSource ==
    pc = "off" /\ report = "PASS" /\ kills = 0 =>
        \A d \in Dynamic : file[d].data = "empty" => file[Source[d]].data # "good"
=============================================================================
