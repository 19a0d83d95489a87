--------------------------- MODULE CrossValidation ---------------------------
(***************************************************************************)
(* The cross-source validation of one stock (cross_validation/runner.py):  *)
(* the reports an exchange has published are listed, the version of each   *)
(* one known at the cutoff is chosen, its PDF is downloaded and parsed,    *)
(* the facts are compared with the rows of Eastmoney, and an acceptance    *)
(* status is written.  The PDFs, the parsed facts and the checkpoint stay  *)
(* in a directory that later runs, with another cutoff, use again.         *)
(*                                                                         *)
(* Days and report dates are numbers.  What a PDF says is abstracted to    *)
(* the kind of its content; what is found for a row, to a reading.         *)
(***************************************************************************)
EXTENDS Integers, FiniteSets, FiniteSetsExt

CONSTANTS
    Workers,     \* threads and commands that may validate at the same time
    Securities,  \* [exchange, profile, inferred]: the listing day its exchange tells
                 \* and the one found in the data of Eastmoney; 0 when there is none
    Docs,        \* reports: [date, label, available]
    Rows,        \* rows of Eastmoney: [date, mode, primary, consolidated]
    Readings,    \* what the facts of a report hold for a row
    Periods,     \* values of max_periods
    MaxDay,      \* bound on the days
    MaxRuns,     \* bound on the jobs started
    MaxCrashes,  \* bound on the workers killed
    MaxOdd       \* bound on the contents that are not plain full reports

ASSUME ValidationAssumption ==
    /\ Workers # {} /\ MaxDay \in Nat \ {0} /\ MaxRuns \in Nat /\ MaxCrashes \in Nat
    /\ MaxOdd \in Nat
    /\ Periods \subseteq Nat \ {0}
    /\ \A doc \in Docs : doc.date \in Nat \ {0} /\ doc.available \in Nat
    /\ \A reading \in Readings :
          reading.value \in {"equal", "near", "far", "other_unit", "no_eastmoney", "no_official"}

VARIABLES
    day,         \* today
    security,    \* which of the Securities the stock is
    kind,        \* what the parser makes of a content
    pdfs,        \* source_documents of a directory: the content kept for a date
    parsed,      \* its parse cache: the document whose facts a content is kept as
    direct,      \* its official_direct_facts.parquet
    check,       \* the status in its checkpoint.json
    result,      \* its cross_validation_summary.json
    exported,    \* the run that wrote its comparison database, or -1 when it is torn,
                 \* and the facts of its {stock}_official_facts.parquet
    registered,  \* the directory artifacts.json names
    run,         \* the run of each worker
    done,        \* what each completed run has found
    runs, crashes

fileVars == <<pdfs, parsed, direct, check, result, exported, registered>>
boundVars == <<runs, crashes>>
cvVars == <<day, security, kind, fileVars, run, done, boundVars>>

-----------------------------------------------------------------------------
\* The command validates in the directory of the run, a research job in one of
\* its mode.
Dirs == {"default", "mode"}
Jobs == {"validate", "research", "pack"}
HomeOf(job) == IF job = "research" THEN "mode" ELSE "default"
Days == 1..MaxDay
RowDates == {row.date : row \in Rows}

Contents == [of : Docs, whole : BOOLEAN]
NoPdf == [of |-> [date |-> 0, label |-> "none", available |-> 0], whole |-> FALSE]
Kinds == {"full", "suspect", "zero", "summary"}

Idle == [at |-> "idle", job |-> "none", dir |-> "default", cutoff |-> 0, serial |-> 0, listed |-> 0,
         dates |-> {}, periodic |-> {}, reachable |-> TRUE, docs |-> {}, got |-> {},
         read |-> {}, facts |-> {}, status |-> [row \in Rows |-> "none"], acceptance |-> "none"]
NoExport == [run |-> 0, facts |-> {}]
NoResult == [cutoff |-> 0, facts |-> {}]

Matches == {"EXACT_MATCH", "WITHIN_ROUNDING", "DERIVED_MATCH"}
Conflicts == {"MISMATCH", "SCOPE_CONFLICT", "PERIOD_CONFLICT", "UNIT_CONFLICT"}
\* Variant: the statuses of the dates without a report do not count.
FactGaps == {"MISSING_OFFICIAL", "MISSING_EASTMONEY", "FUTURE_FREE_SOURCE_REQUIRED",
             "OFFICIAL_DOCUMENT_EXTRACTION_FAILED", "POST_LISTING_OFFICIAL_REPORT_NOT_FOUND"}

Gaps == {"MISSING_OFFICIAL", "MISSING_EASTMONEY", "FUTURE_FREE_SOURCE_REQUIRED",
         "PRE_LISTING_OFFICIAL_SOURCE_NOT_LOADED", "OFFICIAL_DOCUMENT_EXTRACTION_FAILED",
         "POST_LISTING_OFFICIAL_REPORT_NOT_FOUND", "OFFICIAL_REPORT_SUMMARY_SCOPE_GAP",
         "OFFICIAL_REPORT_NOT_YET_DISCLOSED"}
Acceptances == {"FAIL_SOURCE_CONFLICT", "PARTIAL_OFFICIAL_SOURCE_UNAVAILABLE",
                "PASS_WITH_COVERAGE_GAPS", "PASS"}

-----------------------------------------------------------------------------
\* The choice of the reports.

\* _official_report_dates: the last n dates that are not after the cutoff.
Requested(cutoff, n) ==
    LET known == {r \in RowDates : r <= cutoff}
    IN  {r \in known : Cardinality({s \in known : s > r}) < n}

Published == {doc \in Docs : doc.available <= day}

\* version_sort_key.
Priority(label) == CASE label \in {"corrected", "revised"} -> 30
                     [] label = "original" -> 20
                     [] OTHER -> 10
Supersedes(a, b) == \/ Priority(a.label) > Priority(b.label)
                    \/ Priority(a.label) = Priority(b.label) /\ a.available > b.available

\* Variant: a version that came out after the cutoff is eligible.
EligibleAnytime(date, cutoff) ==
    {doc \in Published : doc.date = date /\ doc.label # "withdrawn"}

Eligible(date, cutoff) ==
    {doc \in Published : /\ doc.date = date
                         /\ doc.label # "withdrawn"
                         /\ doc.available <= cutoff}

Newest(versions) == CHOOSE a \in versions : \A b \in versions : ~Supersedes(b, a)

\* select_report_versions.
Selected(dates, cutoff) ==
    {Newest(Eligible(r, cutoff)) : r \in {d \in dates : Eligible(d, cutoff) # {}}}

-----------------------------------------------------------------------------
\* The comparison.

\* Registered modes whose rows an official report should confirm.
Expected(row) == row.mode \in {"OFFICIAL_DIRECT", "OFFICIAL_DERIVED", "OFFICIAL_METADATA"}

\* Among candidates of either scope, a row of the group does not take the parent's.
Chosen(row, scopes) ==
    IF row.consolidated /\ "group" \notin scopes THEN "SCOPE_CONFLICT" ELSE "found"

\* _find_official.
Found(row, reading) ==
    CASE reading.exact # {} -> Chosen(row, reading.exact)
      [] reading.exact = {} /\ row.primary /\ row.mode = "OFFICIAL_DIRECT" -> "nothing"
      [] reading.exact = {} /\ ~(row.primary /\ row.mode = "OFFICIAL_DIRECT")
         /\ reading.period # {} -> Chosen(row, reading.period)
      [] OTHER -> IF reading.date /\ row.mode = "OFFICIAL_DIRECT"
                  THEN "PERIOD_CONFLICT" ELSE "nothing"

\* The two values, once their units and texts are normalized.
ValueStatus(row, value) ==
    CASE value \in {"equal", "near"} /\ row.mode = "OFFICIAL_DERIVED" -> "DERIVED_MATCH"
      [] value = "equal" /\ row.mode # "OFFICIAL_DERIVED" -> "EXACT_MATCH"
      [] value = "near" /\ row.mode # "OFFICIAL_DERIVED" -> "WITHIN_ROUNDING"
      [] value = "far" -> "MISMATCH"
      [] value = "other_unit" -> "UNIT_CONFLICT"
      [] value = "no_eastmoney" -> "MISSING_EASTMONEY"
      [] value = "no_official" -> "MISSING_OFFICIAL"

\* compare, for a row: loaded holds the dates of the official facts, and
\* extracted those whose report gave comparable ones.
RowStatus(row, reading, loaded, extracted) ==
    CASE row.mode = "NOT_IN_PERIODIC_REPORT_SCOPE" -> "NOT_IN_OFFICIAL_SCOPE"
      [] row.mode = "EASTMONEY_SOURCE_SPECIFIC" -> "SOURCE_SPECIFIC"
      [] row.mode = "FUTURE_FREE_SOURCE_REQUIRED" -> "FUTURE_FREE_SOURCE_REQUIRED"
      [] Expected(row) /\ loaded # {} /\ row.date \notin loaded -> "OFFICIAL_PERIOD_NOT_LOADED"
      [] OTHER -> LET found == IF row.date \in extracted THEN Found(row, reading) ELSE "nothing"
                  IN  CASE found = "found" -> ValueStatus(row, reading.value)
                        [] found = "nothing" -> "MISSING_OFFICIAL"
                        [] OTHER -> found

\* What the source package says of the dates.
Source(r) ==
    LET available == {doc.date : doc \in r.docs}
        absent == r.periodic \ available
        latest == Max(available \cup {0})
        pending == {d \in absent : latest > 0 /\ d > latest}
        summaries == {d \in available : kind[pdfs[r.dir][d]] = "summary"}
    IN  [pre |-> r.dates \ r.periodic,
         latest |-> latest,
         missing |-> absent \ pending,
         summaries |-> summaries,
         zero |-> {d \in available : kind[pdfs[r.dir][d]] = "zero"} \ summaries]

\* apply_lifecycle_statuses: its masks, in their order.
LifecycleStatus(status, date, src) ==
    LET open == status \in {"MISSING_OFFICIAL", "OFFICIAL_PERIOD_NOT_LOADED"}
    IN  CASE date \in src.pre /\ (open \/ status = "PERIOD_CONFLICT")
                -> "PRE_LISTING_OFFICIAL_SOURCE_NOT_LOADED"
          [] date \notin src.pre /\ date \in src.summaries /\ open
                -> "OFFICIAL_REPORT_SUMMARY_SCOPE_GAP"
          [] /\ src.latest > 0 /\ date > src.latest
             /\ date \notin src.pre \cup src.missing
             /\ status = "OFFICIAL_PERIOD_NOT_LOADED"
                -> "OFFICIAL_REPORT_NOT_YET_DISCLOSED"
          [] date \in src.zero /\ open -> "OFFICIAL_DOCUMENT_EXTRACTION_FAILED"
          [] date \in src.missing /\ open -> "POST_LISTING_OFFICIAL_REPORT_NOT_FOUND"
          [] OTHER -> status

\* The rows of a run, whose official facts may also hold some no row has.
Compared(r, reading) ==
    LET loaded == {doc.date : doc \in r.docs}
        extracted == {f.date : f \in r.facts}
    IN  [row \in Rows |->
            LET status == RowStatus(row, reading[row], loaded, extracted)
            IN  IF r.reachable THEN LifecycleStatus(status, row.date, Source(r))
                ELSE IF status = "MISSING_OFFICIAL" THEN "OFFICIAL_SOURCE_UNAVAILABLE" ELSE status]

\* FAIL_CLASSIFICATION_COVERAGE is left out: the registry gives every row a mode
\* (registry.py:245).  unmatched are the facts that no row of Eastmoney has.
Acceptance(r, status, unmatched) ==
    LET all == {status[row] : row \in Rows}
        suspects == \E doc \in r.docs : kind[pdfs[r.dir][doc.date]] = "suspect"
    IN  CASE all \cap Conflicts # {} -> "FAIL_SOURCE_CONFLICT"
          [] all \cap Conflicts = {} /\ ~r.reachable -> "PARTIAL_OFFICIAL_SOURCE_UNAVAILABLE"
          [] all \cap Conflicts = {} /\ r.reachable /\ (all \cap Gaps # {} \/ unmatched \/ suspects)
                -> "PASS_WITH_COVERAGE_GAPS"
          [] OTHER -> "PASS"

-----------------------------------------------------------------------------
Set(w, r) == run' = [run EXCEPT ![w] = r]
At(w, l) == run[w].at = l

CVInit ==
    /\ day = 1
    /\ security \in Securities
    /\ kind = [c \in Contents |-> "unread"]
    /\ pdfs = [d \in Dirs |-> [r \in {doc.date : doc \in Docs} |-> NoPdf]]
    /\ parsed = [d \in Dirs |-> {}]
    /\ direct = [d \in Dirs |-> {}]
    /\ check = [d \in Dirs |-> "none"]
    /\ result = [d \in Dirs |-> NoResult]
    /\ exported = [d \in Dirs |-> NoExport]
    /\ registered = "none"
    /\ run = [w \in Workers |-> Idle]
    /\ done = {}
    /\ runs = 0 /\ crashes = 0

\* Time passes, and reports come out.
Tomorrow ==
    /\ day < MaxDay
    /\ day' = day + 1
    /\ UNCHANGED <<security, kind, fileVars, run, done, boundVars>>

\* run: the checkpoint says RUNNING, and goes on saying it if the run fails.
Begin(w) ==
    /\ run[w] = Idle /\ runs < MaxRuns
    /\ runs' = runs + 1
    /\ \E job \in {"validate", "research"}, cutoff \in Days :
          /\ Set(w, [Idle EXCEPT !.at = "discover", !.job = job, !.dir = HomeOf(job),
                                 !.cutoff = cutoff, !.serial = runs + 1])
          /\ check' = [check EXCEPT ![HomeOf(job)] = "RUNNING"]
    /\ UNCHANGED <<day, security, kind, pdfs, parsed, direct, result, exported, registered,
                   done, crashes>>

\* An exception anywhere: no date to report on, a site that does not answer, a
\* PDF that cannot be read.
Raise(w) ==
    /\ \/ At(w, "discover")
       \/ At(w, "download") /\ \E doc \in run[w].docs \ run[w].got :
                                  pdfs[run[w].dir][doc.date] = NoPdf
       \/ At(w, "parse") /\ \E doc \in run[w].docs \ run[w].read :
                                  ~pdfs[run[w].dir][doc.date].whole
    /\ Set(w, Idle)
    /\ UNCHANGED <<day, security, kind, fileVars, done, boundVars>>

\* An exchange without an adapter has no reports.  The profile of a Shanghai
\* stock gives its listing day, or fails, and Eastmoney's is used.
Discover(w) ==
    /\ At(w, "discover")
    /\ \E n \in Periods :
        LET r == run[w]
            dates == Requested(r.cutoff, n)
        IN  /\ dates # {}
            /\ \/ /\ security.exchange = "BJ"
                  /\ Set(w, [r EXCEPT !.at = "compare", !.dates = dates, !.periodic = dates,
                                      !.reachable = FALSE])
               \/ /\ security.exchange # "BJ"
                  /\ \E listed \in {security.inferred} \cup
                          (IF security.exchange = "SH" THEN {security.profile} \ {0} ELSE {}) :
                        LET periodic == {d \in dates : d >= listed}
                        IN  Set(w, [r EXCEPT !.at = "download", !.dates = dates,
                                             !.listed = day, !.periodic = periodic,
                                             !.docs = Selected(periodic, r.cutoff)])
    /\ UNCHANGED <<day, security, kind, fileVars, done, boundVars>>

\* cached_or_download: a PDF there is for the date is used, whichever version
\* it holds.
Download(w) ==
    /\ At(w, "download")
    /\ \E doc \in run[w].docs \ run[w].got :
        /\ IF pdfs[run[w].dir][doc.date] = NoPdf
           THEN pdfs' = [pdfs EXCEPT ![run[w].dir][doc.date] = [of |-> doc, whole |-> TRUE]]
           ELSE UNCHANGED pdfs
        /\ Set(w, [run[w] EXCEPT !.got = @ \cup {doc}])
    /\ UNCHANGED <<day, security, kind, parsed, direct, check, result, exported, registered,
                   done, boundVars>>

Downloaded(w) ==
    /\ At(w, "download") /\ run[w].got = run[w].docs
    /\ Set(w, [run[w] EXCEPT !.at = "parse"])
    /\ UNCHANGED <<day, security, kind, fileVars, done, boundVars>>

Outcomes(content) ==
    CASE kind[content] # "unread" -> {kind[content]}
      [] kind[content] = "unread" /\ Cardinality({c \in Contents : kind[c] \in Kinds \ {"full"}}) >= MaxOdd
            -> {"full"}
      [] OTHER -> Kinds

\* parse_document: the facts of a content parsed before are those of the
\* document it was parsed as.
Parse(w) ==
    /\ At(w, "parse")
    /\ \E doc \in run[w].docs \ run[w].read :
        LET d == run[w].dir
            content == pdfs[d][doc.date]
            kept == {p \in parsed[d] : p.content = content}
            as == IF kept = {} THEN doc ELSE (CHOOSE p \in kept : TRUE).as
        IN  /\ \E k \in Outcomes(content) :
                  /\ kind' = [kind EXCEPT ![content] = k]
                  /\ Set(w, [run[w] EXCEPT
                        !.read = @ \cup {doc},
                        !.facts = @ \cup (IF k = "zero" THEN {}
                                          ELSE {[date |-> doc.date, content |-> content, as |-> as]})])
            /\ parsed' = [parsed EXCEPT ![d] = @ \cup {[content |-> content, as |-> as]}]
    /\ UNCHANGED <<day, security, pdfs, direct, check, result, exported, registered,
                   done, boundVars>>

\* The facts replace those of the earlier run, unless there are none.
Collect(w) ==
    /\ At(w, "parse") /\ run[w].read = run[w].docs
    /\ direct' = IF run[w].facts = {} THEN direct
                 ELSE [direct EXCEPT ![run[w].dir] = run[w].facts]
    /\ Set(w, [run[w] EXCEPT !.at = "compare"])
    /\ UNCHANGED <<day, security, kind, pdfs, parsed, check, result, exported, registered,
                   done, boundVars>>

Compare(w) ==
    /\ At(w, "compare")
    /\ \E reading \in [Rows -> Readings], unmatched \in BOOLEAN :
        LET status == Compared(run[w], reading)
        IN  /\ unmatched => run[w].docs # {}
            /\ Set(w, [run[w] EXCEPT !.at = "export", !.status = status,
                                     !.acceptance = Acceptance(run[w], status, unmatched)])
    /\ UNCHANGED <<day, security, kind, fileVars, done, boundVars>>

Export(w) ==
    /\ At(w, "export")
    /\ exported' = [exported EXCEPT ![run[w].dir] = [run |-> run[w].serial, facts |-> run[w].facts]]
    /\ Set(w, [run[w] EXCEPT !.at = "complete"])
    /\ UNCHANGED <<day, security, kind, pdfs, parsed, direct, check, result, registered,
                   done, boundVars>>

\* The summary, then the checkpoint.
Complete(w) ==
    LET r == run[w]
    IN  /\ At(w, "complete")
        /\ result' = [result EXCEPT ![r.dir] = [cutoff |-> r.cutoff, facts |-> r.facts]]
        /\ check' = [check EXCEPT ![r.dir] = "COMPLETED"]
        /\ done' = {x \in done : ~(x.dir = r.dir /\ x.cutoff = r.cutoff)} \cup
                   {[dir |-> r.dir, cutoff |-> r.cutoff, day |-> r.listed, periodic |-> r.periodic,
                     docs |-> r.docs, facts |-> r.facts]}
        /\ Set(w, [r EXCEPT !.at = "register", !.status = Idle.status, !.acceptance = "none"])
        /\ UNCHANGED <<day, security, kind, pdfs, parsed, direct, exported, registered, boundVars>>

\* artifacts.json of the run's directory.  A research job goes on to its pack.
Register(w) ==
    /\ At(w, "register")
    /\ registered' = run[w].dir
    /\ Set(w, IF run[w].job = "research"
              THEN [Idle EXCEPT !.at = "open", !.job = "research", !.dir = run[w].dir,
                                !.cutoff = run[w].cutoff, !.serial = run[w].serial]
              ELSE Idle)
    /\ UNCHANGED <<day, security, kind, pdfs, parsed, direct, check, result, exported,
                   done, boundVars>>

\* A worker may be killed anywhere.
Killed(w) == run[w] # Idle /\ crashes < MaxCrashes /\ crashes' = crashes + 1

\* While it downloads from Shanghai's site the PDFs on their way may be torn;
\* the others are written aside and renamed.  The database is written in place.
Kill(w) ==
    /\ Killed(w)
    /\ LET d == run[w].dir
           coming == {doc \in run[w].docs \ run[w].got : pdfs[d][doc.date] = NoPdf}
       IN  /\ \E torn \in IF At(w, "download") /\ security.exchange = "SH"
                          THEN SUBSET coming ELSE {{}} :
                 pdfs' = [pdfs EXCEPT ![d] = [r \in DOMAIN @ |->
                            IF \E doc \in torn : doc.date = r
                            THEN [of |-> CHOOSE doc \in torn : doc.date = r, whole |-> FALSE]
                            ELSE @[r]]]
           /\ exported' \in {exported, IF At(w, "export") THEN [exported EXCEPT ![d].run = -1]
                                       ELSE exported}
    /\ Set(w, Idle)
    /\ UNCHANGED <<day, security, kind, parsed, direct, check, result, registered, done, runs>>

Validation(w) ==
    \/ Begin(w) \/ Raise(w) \/ Discover(w)
    \/ Download(w) \/ Downloaded(w) \/ Parse(w) \/ Collect(w)
    \/ Compare(w) \/ Export(w) \/ Complete(w) \/ Register(w)

-----------------------------------------------------------------------------
\* Properties.

\* A validation that ends in PASS has confirmed every row of the dates it was
\* asked for that an official report should confirm: no late, lost, summary or
\* unreadable report hides behind it.
PassMeansCovered ==
    \A w \in Workers : run[w].acceptance = "PASS" /\ run[w].at \in {"export", "complete"} =>
        \A row \in Rows : row.date \in run[w].dates /\ Expected(row) =>
                              run[w].status[row] \in Matches

\* A validation repeated later with the same cutoff, that had passed already,
\* has the same documents and the same facts, for the dates both expect
\* reports of: whatever came out since, failed or was killed in between.
StableRepeat ==
    [][\A x \in done, y \in done' :
          x.dir = y.dir /\ x.cutoff = y.cutoff /\ x.cutoff <= x.day =>
            LET both == x.periodic \cap y.periodic
            IN  /\ {doc \in x.docs : doc.date \in both} = {doc \in y.docs : doc.date \in both}
                /\ {f \in x.facts : f.date \in both} = {f \in y.facts : f.date \in both}]_cvVars

\* No fact of a completed validation comes from a report that came out after
\* its cutoff.
NoFutureFacts ==
    \A d \in Dirs : check[d] = "COMPLETED" =>
        \A f \in result[d].facts : f.content.of.available <= result[d].cutoff

=============================================================================
