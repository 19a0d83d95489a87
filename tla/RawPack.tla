------------------------------ MODULE RawPack ------------------------------
(***************************************************************************)
(* The raw pack of a stock: the official documents that a run collects     *)
(* from its sources (raw_sources/runner.py with its downloaders, entity    *)
(* matcher and status router), the index it publishes (raw_pack_exporter), *)
(* and the background jobs of the web API (api/raw_pack.py), each a thread *)
(* over the directory of one F10 version.  A run names its directory by    *)
(* the second in which it begins.                                          *)
(*                                                                         *)
(* Every file is written in place: between its opening and its filling it  *)
(* is torn, for a reader and after a kill.                                 *)
(***************************************************************************)
EXTENDS Integers, Sequences, FiniteSets, Functions

CONSTANTS
    Jobs,        \* raw-pack jobs of the stock
    Manifest,    \* the sources, in the order of select_sources
    Market,      \* listed_market of the stock
    Website,     \* whether the F10 profile names the company's website
    Answers,     \* Answers[page]: how a page may answer
    MaxDocs,     \* max_docs of the jobs
    MaxSeconds,  \* bound on the clock
    MaxCrashes   \* bound on the restarts of the service

ASSUME RawPackAssumption ==
    /\ MaxDocs \in Nat \ {0} /\ MaxSeconds \in Nat /\ MaxCrashes \in Nat
    /\ Market \in {"SSE", "SZSE"} /\ Website \in BOOLEAN

\* The ids of the manifest are distinct; a site and an entrance have an address.
ASSUME ManifestAssumption ==
    /\ Manifest \in Seq([id : STRING, collector : STRING, pages : Seq(DOMAIN Answers),
                          reports : Seq(DOMAIN Answers), enabled : BOOLEAN])
    /\ \A i, k \in DOMAIN Manifest : Manifest[i].id = Manifest[k].id => i = k
    /\ \A i \in DOMAIN Manifest :
           Manifest[i].collector \in {"company_website", "status_probe", "index_probe"} =>
               Manifest[i].pages # <<>>

ASSUME AnswersAssumption ==
    \A page \in DOMAIN Answers : Answers[page] \subseteq [access : STRING, text : STRING]

VARIABLES
    second,     \* the clock
    began,      \* how many runs have begun in each second
    jobs,       \* _JOBS and the thread of each job; in memory
    packs,      \* the directory of each run: its downloads, its index, its quality report
    pointer,    \* latest.json of the packs
    artifacts,  \* artifacts.json of the F10 version
    crashes

vars == <<second, began, jobs, packs, pointer, artifacts, crashes>>

-----------------------------------------------------------------------------
Collectors == <<"sse_disclosure", "company_website", "roadshow_seed", "status_probe",
                "index_probe">>
Gated == {"HTTP_403", "JS_REQUIRED", "LOGIN_REQUIRED", "CAPTCHA_REQUIRED"}
NoDocuments == [whole |-> FALSE, docs |-> <<>>]
NoPack == [files |-> <<>>, index |-> NoDocuments, quality |-> "none"]
NoRun == -1
NoJob == [status |-> "none", at |-> "idle", run |-> NoRun, turn |-> 0, docs |-> <<>>, seen |-> {}]

\* No page, or nothing saved.
Absent == ""

\* The sources of a default request by their place in the manifest; of the SSE ones the
\* first.
select_sources ==
    {i \in DOMAIN Manifest :
        /\ Manifest[i].enabled
        /\ Market # "SSE" => Manifest[i].collector \notin {"sse_disclosure", "roadshow_seed"}}
Of(collector) == {i \in select_sources : Manifest[i].collector = collector}
CompanySources == {Manifest[i] : i \in Of("company_website")}
Plan ==
    {i \in UNION {Of(c) : c \in Range(Collectors)} :
        Manifest[i].collector = "sse_disclosure" => \A k \in Of("sse_disclosure") : i <= k}
Planned == [i \in Plan |-> Manifest[i]]

\* Their turns: collector by collector, each in the order of the manifest.
Before(i, k) ==
    \E a, b \in DOMAIN Collectors :
        /\ Manifest[i].collector = Collectors[a] /\ Manifest[k].collector = Collectors[b]
        /\ a < b \/ (a = b /\ i < k)
Turn == [i \in Plan |-> Cardinality({k \in Plan : Before(k, i)})]

\* Variant: a run is named by the day it begins in.
RunIdByDay(time) == 0

RunId(time) == time

Init ==
    /\ second = 0 /\ crashes = 0
    /\ began = [t \in 0..MaxSeconds |-> 0]
    /\ jobs = [j \in Jobs |-> NoJob]
    /\ packs = [t \in 0..MaxSeconds |-> NoPack]
    /\ pointer = [whole |-> TRUE, run |-> NoRun]
    /\ artifacts = [whole |-> TRUE, run |-> NoRun]

-----------------------------------------------------------------------------
\* What identifies the company in a candidate: a code, a name, the site, a text.
match_entity(candidate) ==
    CASE candidate.code -> "EXACT_ID_MATCH"
      [] ~candidate.code /\ candidate.name -> "EXACT_NAME_MATCH"
      [] ~candidate.code /\ ~candidate.name /\ candidate.site -> "BRAND_DOMAIN_MATCH"
      [] ~candidate.code /\ ~candidate.name /\ ~candidate.site /\ candidate.text ->
             IF candidate.highRisk THEN "AMBIGUOUS_NAME_MATCH" ELSE "BRAND_DOMAIN_MATCH"
      [] OTHER -> "NO_MATCH"

\* The collectors give the code or the full name themselves, never the page's.
Candidate(source, answer) ==
    [code |-> source.collector \in {"sse_disclosure", "roadshow_seed"},
     name |-> source.collector \in {"company_website", "status_probe", "index_probe"},
     site |-> source.collector = "company_website", text |-> answer.text = "named",
     highRisk |-> source.collector = "status_probe"]

save_no_match_evidence(source) ==
    [id |-> <<source.id, "NO_MATCH">>, page |-> Absent, status |-> "NO_MATCH", match |-> "NO_MATCH",
     saved |-> Absent]
save_permission_block(source, answer) ==
    [id |-> <<source.id, answer.access>>, page |-> Absent, status |-> "PERMISSION_BLOCKED",
     match |-> "UNRESOLVED", saved |-> Absent]

\* status_router: what a page's answer is worth.  saved is the hash of what was written.
route_download_result(source, page, answer, success) ==
    IF answer.access \in Gated THEN save_permission_block(source, answer)
    ELSE IF answer.access # "DOWNLOAD_OK"
         THEN [id |-> <<source.id, page, answer.access>>, page |-> page, status |-> "UNRESOLVED",
               match |-> match_entity(Candidate(source, answer)), saved |-> Absent]
         ELSE [id |-> <<source.id, page, answer.text>>, page |-> page, status |-> success,
               match |-> match_entity(Candidate(source, answer)), saved |-> answer.text]

\* A probe looks for the company in the text of one page.
ProbeDocument(source, answer) ==
    LET page == source.pages[1]
    IN  IF answer.access = "DOWNLOAD_OK" /\ answer.text # "named"
        THEN save_no_match_evidence(source)
        ELSE [route_download_result(source, page, answer, "INDEX_ONLY") EXCEPT
                 !.match = IF answer.access = "DOWNLOAD_OK" THEN @ ELSE "UNRESOLVED"]

Taken(docs, room) ==
    SubSeq(docs, 1, IF Len(docs) < room THEN Len(docs) ELSE room)

\* The seed pages of the SSE, then its periodic reports, if their list can be had.
SseDocuments(source, answer, listed, room) ==
    LET seeds == [k \in DOMAIN source.pages |->
                     route_download_result(source, source.pages[k], answer[source.pages[k]],
                                           "FACT_DIRECT")]
        reports == [k \in DOMAIN source.reports |->
                     route_download_result(source, source.reports[k], answer[source.reports[k]],
                                           "FACT_DIRECT")]
        found == IF listed THEN seeds \o Taken(reports, room - Len(seeds)) ELSE seeds
    IN  IF found = <<>> THEN <<save_no_match_evidence(source)>> ELSE found

RoadshowDocuments(source, answer) ==
    IF source.pages = <<>> THEN <<save_no_match_evidence(source)>>
    ELSE [k \in DOMAIN source.pages |->
             route_download_result(source, source.pages[k], answer[source.pages[k]],
                                   "PRIMARY_NONSTATUTORY")]

CompanyDocument(source, answer) ==
    IF Website THEN route_download_result(source, source.pages[1], answer, "COMPANY_CLAIM")
    ELSE [id |-> <<source.id, "NO_WEBSITE">>, page |-> Absent, status |-> "UNRESOLVED",
          match |-> "UNRESOLVED", saved |-> Absent]

\* What a source gives for the answers of its pages.
Documents(source, answer, listed, room) ==
    CASE source.collector = "sse_disclosure" -> SseDocuments(source, answer, listed, room)
      [] source.collector = "company_website" ->
             <<CompanyDocument(source, answer[source.pages[1]])>>
      [] source.collector = "roadshow_seed" -> RoadshowDocuments(source, answer)
      [] OTHER -> <<ProbeDocument(source, answer[source.pages[1]])>>

-----------------------------------------------------------------------------
\* The job's thread; everything it raises is caught.
At(j, place) == jobs[j].status = "RUNNING" /\ jobs[j].at = place
Set(j, job) == jobs' = [jobs EXCEPT ![j] = job]
Go(j, place) == Set(j, [jobs[j] EXCEPT !.at = place])

\* Variant: an exception ends the thread unnoticed.
RaisedUncaught(j) == Set(j, [jobs[j] EXCEPT !.at = "idle"])

Raised(j) == Set(j, [NoJob EXCEPT !.status = "FAILED"])

Create(j) ==
    /\ jobs[j].status = "none"
    /\ Set(j, [NoJob EXCEPT !.status = "PENDING"])
    /\ UNCHANGED <<second, began, packs, pointer, artifacts, crashes>>

Begin(j) ==
    /\ jobs[j].status = "PENDING"
    /\ Set(j, [jobs[j] EXCEPT !.status = "RUNNING", !.at = "collect", !.turn = 0,
                              !.run = RunId(second)])
    /\ began' = [began EXCEPT ![second] = @ + 1]
    /\ UNCHANGED <<second, packs, pointer, artifacts, crashes>>

Remaining(j) == MaxDocs - Len(jobs[j].docs)

\* A page that two company sources share is read for the first of them alone, and four
\* documents are enough of the company's site or of the SSE.
Company(j) ==
    {k \in DOMAIN jobs[j].docs :
        \E s \in CompanySources : s.id = jobs[j].docs[k].id[1]}
Passed(j, source) ==
    /\ source.collector = "company_website"
    /\ \/ Cardinality(Company(j)) >= 4
       \/ Website /\ source.pages[1] \in jobs[j].seen
Room(j, source) ==
    IF source.collector = "sse_disclosure" /\ Remaining(j) > 4 THEN 4 ELSE Remaining(j)

Asked(source) == Range(source.pages) \cup Range(source.reports)
AnswersOf(source) ==
    {f \in [Asked(source) -> UNION {Answers[p] : p \in Asked(source)}] :
        \A p \in Asked(source) : f[p] \in Answers[p]}
Written(source, docs) ==
    [f \in {<<source.id, docs[k].page>> : k \in {i \in DOMAIN docs : docs[i].saved # Absent}} |->
        docs[CHOOSE k \in DOMAIN docs : docs[k].page = f[2] /\ docs[k].saved # Absent].saved]

Overwritten(old, new) ==
    [f \in DOMAIN old \cup DOMAIN new |-> IF f \in DOMAIN new THEN new[f] ELSE old[f]]
Onward(j, docs, pages) ==
    Set(j, [jobs[j] EXCEPT !.turn = @ + 1, !.docs = @ \o docs, !.seen = @ \cup pages])

\* The next source of the plan: its pages are requested, and what they say written.
Collect(j) ==
    /\ At(j, "collect") /\ Remaining(j) > 0
    /\ \E next \in Plan :
           /\ Turn[next] = jobs[j].turn
           /\ LET source == Planned[next]
              IN  IF Passed(j, source) THEN Onward(j, <<>>, {}) /\ UNCHANGED packs
                  ELSE \E answer \in AnswersOf(source), listed \in BOOLEAN :
                           LET docs == Documents(source, answer, listed, Room(j, source))
                           IN  /\ source.collector # "sse_disclosure" => listed
                               /\ Onward(j, Taken(docs, Room(j, source)),
                                         Range(source.pages))
                               /\ packs' = [packs EXCEPT ![jobs[j].run].files =
                                               Overwritten(@, Written(source, docs))]
    /\ UNCHANGED <<second, began, pointer, artifacts, crashes>>

Collected(j) ==
    /\ At(j, "collect") /\ (jobs[j].turn >= Cardinality(Plan) \/ Remaining(j) <= 0)
    /\ Set(j, [jobs[j] EXCEPT !.at = "open_index", !.turn = 0, !.seen = {}])
    /\ UNCHANGED <<second, began, packs, pointer, artifacts, crashes>>

\* A page, or the F10 profile, that cannot be parsed; a file that cannot be written.
CollectRaises(j) ==
    /\ At(j, "collect")
    /\ Raised(j)
    /\ UNCHANGED <<second, began, packs, pointer, artifacts, crashes>>

-----------------------------------------------------------------------------
\* export_raw_pack: the index, the quality report made from it, the pointer.

\* Variant: the pointer is moved first.
AfterPointerFirst(place) ==
    CASE place = "open_index" -> "open_pointer"
      [] place = "fill_pointer" -> "fill_index"
      [] place = "fill_index" -> "validate"
      [] OTHER -> "read_artifacts"

After(place) ==
    CASE place = "open_index" -> "fill_index"
      [] place = "fill_index" -> "validate"
      [] place = "validate" -> "open_pointer"
      [] OTHER -> "read_artifacts"

OpenIndex(j) ==
    /\ At(j, "open_index")
    /\ packs' = [packs EXCEPT ![jobs[j].run].index = NoDocuments]
    /\ Go(j, After("open_index"))
    /\ UNCHANGED <<second, began, pointer, artifacts, crashes>>

FillIndex(j) ==
    /\ At(j, "fill_index")
    /\ packs' = [packs EXCEPT ![jobs[j].run].index = [whole |-> TRUE, docs |-> jobs[j].docs]]
    /\ Go(j, After("fill_index"))
    /\ UNCHANGED <<second, began, pointer, artifacts, crashes>>

\* validate_raw_pack reads the index back: document ids are unique, downloads there.
Quality(pack) ==
    LET docs == pack.index.docs
    IN  IF /\ IsInjective([k \in DOMAIN docs |-> docs[k].id])
           /\ \A k \in DOMAIN docs :
                  docs[k].saved # Absent => <<docs[k].id[1], docs[k].page>> \in DOMAIN pack.files
        THEN "PASS" ELSE "FAIL"

validate_raw_pack(j) ==
    /\ At(j, "validate")
    /\ IF packs[jobs[j].run].index.whole
       THEN /\ packs' = [packs EXCEPT ![jobs[j].run].quality = Quality(packs[jobs[j].run])]
            /\ Go(j, After("validate"))
       ELSE Raised(j) /\ UNCHANGED packs
    /\ UNCHANGED <<second, began, pointer, artifacts, crashes>>

OpenPointer(j) ==
    /\ At(j, "open_pointer")
    /\ pointer' = [whole |-> FALSE, run |-> NoRun]
    /\ Go(j, "fill_pointer")
    /\ UNCHANGED <<second, began, packs, artifacts, crashes>>

FillPointer(j) ==
    /\ At(j, "fill_pointer")
    /\ pointer' = [whole |-> TRUE, run |-> jobs[j].run]
    /\ Go(j, After("fill_pointer"))
    /\ UNCHANGED <<second, began, packs, artifacts, crashes>>

\* _update_f10_artifacts: a file of the F10 version that other threads write too.
ReadArtifacts(j) ==
    /\ At(j, "read_artifacts")
    /\ IF artifacts.whole THEN Go(j, "open_artifacts") ELSE Raised(j)
    /\ UNCHANGED <<second, began, packs, pointer, artifacts, crashes>>

OpenArtifacts(j) ==
    /\ At(j, "open_artifacts")
    /\ artifacts' = [whole |-> FALSE, run |-> NoRun]
    /\ Go(j, "fill_artifacts")
    /\ UNCHANGED <<second, began, packs, pointer, crashes>>

FillArtifacts(j) ==
    /\ At(j, "fill_artifacts")
    /\ artifacts' = [whole |-> TRUE, run |-> jobs[j].run]
    /\ Set(j, [jobs[j] EXCEPT !.at = "idle", !.status = "COMPLETED"])
    /\ UNCHANGED <<second, began, packs, pointer, crashes>>

-----------------------------------------------------------------------------
Tick ==
    /\ second < MaxSeconds
    /\ second' = second + 1
    /\ UNCHANGED <<began, jobs, packs, pointer, artifacts, crashes>>

\* The service is killed: its jobs are forgotten, its files stay as they are.
Restart ==
    /\ crashes < MaxCrashes
    /\ crashes' = crashes + 1
    /\ jobs' = [j \in Jobs |-> NoJob]
    /\ UNCHANGED <<second, began, packs, pointer, artifacts>>

Thread(j) ==
    \/ Begin(j) \/ Collect(j) \/ Collected(j) \/ CollectRaises(j)
    \/ OpenIndex(j) \/ FillIndex(j) \/ validate_raw_pack(j)
    \/ OpenPointer(j) \/ FillPointer(j)
    \/ ReadArtifacts(j) \/ OpenArtifacts(j) \/ FillArtifacts(j)

Next ==
    \/ \E j \in Jobs : Create(j) \/ Thread(j)
    \/ Tick \/ Restart

\* The system runs the threads of a service that is not killed.
Spec == Init /\ [][Next]_vars /\ WF_vars(\E j \in Jobs : Thread(j))

-----------------------------------------------------------------------------
\* Types, and no run keeps more documents than it was asked for
\* (raw_sources/runner.py:442-464).
TypeOK ==
    /\ second \in 0..MaxSeconds /\ crashes \in 0..MaxCrashes
    /\ \A j \in Jobs :
           /\ jobs[j].status \in {"none", "PENDING", "RUNNING", "COMPLETED", "FAILED"}
           /\ jobs[j].run \in {NoRun} \cup 0..MaxSeconds
           /\ Len(jobs[j].docs) <= MaxDocs
    /\ \A t \in 0..MaxSeconds : packs[t].quality \in {"none", "PASS", "FAIL"}
    /\ pointer.run \in {NoRun} \cup 0..MaxSeconds
    /\ artifacts.run \in {NoRun} \cup 0..MaxSeconds

\* A pack in order: its index is whole, checked, and each document it lists as saved
\* has the hash of the file that lies there.
InOrder(run) ==
    LET pack == packs[run]
    IN  /\ pack.index.whole /\ pack.quality # "none"
        /\ \A k \in DOMAIN pack.index.docs :
               LET d == pack.index.docs[k]
               IN  d.saved # Absent => /\ <<d.id[1], d.page>> \in DOMAIN pack.files
                                   /\ pack.files[<<d.id[1], d.page>>] = d.saved

\* No two runs of the stock begin in one second; nothing in the code sees to it.
Apart == \A t \in 0..MaxSeconds : began[t] <= 1

\* Unless two runs begin in one second, a COMPLETED job has the pack it reports, and
\* latest.json, when it can be read, names a pack in order: no other run of the stock,
\* at the same time or later, changes the index or a file behind it, and a kill leaves
\* no pointer to what is not finished (docs/raw-pack.md:36, raw_pack_exporter.py:197-213).
PacksInOrder ==
    Apart =>
        /\ pointer.run # NoRun => InOrder(pointer.run)
        /\ \A j \in Jobs :
               jobs[j].status = "COMPLETED" =>
                   InOrder(jobs[j].run) /\ packs[jobs[j].run].index.docs = jobs[j].docs

\* In the end no job stays PENDING or RUNNING: what a thread raises is caught
\* (api/raw_pack.py:67-90).
JobEnds == <>[](\A j \in Jobs : jobs[j].status \notin {"PENDING", "RUNNING"})

\* NO_MATCH is the answer of a search.  Not so: a source without a seed page, and the SSE
\* when its list of reports cannot be had, are recorded as NO_MATCH too
\* (docs/raw-pack.md:44).
NoMatchIsAnswer ==
    \A j \in Jobs : \A k \in DOMAIN jobs[j].docs :
        jobs[j].docs[k].status = "NO_MATCH" =>
            \E i \in Plan : /\ Manifest[i].id = jobs[j].docs[k].id[1]
                            /\ Manifest[i].collector \in {"status_probe", "index_probe"}

\* Every source of the plan leaves a document.  Not so for a company source whose page
\* is that of another one.
EverySourceAnswered ==
    \A j \in Jobs :
        jobs[j].status = "COMPLETED" /\ Len(jobs[j].docs) < MaxDocs =>
            \A i \in Plan :
                \E k \in DOMAIN jobs[j].docs : jobs[j].docs[k].id[1] = Manifest[i].id
=============================================================================
