-------------------------- MODULE ResearchPackProofs --------------------------
(***************************************************************************)
(* What holds of CrossValidation and ResearchPack for every stock, report, *)
(* row and bound: the types, that PASS hides no gap (PassMeansCovered),    *)
(* and, of the runs that follow one another, that a validation can be      *)
(* repeated (StableRepeat) and that a completed pack was made of what its  *)
(* fingerprint names (PackOfInputs).                                       *)
(*                                                                         *)
(* The argument: a PDF that is kept, the kind of its content and the       *)
(* document it was parsed as do not change any more, so that the documents *)
(* of a run determine its facts; the documents are those known at the      *)
(* cutoff once this day has come.  A pack keeps to the inputs in its       *)
(* checkpoint: a stage is kept under its name only after its result.       *)
(***************************************************************************)
EXTENDS ResearchPack, WellFoundedInduction, TLAPS

USE ValidationAssumption

-----------------------------------------------------------------------------
(* Types.                                                                  *)

Dates == {doc.date : doc \in Docs}
CutoffRange == {0} \cup Days
PdfRange == Contents \cup {NoPdf}
FactSet == [date : Dates, content : PdfRange, as : Docs]
ParsedSet == [content : PdfRange, as : Docs]
Statuses == Matches \cup Conflicts \cup Gaps \cup
            {"none", "NOT_IN_OFFICIAL_SCOPE", "SOURCE_SPECIFIC", "OFFICIAL_PERIOD_NOT_LOADED",
             "OFFICIAL_SOURCE_UNAVAILABLE"}
AcceptanceRange == Acceptances \cup {"none"}
Ats == {"idle", "discover", "download", "parse", "compare", "export", "complete", "register",
        "open", "load", "stages", "validate", "publish"}

RunSet == [at : Ats, job : Jobs \cup {"none"}, dir : Dirs, cutoff : CutoffRange,
           serial : 0..MaxRuns, listed : CutoffRange, dates : SUBSET RowDates,
           periodic : SUBSET RowDates, reachable : BOOLEAN, docs : SUBSET Docs,
           got : SUBSET Docs, read : SUBSET Docs, facts : SUBSET FactSet,
           status : [Rows -> Statuses], acceptance : AcceptanceRange]
ResultSet == [cutoff : CutoffRange, facts : SUBSET FactSet]
ExportSet == [run : -1..MaxRuns, facts : SUBSET FactSet]
DoneSet == [dir : Dirs, cutoff : CutoffRange, day : CutoffRange, periodic : SUBSET RowDates,
            docs : SUBSET Docs, facts : SUBSET FactSet]

InputSet == [cutoff : CutoffRange, official : SUBSET FactSet, database : -1..MaxRuns]
NoteStatuses == {"none", "RUNNING", "COMPLETED", "FAILED"}
NoteSet == [status : NoteStatuses, inputs : InputSet, stages : SUBSET Stages]
TableSet == [Stages -> InputSet]
PackSet == [note : NoteSet, loaded : InputSet, tables : TableSet, saved : SUBSET Stages]
PointerSet == [dir : Dirs \cup {"none"}, cutoff : CutoffRange]

\* What the runs keep in their directories.
FilesTyped ==
    /\ pdfs \in [Dirs -> [Dates -> PdfRange]]
    /\ parsed \in [Dirs -> SUBSET ParsedSet]
    /\ direct \in [Dirs -> SUBSET FactSet]
    /\ check \in [Dirs -> {"none", "RUNNING", "COMPLETED"}]
    /\ result \in [Dirs -> ResultSet]
    /\ exported \in [Dirs -> ExportSet]
    /\ registered \in Dirs \cup {"none"}

RunsTyped ==
    /\ run \in [Workers -> RunSet]
    /\ \A w \in Workers : run[w].got \subseteq run[w].docs /\ run[w].read \subseteq run[w].docs
    /\ done \in SUBSET DoneSet

PacksTyped ==
    /\ note \in [Dirs -> NoteSet]
    /\ cache \in [Dirs -> TableSet]
    /\ package \in [Dirs -> TableSet]
    /\ pointer \in PointerSet
    /\ pack \in [Workers -> PackSet]

Typed ==
    /\ day \in Days /\ runs \in 0..MaxRuns /\ crashes \in 0..MaxCrashes
    /\ security \in Securities
    /\ kind \in [Contents -> Kinds \cup {"unread"}]
    /\ FilesTyped /\ RunsTyped /\ PacksTyped

-----------------------------------------------------------------------------

(* The inductive invariants.                                               *)

Working == {"download", "parse", "compare", "export", "complete"}
Gathered == {"compare", "export", "complete"}
Exchange == security.exchange

\* The versions known at a cutoff that the day has come of, and the choice
\* among them.
Known(r, cutoff) == {doc \in Docs : /\ doc.date = r
                                    /\ doc.label # "withdrawn"
                                    /\ doc.available <= cutoff}
KnownDocs(periodic, cutoff) ==
    {Newest(Known(r, cutoff)) : r \in {d \in periodic : Known(d, cutoff) # {}}}

\* The content of a document in a directory, for good once it is there.
Content(d, doc) == pdfs[d][doc.date]
Fetched(d, doc) == Content(d, doc) # NoPdf

\* A fact of a document, of the files, their kinds and what was parsed.
FactIn(files, parses, doc, f) ==
    /\ f.date = doc.date /\ f.content = files[doc.date]
    /\ [content |-> f.content, as |-> f.as] \in parses

\* The facts are those of the documents.
FactsIn(files, kinds, parses, docs, facts) ==
    /\ \A doc \in docs : files[doc.date] # NoPdf /\ kinds[files[doc.date]] # "unread"
    /\ \A f \in facts : \E doc \in docs : FactIn(files, parses, doc, f)
                                         /\ kinds[files[doc.date]] # "zero"
    /\ \A doc \in docs : kinds[files[doc.date]] # "zero" =>
          \E f \in facts : FactIn(files, parses, doc, f)
FactsOf(d, docs, facts) == FactsIn(pdfs[d], kind, parsed[d], docs, facts)

\* A content is parsed once.
ParsedOnce ==
    \A d \in Dirs : \A p, q \in parsed[d] : p.content = q.content => p = q

\* The run of a worker, from the choice of its documents to its facts.
RunInOrder(w) ==
    LET r == run[w]
    IN  /\ r.at \in {"discover"} \cup Working => r.cutoff \in Days
        /\ r.at = "discover" => /\ r.listed = 0 /\ r.docs = {} /\ r.got = {}
                                /\ r.read = {} /\ r.facts = {}
        /\ r.at \in Working =>
              /\ \A doc \in r.got : Fetched(r.dir, doc)
              /\ FactsOf(r.dir, r.read, r.facts)
              /\ r.listed <= day
              /\ Exchange = "BJ" => r.listed = 0
              /\ r.cutoff <= r.listed => r.docs = KnownDocs(r.periodic, r.cutoff)
        /\ r.at \in Working \ {"download"} => r.docs \subseteq r.got
        /\ r.at \in Gathered => r.docs = r.read

\* What was found, of documents that do not change any more.
DoneInOrder ==
    \A x \in done :
        /\ x.cutoff \in Days /\ x.day <= day
        /\ Exchange = "BJ" => x.day = 0
        /\ x.cutoff <= x.day => x.docs = KnownDocs(x.periodic, x.cutoff)
        /\ FactsOf(x.dir, x.docs, x.facts)
        /\ \A y \in done : x.dir = y.dir /\ x.cutoff = y.cutoff => x = y

RunsInOrder == ParsedOnce /\ DoneInOrder /\ \A w \in Workers : RunInOrder(w)

\* One worker at a time: the next run lists the reports after the last one.
OneAtATime == \A v, w \in Workers : v = w
ListedLater ==
    \A w \in Workers : run[w].at \in Working => \A x \in done : x.day <= run[w].listed

\* The pack of a worker, while nobody else works: what its checkpoint has in
\* memory and on disk, and that it was made of these inputs so far.
PackInOrder(w) ==
    LET d == run[w].dir
        inputs == pack[w].note.inputs
    IN  /\ run[w].at = "load" =>
              /\ note[d] = pack[w].note
              /\ inputs = Inputs(run[w].cutoff)
              /\ pack[w].saved = {} /\ pack[w].tables = NoTables
        /\ run[w].at = "stages" =>
              /\ note[d] = pack[w].note /\ note[d].status = "RUNNING"
              /\ pack[w].loaded = inputs
              /\ \A s \in Stages :
                    /\ pack[w].tables[s] # NoInputs => pack[w].tables[s] = inputs
                                                       /\ cache[d][s] = inputs
                    /\ s \in pack[w].saved => pack[w].tables[s] = inputs
        /\ run[w].at = "validate" =>
              /\ note[d] = pack[w].note /\ note[d].status = "RUNNING"
              /\ \A s \in Stages : package[d][s] = inputs

\* The results that are kept under the names in a checkpoint.
CacheInOrder ==
    \A d \in Dirs : \A s \in note[d].stages : cache[d][s] \in {NoInputs, note[d].inputs}

PacksInOrder == CacheInOrder /\ PackOfInputs /\ \A w \in Workers : PackInOrder(w)

IInv == Typed /\ PassMeansCovered /\ RunsInOrder
SerialIInv == IInv /\ ListedLater /\ PacksInOrder

-----------------------------------------------------------------------------

(* The records of the runs.                                                *)

\* What Set does to the runs.
LEMMA SetRun ==
  ASSUME run \in [Workers -> RunSet], NEW w \in Workers, NEW r, Set(w, r)
  PROVE  /\ run'[w] = r
         /\ \A v \in Workers : v # w => run'[v] = run[v]
         /\ r \in RunSet => run' \in [Workers -> RunSet]
BY DEF Set

\* A run that does nothing.
LEMMA IdleTyped == /\ Idle \in RunSet /\ Idle.at = "idle" /\ Idle.acceptance = "none"
                   /\ Idle.got = {} /\ Idle.docs = {} /\ Idle.read = {} /\ Idle.facts = {}
                   /\ Idle.status \in [Rows -> Statuses] /\ Idle.listed = 0
<1> DEFINE none == [row \in Rows |-> "none"]
<1>1. none \in [Rows -> Statuses] BY DEF Statuses
<1>2. Idle = [at |-> "idle", job |-> "none", dir |-> "default", cutoff |-> 0, serial |-> 0,
              listed |-> 0, dates |-> {}, periodic |-> {}, reachable |-> TRUE, docs |-> {},
              got |-> {}, read |-> {}, facts |-> {}, status |-> none, acceptance |-> "none"]
  BY DEF Idle
<1>3. 0 \in 0..MaxRuns /\ 0 \in CutoffRange /\ "default" \in Dirs /\ "idle" \in Ats
      /\ "none" \in AcceptanceRange
  BY DEF CutoffRange, Dirs, Ats, AcceptanceRange
<1> HIDE DEF none
<1> QED BY <1>1, <1>2, <1>3 DEF RunSet

\* The facts a document adds, and the days.
LEMMA DaysAre == Days \subseteq Nat \ {0} /\ Days \subseteq CutoffRange /\ CutoffRange \subseteq Nat
                 /\ 1 \in Days
BY DEF Days, CutoffRange

\* The runs keep their types when a worker's run does.
LEMMA RunsTypedBy ==
  ASSUME RunsTyped, NEW w \in Workers, NEW r \in RunSet, Set(w, r),
         r.got \subseteq r.docs, r.read \subseteq r.docs
  PROVE  run' \in [Workers -> RunSet] /\ \A v \in Workers : run'[v].got \subseteq run'[v].docs
                                                  /\ run'[v].read \subseteq run'[v].docs
BY SetRun DEF RunsTyped

\* What is read of the files is typed.
LEMMA FilesRead ==
  ASSUME Typed
  PROVE  /\ Official \in SUBSET FactSet
         /\ \A cutoff \in CutoffRange : Inputs(cutoff) \in InputSet
<1>1. /\ direct \in [Dirs -> SUBSET FactSet] /\ exported \in [Dirs -> ExportSet]
      /\ registered \in Dirs \cup {"none"}
  BY DEF Typed, FilesTyped
<1>2. \A d \in Dirs : exported[d].facts \in SUBSET FactSet /\ exported[d].run \in -1..MaxRuns
  BY <1>1 DEF ExportSet
<1>3. "default" \in Dirs BY DEF Dirs
<1>4. Official \in SUBSET FactSet BY <1>1, <1>2, <1>3 DEF Official
<1>5. ASSUME NEW cutoff \in CutoffRange PROVE Inputs(cutoff) \in InputSet
  BY <1>1, <1>2, <1>3, <1>4 DEF Inputs, InputSet
<1> QED BY <1>4, <1>5

-----------------------------------------------------------------------------
(* The comparison.                                                         *)

OfficialModes == {"OFFICIAL_DIRECT", "OFFICIAL_DERIVED", "OFFICIAL_METADATA"}
Wanting == {"MISSING_OFFICIAL", "OFFICIAL_PERIOD_NOT_LOADED"}

\* What two values come to.
LEMMA ValueStatusIs ==
  ASSUME NEW row, NEW reading \in Readings
  PROVE  ValueStatus(row, reading.value) \in Matches \cup Conflicts \cup Gaps
BY DEF ValueStatus, Matches, Conflicts, Gaps

\* What is found for a row.
LEMMA FoundIs ==
  ASSUME NEW row, NEW reading
  PROVE  Found(row, reading) \in {"found", "nothing", "SCOPE_CONFLICT", "PERIOD_CONFLICT"}
BY DEF Found, Chosen

\* The status of a row: one that an official report should confirm has a
\* match, a conflict or a gap, or its report is not loaded.
LEMMA RowStatusIs ==
  ASSUME NEW row, NEW reading \in Readings, NEW loaded, NEW extracted
  PROVE  /\ RowStatus(row, reading, loaded, extracted) \in Statuses
         /\ Expected(row) =>
              \/ RowStatus(row, reading, loaded, extracted) \in Matches \cup Conflicts \cup Gaps
              \/ /\ RowStatus(row, reading, loaded, extracted) = "OFFICIAL_PERIOD_NOT_LOADED"
                 /\ row.date \notin loaded
<1> DEFINE found == IF row.date \in extracted THEN Found(row, reading) ELSE "nothing"
           value == ValueStatus(row, reading.value)
           compared == CASE found = "found" -> value
                         [] found = "nothing" -> "MISSING_OFFICIAL"
                         [] OTHER -> found
<1>1. found \in {"found", "nothing", "SCOPE_CONFLICT", "PERIOD_CONFLICT"} BY FoundIs
<1>2. value \in Matches \cup Conflicts \cup Gaps BY ValueStatusIs
<1>3. RowStatus(row, reading, loaded, extracted) =
        CASE row.mode = "NOT_IN_PERIODIC_REPORT_SCOPE" -> "NOT_IN_OFFICIAL_SCOPE"
          [] row.mode = "EASTMONEY_SOURCE_SPECIFIC" -> "SOURCE_SPECIFIC"
          [] row.mode = "FUTURE_FREE_SOURCE_REQUIRED" -> "FUTURE_FREE_SOURCE_REQUIRED"
          [] Expected(row) /\ loaded # {} /\ row.date \notin loaded -> "OFFICIAL_PERIOD_NOT_LOADED"
          [] OTHER -> compared
  BY DEF RowStatus
<1> HIDE DEF found, value
<1>4. compared \in Matches \cup Conflicts \cup Gaps
  BY <1>1, <1>2 DEF Conflicts, Gaps
<1> HIDE DEF compared
<1>5. Expected(row) => row.mode \in OfficialModes BY DEF Expected, OfficialModes
<1>6. Expected(row) =>
        \/ RowStatus(row, reading, loaded, extracted) = compared
        \/ /\ RowStatus(row, reading, loaded, extracted) = "OFFICIAL_PERIOD_NOT_LOADED"
           /\ row.date \notin loaded
  BY <1>3, <1>5 DEF OfficialModes
<1>7. RowStatus(row, reading, loaded, extracted) \in
        {"NOT_IN_OFFICIAL_SCOPE", "SOURCE_SPECIFIC", "FUTURE_FREE_SOURCE_REQUIRED",
         "OFFICIAL_PERIOD_NOT_LOADED", compared}
  BY <1>3
<1>8. RowStatus(row, reading, loaded, extracted) \in Statuses
  BY <1>4, <1>7 DEF Statuses, Gaps
<1> QED BY <1>4, <1>6, <1>8

\* A lifecycle status is a gap, or the status of the comparison.
LEMMA LifecycleIs ==
  ASSUME NEW status, NEW date, NEW src
  PROVE  LifecycleStatus(status, date, src) \in Gaps \cup {status}
BY DEF LifecycleStatus, Gaps

\* A date without its report is a gap, before the listing, before the latest
\* report or after it.
LEMMA LifecycleGap ==
  ASSUME NEW date, NEW src,
         \/ date \in src.pre
         \/ src.latest > 0 /\ date > src.latest
         \/ date \in src.missing
  PROVE  LifecycleStatus("OFFICIAL_PERIOD_NOT_LOADED", date, src) \in Gaps
<1> DEFINE pre == date \in src.pre
           late == src.latest > 0 /\ date > src.latest
           missing == date \in src.missing
           summary == date \in src.summaries
           zero == date \in src.zero
<1>1. LifecycleStatus("OFFICIAL_PERIOD_NOT_LOADED", date, src) =
        CASE pre -> "PRE_LISTING_OFFICIAL_SOURCE_NOT_LOADED"
          [] ~pre /\ summary -> "OFFICIAL_REPORT_SUMMARY_SCOPE_GAP"
          [] late /\ ~pre /\ ~missing -> "OFFICIAL_REPORT_NOT_YET_DISCLOSED"
          [] zero -> "OFFICIAL_DOCUMENT_EXTRACTION_FAILED"
          [] missing -> "POST_LISTING_OFFICIAL_REPORT_NOT_FOUND"
          [] OTHER -> "OFFICIAL_PERIOD_NOT_LOADED"
  BY DEF LifecycleStatus
<1>2. pre \/ late \/ missing OBVIOUS
<1> HIDE DEF pre, late, missing, summary, zero
<1> QED BY <1>1, <1>2 DEF Gaps

\* Of a run that has asked for the date, the lifecycle makes a gap of a report
\* that is not loaded.
LEMMA NotLoadedIsGap ==
  ASSUME NEW r \in RunSet, NEW date \in r.dates,
         date \notin {doc.date : doc \in r.docs}
  PROVE  LifecycleStatus("OFFICIAL_PERIOD_NOT_LOADED", date, Source(r)) \in Gaps
<1> DEFINE available == {doc.date : doc \in r.docs}
           absent == r.periodic \ available
           latest == Max(available \cup {0})
           pending == {d \in absent : latest > 0 /\ d > latest}
           src == Source(r)
<1>1. /\ src.pre = r.dates \ r.periodic
      /\ src.latest = latest
      /\ src.missing = absent \ pending
  BY DEF Source
<1>2. date \in absent \/ date \in src.pre BY <1>1
<1>3. date \in absent => (date \in src.missing \/ (src.latest > 0 /\ date > src.latest))
  BY <1>1
<1> HIDE DEF src, absent
<1>4. LifecycleStatus("OFFICIAL_PERIOD_NOT_LOADED", date, src) \in Gaps
  BY <1>2, <1>3, LifecycleGap
<1> QED BY <1>4 DEF src

\* Every row of a run has a status.
LEMMA ComparedTyped ==
  ASSUME NEW r \in RunSet, NEW reading \in [Rows -> Readings]
  PROVE  Compared(r, reading) \in [Rows -> Statuses]
<1> DEFINE loaded == {doc.date : doc \in r.docs}
           extracted == {f.date : f \in r.facts}
           status(row) == RowStatus(row, reading[row], loaded, extracted)
           final(row) == IF r.reachable THEN LifecycleStatus(status(row), row.date, Source(r))
                         ELSE IF status(row) = "MISSING_OFFICIAL" THEN "OFFICIAL_SOURCE_UNAVAILABLE"
                              ELSE status(row)
<1>1. Compared(r, reading) = [row \in Rows |-> final(row)] BY DEF Compared
<1>2. ASSUME NEW row \in Rows PROVE final(row) \in Statuses
  <2>1. status(row) \in Statuses BY RowStatusIs
  <2>2. LifecycleStatus(status(row), row.date, Source(r)) \in Gaps \cup {status(row)}
    BY LifecycleIs
  <2>3. Gaps \subseteq Statuses /\ "OFFICIAL_SOURCE_UNAVAILABLE" \in Statuses BY DEF Statuses
  <2> HIDE DEF status
  <2> QED BY <2>1, <2>2, <2>3
<1> HIDE DEF final
<1> QED BY <1>1, <1>2

\* The acceptance is one of the four, and PASS needs a source that answers and
\* no conflict or gap.
LEMMA AcceptanceIs ==
  ASSUME NEW r, NEW status, NEW unmatched \in BOOLEAN
  PROVE  /\ Acceptance(r, status, unmatched) \in Acceptances
         /\ Acceptance(r, status, unmatched) = "PASS" =>
              /\ {status[row] : row \in Rows} \cap (Conflicts \cup Gaps) = {}
              /\ r.reachable
<1> DEFINE all == {status[row] : row \in Rows}
           suspects == \E doc \in r.docs : kind[pdfs[r.dir][doc.date]] = "suspect"
<1>1. Acceptance(r, status, unmatched) =
        CASE all \cap Conflicts # {} -> "FAIL_SOURCE_CONFLICT"
          [] all \cap Conflicts = {} /\ ~r.reachable -> "PARTIAL_OFFICIAL_SOURCE_UNAVAILABLE"
          [] all \cap Conflicts = {} /\ r.reachable /\ (all \cap Gaps # {} \/ unmatched \/ suspects)
                -> "PASS_WITH_COVERAGE_GAPS"
          [] OTHER -> "PASS"
  BY DEF Acceptance
<1> HIDE DEF all, suspects
<1>2. Acceptance(r, status, unmatched) \in Acceptances BY <1>1 DEF Acceptances
<1>3. Acceptance(r, status, unmatched) = "PASS" =>
        all \cap Conflicts = {} /\ all \cap Gaps = {} /\ r.reachable
  BY <1>1
<1> QED BY <1>2, <1>3 DEF all

\* A comparison that passes has confirmed the rows of the dates it was asked
\* for that an official report should confirm.
LEMMA PassCovers ==
  ASSUME NEW r \in RunSet, NEW reading \in [Rows -> Readings], NEW unmatched \in BOOLEAN,
         Acceptance(r, Compared(r, reading), unmatched) = "PASS",
         NEW row \in Rows, row.date \in r.dates, Expected(row)
  PROVE  Compared(r, reading)[row] \in Matches
<1> DEFINE loaded == {doc.date : doc \in r.docs}
           extracted == {f.date : f \in r.facts}
           status == RowStatus(row, reading[row], loaded, extracted)
           final == Compared(r, reading)[row]
<1>1. r.reachable /\ final \notin Conflicts \cup Gaps BY AcceptanceIs
<1>2. final = LifecycleStatus(status, row.date, Source(r)) BY <1>1 DEF Compared
<1>3. \/ status \in Matches \cup Conflicts \cup Gaps
      \/ status = "OFFICIAL_PERIOD_NOT_LOADED" /\ row.date \notin loaded
  BY RowStatusIs
<1>4. final \in Gaps \cup {status} BY <1>2, LifecycleIs
<1>5. status = "OFFICIAL_PERIOD_NOT_LOADED" /\ row.date \notin loaded => final \in Gaps
  BY <1>2, NotLoadedIsGap
<1> HIDE DEF status, loaded
<1>6. final = status \/ final \in Gaps BY <1>4
<1> HIDE DEF final
<1>7. final \in Matches BY <1>1, <1>3, <1>5, <1>6
<1> QED BY <1>7 DEF final

-----------------------------------------------------------------------------

(* The steps keep the types.                                               *)

\* The newest of the versions known at a day is one of them.
LEMMA NewestIsIn ==
  ASSUME NEW S \in SUBSET Docs, NEW top \in Nat, S # {},
         \A doc \in S : doc.available <= top
  PROVE  Newest(S) \in S
<1> DEFINE late(T) == {top - doc.available : doc \in T}
<1>1. ASSUME NEW T \in SUBSET S, T # {}
      PROVE  \E a \in T : \A b \in T : ~(b.available > a.available)
  <2>1. late(T) \subseteq Nat /\ late(T) # {} BY <1>1
  <2> HIDE DEF late
  <2>2. IsWellFoundedOn(OpToRel(<, Nat), Nat) BY NatLessThanWellFounded
  <2>3. PICK m \in late(T) : \A n \in late(T) : ~(<<n, m>> \in OpToRel(<, Nat))
    BY <2>1, <2>2, WFMin
  <2>4. \A n \in late(T) : ~(n < m) BY <2>1, <2>3 DEF OpToRel
  <2>5. PICK a \in T : m = top - a.available BY DEF late
  <2>6. ASSUME NEW b \in T PROVE ~(b.available > a.available)
    <3>1. ~(top - b.available < top - a.available) BY <2>4, <2>5 DEF late
    <3>2. a.available \in Nat /\ b.available \in Nat BY <1>1
    <3> QED BY <3>1, <3>2
  <2> QED BY <2>6
<1> DEFINE best(p) == {doc \in S : Priority(doc.label) = p}
<1>2. \A doc \in S : Priority(doc.label) \in {10, 20, 30} BY DEF Priority
<1>3. PICK p \in {10, 20, 30} : best(p) # {} /\ \A q \in {10, 20, 30} : q > p => best(q) = {}
  <2>1. CASE best(30) # {} BY <2>1
  <2>2. CASE best(30) = {} /\ best(20) # {} BY <2>2
  <2>3. CASE best(30) = {} /\ best(20) = {}
    <3>1. best(10) # {} BY <1>2, <2>3
    <3> QED BY <2>3, <3>1
  <2> QED BY <2>1, <2>2, <2>3
<1>4. PICK a \in best(p) : \A b \in best(p) : ~(b.available > a.available) BY <1>1, <1>3
<1>5. ASSUME NEW b \in S PROVE ~Supersedes(b, a)
  <2>1. Priority(b.label) \in {10, 20, 30} /\ b \in best(Priority(b.label)) BY <1>2
  <2>2. ~(Priority(b.label) > p) BY <1>3, <2>1
  <2>3. Priority(b.label) = p => ~(b.available > a.available) BY <1>4
  <2> QED BY <2>2, <2>3 DEF Supersedes
<1> QED BY <1>5 DEF Newest

\* The reports of a run are some of Docs, each the choice for its date.
LEMMA SelectedIs ==
  ASSUME NEW dates, NEW cutoff \in Days, Typed
  PROVE  /\ Selected(dates, cutoff) \in SUBSET Docs
         /\ cutoff <= day => Selected(dates, cutoff) = KnownDocs(dates, cutoff)
         /\ KnownDocs(dates, cutoff) \in SUBSET Docs
<1>1. cutoff \in Nat /\ day \in Nat BY DaysAre DEF Typed
<1>2. \A r : Eligible(r, cutoff) \in SUBSET Docs /\ \A doc \in Eligible(r, cutoff) : doc.available <= cutoff
  BY DEF Eligible, Published
<1>3. \A r : Eligible(r, cutoff) # {} => Newest(Eligible(r, cutoff)) \in Docs
  BY <1>1, <1>2, NewestIsIn
<1>4. Selected(dates, cutoff) \in SUBSET Docs BY <1>3 DEF Selected
<1>5. \A r : Known(r, cutoff) \in SUBSET Docs /\ \A doc \in Known(r, cutoff) : doc.available <= cutoff
  BY DEF Known
<1>6. \A r : Known(r, cutoff) # {} => Newest(Known(r, cutoff)) \in Docs
  BY <1>1, <1>5, NewestIsIn
<1>7. KnownDocs(dates, cutoff) \in SUBSET Docs BY <1>6 DEF KnownDocs
<1>8. ASSUME cutoff <= day PROVE Selected(dates, cutoff) = KnownDocs(dates, cutoff)
  <2>1. \A doc \in Docs : doc.available <= cutoff => doc.available <= day BY <1>1, <1>8
  <2>2. \A r : Eligible(r, cutoff) = Known(r, cutoff) BY <2>1 DEF Eligible, Published, Known
  <2> QED BY <2>2 DEF Selected, KnownDocs
<1> QED BY <1>4, <1>7, <1>8

\* The choice for a date is a report of that date.
LEMMA KnownDocsDates ==
  ASSUME NEW dates, NEW cutoff \in Days
  PROVE  \A doc \in KnownDocs(dates, cutoff) :
           doc.date \in dates /\ doc = Newest(Known(doc.date, cutoff)) /\ Known(doc.date, cutoff) # {}
<1>1. cutoff \in Nat BY DaysAre
<1>2. \A r : Known(r, cutoff) \in SUBSET Docs /\ \A doc \in Known(r, cutoff) : doc.available <= cutoff
  BY DEF Known
<1>3. \A r : Known(r, cutoff) # {} => Newest(Known(r, cutoff)) \in Known(r, cutoff)
  BY <1>1, <1>2, NewestIsIn
<1>4. \A r : \A doc \in Known(r, cutoff) : doc.date = r BY DEF Known
<1> QED BY <1>3, <1>4 DEF KnownDocs

\* Typed, of a step that leaves the packs alone.
LEMMA TypedBy ==
  ASSUME Typed, UNCHANGED packVars,
         day' \in Days, runs' \in 0..MaxRuns, crashes' \in 0..MaxCrashes, security' = security,
         kind' \in [Contents -> Kinds \cup {"unread"}], FilesTyped', RunsTyped'
  PROVE  Typed'
BY DEF Typed, PacksTyped, packVars

\* A new day, or a run that begins.
LEMMA TomorrowTyped == ASSUME Typed, Tomorrow, UNCHANGED packVars PROVE Typed'
<1>1. day' \in Days
  <2>1. day \in Nat /\ day < MaxDay /\ day' = day + 1 BY DaysAre DEF Typed, Tomorrow
  <2> QED BY <2>1, DaysAre DEF Typed, Days
<1>2. UNCHANGED <<security, kind, fileVars, run, done, boundVars>> BY DEF Tomorrow
<1>3. FilesTyped' /\ RunsTyped'
  BY <1>2 DEF Typed, FilesTyped, RunsTyped, fileVars
<1> QED BY <1>1, <1>2, <1>3, TypedBy DEF Typed, boundVars

LEMMA BeginTyped ==
  ASSUME Typed, NEW w \in Workers, Begin(w), UNCHANGED packVars PROVE Typed'
<1>1. PICK job \in {"validate", "research"}, cutoff \in Days :
        /\ Set(w, [Idle EXCEPT !.at = "discover", !.job = job, !.dir = HomeOf(job),
                               !.cutoff = cutoff, !.serial = runs + 1])
        /\ check' = [check EXCEPT ![HomeOf(job)] = "RUNNING"]
  BY DEF Begin
<1>2. runs' = runs + 1 /\ runs' \in 0..MaxRuns /\ runs + 1 \in 0..MaxRuns
  BY DEF Begin, Typed
<1> DEFINE r == [Idle EXCEPT !.at = "discover", !.job = job, !.dir = HomeOf(job),
                             !.cutoff = cutoff, !.serial = runs + 1]
<1>3. "discover" \in Ats /\ job \in Jobs /\ HomeOf(job) \in Dirs /\ cutoff \in CutoffRange
  BY DaysAre DEF Ats, Jobs, HomeOf, Dirs
<1>4. r \in RunSet /\ r.got = {} /\ r.docs = {} /\ r.read = {}
  BY <1>2, <1>3, IdleTyped DEF RunSet
<1>5. Set(w, r) BY <1>1
<1> HIDE DEF r
<1>6. RunsTyped'
  BY <1>4, <1>5, RunsTypedBy DEF RunsTyped, Begin, Typed
<1>7. check' \in [Dirs -> {"none", "RUNNING", "COMPLETED"}]
  BY <1>1, <1>3 DEF Typed, FilesTyped
<1>8. FilesTyped' BY <1>7 DEF FilesTyped, Typed, Begin
<1> QED BY <1>2, <1>6, <1>8, TypedBy DEF Typed, Begin

LEMMA RaiseTyped ==
  ASSUME Typed, NEW w \in Workers, Raise(w), UNCHANGED packVars PROVE Typed'
<1>1. Set(w, Idle) /\ UNCHANGED <<day, security, kind, fileVars, done, boundVars>> BY DEF Raise
<1>2. RunsTyped' BY <1>1, IdleTyped, RunsTypedBy DEF RunsTyped, Typed
<1>3. FilesTyped' BY <1>1 DEF FilesTyped, Typed, fileVars
<1> QED BY <1>1, <1>2, <1>3, TypedBy DEF Typed, boundVars

\* A run that has listed the reports.
LEMMA DiscoverTyped ==
  ASSUME Typed, NEW w \in Workers, Discover(w), run[w].cutoff \in Days,
         run[w].got = {}, run[w].read = {},
         UNCHANGED packVars
  PROVE  Typed'
<1> DEFINE r == run[w]
<1>1. UNCHANGED <<day, security, kind, fileVars, done, boundVars>> BY DEF Discover
<1>2. FilesTyped' BY <1>1 DEF FilesTyped, Typed, fileVars
<1>3. PICK n \in Periods :
        \/ Set(w, [r EXCEPT !.at = "compare", !.dates = Requested(r.cutoff, n),
                            !.periodic = Requested(r.cutoff, n), !.reachable = FALSE])
        \/ \E listed \in {security.inferred} \cup
                          (IF security.exchange = "SH" THEN {security.profile} \ {0} ELSE {}) :
             LET periodic == {d \in Requested(r.cutoff, n) : d >= listed}
             IN  Set(w, [r EXCEPT !.at = "download", !.dates = Requested(r.cutoff, n),
                                  !.listed = day, !.periodic = periodic,
                                  !.docs = Selected(periodic, r.cutoff)])
  BY DEF Discover
<1> DEFINE dates == Requested(r.cutoff, n)
<1>4. r \in RunSet /\ dates \in SUBSET RowDates BY DEF Requested, Typed, RunsTyped
<1>5. day \in CutoffRange BY DaysAre DEF Typed
<1>6. CASE Set(w, [r EXCEPT !.at = "compare", !.dates = dates, !.periodic = dates,
                            !.reachable = FALSE])
  <2> DEFINE s == [r EXCEPT !.at = "compare", !.dates = dates, !.periodic = dates,
                            !.reachable = FALSE]
  <2>0. "compare" \in Ats BY DEF Ats
  <2>1. s.got = {} /\ s.read = {} BY <1>4
  <2>2. s \in RunSet BY <1>4, <2>0 DEF RunSet
  <2>3. Set(w, s) BY <1>6
  <2> HIDE DEF s
  <2> QED BY <2>1, <2>2, <2>3, RunsTypedBy, <1>1, <1>2, TypedBy DEF Typed, RunsTyped, boundVars
<1>7. ASSUME NEW listed,
             Set(w, [r EXCEPT !.at = "download", !.dates = dates, !.listed = day,
                              !.periodic = {d \in dates : d >= listed},
                              !.docs = Selected({d \in dates : d >= listed}, r.cutoff)])
      PROVE  Typed'
  <2> DEFINE periodic == {d \in dates : d >= listed}
             s == [r EXCEPT !.at = "download", !.dates = dates, !.listed = day,
                            !.periodic = periodic, !.docs = Selected(periodic, r.cutoff)]
  <2>0. "download" \in Ats BY DEF Ats
  <2>1. periodic \in SUBSET RowDates /\ Selected(periodic, r.cutoff) \in SUBSET Docs
    BY <1>4, SelectedIs
  <2>2. Set(w, s) BY <1>7
  <2> HIDE DEF periodic
  <2>3. s.got = {} /\ s.read = {} BY <1>4
  <2>4. s \in RunSet BY <1>4, <1>5, <2>0, <2>1 DEF RunSet
  <2> HIDE DEF s
  <2> QED BY <2>2, <2>3, <2>4, RunsTypedBy, <1>1, <1>2, TypedBy DEF Typed, RunsTyped, boundVars
<1> QED BY <1>3, <1>6, <1>7

\* A run that downloads.
LEMMA DownloadTyped ==
  ASSUME Typed, NEW w \in Workers, Download(w), UNCHANGED packVars PROVE Typed'
<1>1. PICK doc \in run[w].docs \ run[w].got :
        /\ IF pdfs[run[w].dir][doc.date] = NoPdf
           THEN pdfs' = [pdfs EXCEPT ![run[w].dir][doc.date] = [of |-> doc, whole |-> TRUE]]
           ELSE UNCHANGED pdfs
        /\ Set(w, [run[w] EXCEPT !.got = @ \cup {doc}])
  BY DEF Download
<1>2. run[w] \in RunSet BY DEF Typed, RunsTyped
<1>3. doc \in Docs /\ doc.date \in Dates /\ run[w].dir \in Dirs BY <1>2 DEF RunSet, Dates
<1>4. [of |-> doc, whole |-> TRUE] \in PdfRange BY <1>3 DEF PdfRange, Contents
<1>5. pdfs' \in [Dirs -> [Dates -> PdfRange]]
  <2>1. pdfs \in [Dirs -> [Dates -> PdfRange]] BY DEF Typed, FilesTyped
  <2> DEFINE new == [pdfs[run[w].dir] EXCEPT ![doc.date] = [of |-> doc, whole |-> TRUE]]
  <2>2. new \in [Dates -> PdfRange] BY <1>3, <1>4, <2>1
  <2>3. pdfs' = pdfs \/ pdfs' = [pdfs EXCEPT ![run[w].dir] = new] BY <1>1
  <2> HIDE DEF new
  <2> QED BY <2>1, <2>2, <2>3
<1>6. FilesTyped' BY <1>5 DEF FilesTyped, Typed, Download
<1> DEFINE s == [run[w] EXCEPT !.got = @ \cup {doc}]
<1>7. s \in RunSet /\ s.got \subseteq s.docs /\ s.read \subseteq s.docs
  <2>1. run[w].got \subseteq run[w].docs /\ run[w].read \subseteq run[w].docs
    BY DEF Typed, RunsTyped
  <2>2. run[w].got \cup {doc} \in SUBSET Docs BY <1>2, <1>3 DEF RunSet
  <2>3. s \in RunSet BY <1>2, <2>2 DEF RunSet
  <2>4. s.got = run[w].got \cup {doc} /\ s.docs = run[w].docs /\ s.read = run[w].read
    BY <1>2 DEF RunSet
  <2> QED BY <1>1, <2>1, <2>3, <2>4
<1>8. Set(w, s) BY <1>1
<1> HIDE DEF s
<1>9. RunsTyped' BY <1>7, <1>8, RunsTypedBy DEF Typed, RunsTyped, Download
<1> QED BY <1>6, <1>9, TypedBy DEF Typed, Download, boundVars

\* A run that goes on.
LEMMA GoesOnTyped ==
  ASSUME Typed, NEW w \in Workers, NEW l \in Ats, Set(w, [run[w] EXCEPT !.at = l]), done' = done
  PROVE  RunsTyped'
<1> DEFINE s == [run[w] EXCEPT !.at = l]
<1>1. s \in RunSet /\ s.got \subseteq s.docs /\ s.read \subseteq s.docs
  BY DEF Typed, RunsTyped, RunSet
<1> HIDE DEF s
<1> QED BY <1>1, RunsTypedBy DEF s, Typed, RunsTyped

LEMMA DownloadedTyped ==
  ASSUME Typed, NEW w \in Workers, Downloaded(w), UNCHANGED packVars PROVE Typed'
<1>1. /\ Set(w, [run[w] EXCEPT !.at = "parse"])
      /\ UNCHANGED <<day, security, kind, fileVars, done, boundVars>>
  BY DEF Downloaded
<1>2. "parse" \in Ats BY DEF Ats
<1>3. RunsTyped' BY <1>1, <1>2, GoesOnTyped
<1>4. FilesTyped' BY <1>1 DEF FilesTyped, Typed, fileVars
<1> QED BY <1>1, <1>3, <1>4, TypedBy DEF Typed, boundVars

\* What a step of the parser does.
ParsedAs(w, doc) ==
    LET content == Content(run[w].dir, doc)
        kept == {p \in parsed[run[w].dir] : p.content = content}
    IN  IF kept = {} THEN doc ELSE (CHOOSE p \in kept : TRUE).as
NewFact(w, doc) ==
    [date |-> doc.date, content |-> Content(run[w].dir, doc), as |-> ParsedAs(w, doc)]

LEMMA ParseIs ==
  ASSUME NEW w \in Workers, Parse(w)
  PROVE  \E doc \in run[w].docs \ run[w].read : \E k \in Outcomes(Content(run[w].dir, doc)) :
           /\ kind' = [kind EXCEPT ![Content(run[w].dir, doc)] = k]
           /\ Set(w, [run[w] EXCEPT !.read = @ \cup {doc},
                                    !.facts = @ \cup (IF k = "zero" THEN {} ELSE {NewFact(w, doc)})])
           /\ parsed' = [parsed EXCEPT ![run[w].dir] =
                @ \cup {[content |-> Content(run[w].dir, doc), as |-> ParsedAs(w, doc)]}]
BY DEF Parse, Content, ParsedAs, NewFact

\* A content is parsed as it was before, or as the document it is read for.
LEMMA ParsedAsIs ==
  ASSUME Typed, NEW w \in Workers, NEW doc \in Docs
  PROVE  LET content == Content(run[w].dir, doc)
             new == [content |-> content, as |-> ParsedAs(w, doc)]
         IN  /\ content \in PdfRange /\ new \in ParsedSet /\ NewFact(w, doc) \in FactSet
             /\ \/ new \in parsed[run[w].dir]
                \/ \A p \in parsed[run[w].dir] : p.content # content
<1> DEFINE d == run[w].dir
           content == Content(d, doc)
           kept == {p \in parsed[d] : p.content = content}
           new == [content |-> content, as |-> ParsedAs(w, doc)]
<1>1. d \in Dirs BY DEF Typed, RunsTyped, RunSet
<1>2. doc.date \in Dates BY DEF Dates
<1>3. content \in PdfRange BY <1>1, <1>2 DEF Content, Typed, FilesTyped
<1>4. parsed[d] \in SUBSET ParsedSet BY <1>1 DEF Typed, FilesTyped
<1>5. new \in ParsedSet /\ (new \in parsed[d] \/ \A p \in parsed[d] : p.content # content)
  <2>1. CASE kept = {}
    <3>1. ParsedAs(w, doc) = doc BY <2>1 DEF ParsedAs
    <3> QED BY <3>1, <2>1, <1>3 DEF ParsedSet
  <2>2. CASE kept # {}
    <3> DEFINE p == CHOOSE p \in kept : TRUE
    <3>1. p \in kept BY <2>2
    <3>2. ParsedAs(w, doc) = p.as BY <2>2 DEF ParsedAs
    <3> HIDE DEF p
    <3>3. p \in parsed[d] /\ p.content = content /\ p \in ParsedSet BY <3>1, <1>4
    <3>4. p = [content |-> p.content, as |-> p.as] BY <3>3 DEF ParsedSet
    <3>5. new = p BY <3>2, <3>3, <3>4
    <3> QED BY <3>3, <3>5
  <2> QED BY <2>1, <2>2
<1>6. ParsedAs(w, doc) \in Docs BY <1>5 DEF ParsedSet
<1>7. NewFact(w, doc) \in FactSet BY <1>2, <1>3, <1>6 DEF NewFact, FactSet
<1> QED BY <1>3, <1>5, <1>7

\* What the parser makes of a content.
LEMMA OutcomesAre ==
  ASSUME NEW content, kind[content] \in Kinds \cup {"unread"}
  PROVE  /\ Outcomes(content) \subseteq Kinds
         /\ kind[content] # "unread" => Outcomes(content) = {kind[content]}
BY DEF Outcomes, Kinds

LEMMA ParseTyped ==
  ASSUME Typed, NEW w \in Workers, Parse(w), UNCHANGED packVars,
         \A doc \in run[w].docs : Fetched(run[w].dir, doc)
  PROVE  Typed'
<1> DEFINE d == run[w].dir
<1>1. run[w] \in RunSet /\ d \in Dirs /\ run[w].read \subseteq run[w].docs
      /\ run[w].got \subseteq run[w].docs
  BY DEF Typed, RunsTyped, RunSet
<1>2. PICK doc \in run[w].docs \ run[w].read : \E k \in Outcomes(Content(d, doc)) :
        /\ kind' = [kind EXCEPT ![Content(d, doc)] = k]
        /\ Set(w, [run[w] EXCEPT !.read = @ \cup {doc},
                                 !.facts = @ \cup (IF k = "zero" THEN {} ELSE {NewFact(w, doc)})])
        /\ parsed' = [parsed EXCEPT ![d] =
             @ \cup {[content |-> Content(d, doc), as |-> ParsedAs(w, doc)]}]
  BY ParseIs
<1>3. PICK k \in Outcomes(Content(d, doc)) :
        /\ kind' = [kind EXCEPT ![Content(d, doc)] = k]
        /\ Set(w, [run[w] EXCEPT !.read = @ \cup {doc},
                                 !.facts = @ \cup (IF k = "zero" THEN {} ELSE {NewFact(w, doc)})])
  BY <1>2
<1>4. doc \in Docs BY <1>1 DEF RunSet
<1>5. Content(d, doc) \in Contents
  <2>1. Content(d, doc) \in PdfRange BY <1>4, ParsedAsIs
  <2> QED BY <2>1 DEF PdfRange, Fetched
<1>6. kind[Content(d, doc)] \in Kinds \cup {"unread"} BY <1>5 DEF Typed
<1>7. k \in Kinds BY <1>6, OutcomesAre
<1>8. kind' \in [Contents -> Kinds \cup {"unread"}] BY <1>3, <1>7 DEF Typed
<1>9. parsed' \in [Dirs -> SUBSET ParsedSet]
  BY <1>1, <1>2, <1>4, ParsedAsIs DEF Typed, FilesTyped
<1>10. FilesTyped' BY <1>9 DEF FilesTyped, Typed, Parse
<1> DEFINE more == IF k = "zero" THEN {} ELSE {NewFact(w, doc)}
           s == [run[w] EXCEPT !.read = @ \cup {doc}, !.facts = @ \cup more]
<1>11. Set(w, s) BY <1>3
<1>12. s \in RunSet /\ s.got \subseteq s.docs /\ s.read \subseteq s.docs
  <2>0. NewFact(w, doc) \in FactSet BY <1>4, ParsedAsIs
  <2>1. run[w].facts \cup more \in SUBSET FactSet BY <1>1, <2>0 DEF RunSet
  <2> HIDE DEF more
  <2>2. run[w].read \cup {doc} \in SUBSET Docs BY <1>1, <1>4 DEF RunSet
  <2>3. s \in RunSet BY <1>1, <2>1, <2>2 DEF RunSet
  <2>4. s.got = run[w].got /\ s.docs = run[w].docs /\ s.read = run[w].read \cup {doc}
    BY <1>1 DEF RunSet
  <2> QED BY <1>1, <2>3, <2>4
<1> HIDE DEF s
<1>13. RunsTyped' BY <1>11, <1>12, RunsTypedBy DEF Typed, RunsTyped, Parse
<1> QED BY <1>8, <1>10, <1>13, TypedBy DEF Typed, Parse, boundVars

\* A run that has its facts.
LEMMA CollectTyped ==
  ASSUME Typed, NEW w \in Workers, Collect(w), UNCHANGED packVars PROVE Typed'
<1>1. run[w].facts \in SUBSET FactSet /\ run[w].dir \in Dirs BY DEF Typed, RunsTyped, RunSet
<1>2. direct' \in [Dirs -> SUBSET FactSet] BY <1>1 DEF Collect, Typed, FilesTyped
<1>3. FilesTyped' BY <1>2 DEF FilesTyped, Typed, Collect
<1>4. "compare" \in Ats BY DEF Ats
<1>5. RunsTyped' BY <1>4, GoesOnTyped DEF Collect
<1> QED BY <1>3, <1>5, TypedBy DEF Typed, Collect, boundVars

LEMMA CompareTyped ==
  ASSUME Typed, NEW w \in Workers, Compare(w), UNCHANGED packVars PROVE Typed'
<1>1. UNCHANGED <<day, security, kind, fileVars, done, boundVars>> BY DEF Compare
<1>2. PICK reading \in [Rows -> Readings] : \E unmatched \in BOOLEAN :
        Set(w, [run[w] EXCEPT !.at = "export", !.status = Compared(run[w], reading),
                              !.acceptance = Acceptance(run[w], Compared(run[w], reading), unmatched)])
  BY DEF Compare
<1>3. PICK unmatched \in BOOLEAN :
        Set(w, [run[w] EXCEPT !.at = "export", !.status = Compared(run[w], reading),
                              !.acceptance = Acceptance(run[w], Compared(run[w], reading), unmatched)])
  BY <1>2
<1> DEFINE status == Compared(run[w], reading)
           acceptance == Acceptance(run[w], status, unmatched)
           s == [run[w] EXCEPT !.at = "export", !.status = status, !.acceptance = acceptance]
<1>4. run[w] \in RunSet /\ run[w].got \subseteq run[w].docs /\ run[w].read \subseteq run[w].docs
  BY DEF Typed, RunsTyped
<1>5. status \in [Rows -> Statuses] BY <1>4, ComparedTyped
<1>6. acceptance \in AcceptanceRange BY AcceptanceIs DEF AcceptanceRange
<1>7. Set(w, s) BY <1>3
<1>8. "export" \in Ats BY DEF Ats
<1> HIDE DEF status, acceptance
<1>9. s \in RunSet /\ s.got \subseteq s.docs /\ s.read \subseteq s.docs
  BY <1>4, <1>5, <1>6, <1>8 DEF RunSet
<1> HIDE DEF s
<1>10. RunsTyped' BY <1>1, <1>7, <1>9, RunsTypedBy DEF Typed, RunsTyped
<1>11. FilesTyped' BY <1>1 DEF FilesTyped, Typed, fileVars
<1> QED BY <1>1, <1>10, <1>11, TypedBy DEF Typed, boundVars

LEMMA ExportTyped ==
  ASSUME Typed, NEW w \in Workers, Export(w), UNCHANGED packVars PROVE Typed'
<1>1. /\ run[w].facts \in SUBSET FactSet /\ run[w].dir \in Dirs /\ run[w].serial \in -1..MaxRuns
  BY DEF Typed, RunsTyped, RunSet
<1>2. [run |-> run[w].serial, facts |-> run[w].facts] \in ExportSet BY <1>1 DEF ExportSet
<1>3. exported' \in [Dirs -> ExportSet] BY <1>1, <1>2 DEF Export, Typed, FilesTyped
<1>4. FilesTyped' BY <1>3 DEF FilesTyped, Typed, Export
<1>5. "complete" \in Ats BY DEF Ats
<1>6. RunsTyped' BY <1>5, GoesOnTyped DEF Export
<1> QED BY <1>4, <1>6, TypedBy DEF Typed, Export, boundVars

LEMMA CompleteTyped ==
  ASSUME Typed, NEW w \in Workers, Complete(w), UNCHANGED packVars PROVE Typed'
<1> DEFINE r == run[w]
           s == [r EXCEPT !.at = "register", !.status = Idle.status, !.acceptance = "none"]
           found == [dir |-> r.dir, cutoff |-> r.cutoff, day |-> r.listed, periodic |-> r.periodic,
                     docs |-> r.docs, facts |-> r.facts]
<1>1. r \in RunSet /\ r.got \subseteq r.docs /\ r.read \subseteq r.docs BY DEF Typed, RunsTyped
<1>2. r.dir \in Dirs /\ r.facts \in SUBSET FactSet /\ r.cutoff \in CutoffRange BY <1>1 DEF RunSet
<1>3. [cutoff |-> r.cutoff, facts |-> r.facts] \in ResultSet BY <1>2 DEF ResultSet
<1>4. found \in DoneSet BY <1>1 DEF DoneSet, RunSet
<1>5. "register" \in Ats /\ "none" \in AcceptanceRange BY DEF Ats, AcceptanceRange
<1>6. Set(w, s) /\ done' \subseteq done \cup {found} BY DEF Complete
<1>7. s \in RunSet /\ s.got \subseteq s.docs /\ s.read \subseteq s.docs
  BY <1>1, <1>5, IdleTyped DEF RunSet
<1> HIDE DEF s, found
<1>8. RunsTyped' BY <1>4, <1>6, <1>7, RunsTypedBy DEF Typed, RunsTyped
<1>9. result' \in [Dirs -> ResultSet] /\ check' \in [Dirs -> {"none", "RUNNING", "COMPLETED"}]
  BY <1>2, <1>3 DEF Complete, Typed, FilesTyped
<1>10. FilesTyped' BY <1>9 DEF FilesTyped, Typed, Complete
<1> QED BY <1>8, <1>10, TypedBy DEF Typed, Complete, boundVars

LEMMA RegisterTyped ==
  ASSUME Typed, NEW w \in Workers, Register(w), UNCHANGED packVars PROVE Typed'
<1> DEFINE next == [Idle EXCEPT !.at = "open", !.job = "research", !.dir = run[w].dir,
                                !.cutoff = run[w].cutoff, !.serial = run[w].serial]
           s == IF run[w].job = "research" THEN next ELSE Idle
<1>1. run[w] \in RunSet BY DEF Typed, RunsTyped
<1>2. "open" \in Ats /\ "research" \in Jobs BY DEF Ats, Jobs
<1>3. next \in RunSet /\ next.got = {} /\ next.read = {}
  BY <1>1, <1>2, IdleTyped DEF RunSet
<1> HIDE DEF next
<1>4. s \in RunSet /\ s.got \subseteq s.docs /\ s.read \subseteq s.docs BY <1>3, IdleTyped
<1>5. Set(w, s) BY DEF Register, next
<1> HIDE DEF s
<1>6. RunsTyped' BY <1>4, <1>5, RunsTypedBy DEF Typed, RunsTyped, Register
<1>7. registered' \in Dirs BY <1>1 DEF Register, RunSet
<1>8. FilesTyped' BY <1>7 DEF FilesTyped, Typed, Register
<1> QED BY <1>6, <1>8, TypedBy DEF Typed, Register, boundVars

\* What a kill does to the PDFs: some that were on their way are torn.
LEMMA KillIs ==
  ASSUME NEW w \in Workers, Kill(w)
  PROVE  \E torn \in SUBSET {doc \in run[w].docs \ run[w].got : Content(run[w].dir, doc) = NoPdf} :
           pdfs' = [pdfs EXCEPT ![run[w].dir] = [r \in DOMAIN pdfs[run[w].dir] |->
                      IF \E doc \in torn : doc.date = r
                      THEN [of |-> CHOOSE doc \in torn : doc.date = r, whole |-> FALSE]
                      ELSE pdfs[run[w].dir][r]]]
<1> DEFINE d == run[w].dir
           coming == {doc \in run[w].docs \ run[w].got : pdfs[d][doc.date] = NoPdf}
           after(torn) == [pdfs EXCEPT ![d] = [r \in DOMAIN pdfs[d] |->
                            IF \E doc \in torn : doc.date = r
                            THEN [of |-> CHOOSE doc \in torn : doc.date = r, whole |-> FALSE]
                            ELSE pdfs[d][r]]]
<1>1. \E torn \in IF At(w, "download") /\ security.exchange = "SH" THEN SUBSET coming ELSE {{}} :
        pdfs' = after(torn)
  BY DEF Kill
<1>2. \E torn \in SUBSET coming : pdfs' = after(torn) BY <1>1
<1> QED BY <1>2 DEF Content

\* A document on its way has left something: each date its PDF, or what it had.
LEMMA KillPdfs ==
  ASSUME Typed, NEW w \in Workers, Kill(w)
  PROVE  /\ pdfs' \in [Dirs -> [Dates -> PdfRange]]
         /\ \A d \in Dirs : \A r \in Dates : pdfs[d][r] # NoPdf => pdfs'[d][r] = pdfs[d][r]
<1> DEFINE d == run[w].dir
<1>1. PICK torn \in SUBSET {doc \in run[w].docs \ run[w].got : Content(d, doc) = NoPdf} :
        pdfs' = [pdfs EXCEPT ![d] = [r \in DOMAIN pdfs[d] |->
                  IF \E doc \in torn : doc.date = r
                  THEN [of |-> CHOOSE doc \in torn : doc.date = r, whole |-> FALSE]
                  ELSE pdfs[d][r]]]
  BY KillIs
<1>2. d \in Dirs /\ run[w].docs \subseteq Docs BY DEF Typed, RunsTyped, RunSet
<1>3. pdfs \in [Dirs -> [Dates -> PdfRange]] BY DEF Typed, FilesTyped
<1> DEFINE of(r) == CHOOSE doc \in torn : doc.date = r
           new(r) == IF \E doc \in torn : doc.date = r THEN [of |-> of(r), whole |-> FALSE]
                     ELSE pdfs[d][r]
           files == [r \in Dates |-> new(r)]
<1>4. \A r : (\E doc \in torn : doc.date = r) => of(r) \in torn OBVIOUS
<1>5. torn \in SUBSET Docs BY <1>2
<1>6. pdfs' = [pdfs EXCEPT ![d] = files] BY <1>1, <1>2, <1>3
<1> HIDE DEF of
<1>7. ASSUME NEW r \in Dates PROVE new(r) \in PdfRange /\ (pdfs[d][r] # NoPdf => new(r) = pdfs[d][r])
  <2>1. CASE \E doc \in torn : doc.date = r
    <3>1. of(r) \in Docs BY <1>4, <1>5, <2>1
    <3>2. [of |-> of(r), whole |-> FALSE] \in PdfRange BY <3>1 DEF PdfRange, Contents
    <3>3. pdfs[d][r] = NoPdf BY <2>1 DEF Content
    <3> QED BY <2>1, <3>2, <3>3
  <2>2. CASE ~(\E doc \in torn : doc.date = r) BY <1>2, <1>3, <2>2
  <2> QED BY <2>1, <2>2
<1> HIDE DEF new
<1>8. files \in [Dates -> PdfRange] /\ \A r \in Dates : files[r] = new(r) BY <1>7
<1> HIDE DEF files
<1> QED BY <1>2, <1>3, <1>6, <1>7, <1>8

\* What a kill leaves of the other files.
LEMMA KillTyped ==
  ASSUME Typed, NEW w \in Workers, Kill(w)
  PROVE  /\ day' \in Days /\ runs' \in 0..MaxRuns /\ crashes' \in 0..MaxCrashes
         /\ security' = security /\ kind' = kind
         /\ FilesTyped' /\ RunsTyped'
<1>1. pdfs' \in [Dirs -> [Dates -> PdfRange]] BY KillPdfs
<1>2. run[w].dir \in Dirs BY DEF Typed, RunsTyped, RunSet
<1>3. exported' \in {exported, [exported EXCEPT ![run[w].dir].run = -1]} BY DEF Kill
<1>4. exported \in [Dirs -> ExportSet] BY DEF Typed, FilesTyped
<1>5. exported' \in [Dirs -> ExportSet]
  <2> DEFINE torn == [exported[run[w].dir] EXCEPT !.run = -1]
  <2>1. torn \in ExportSet BY <1>2, <1>4 DEF ExportSet
  <2>2. exported' \in {exported, [exported EXCEPT ![run[w].dir] = torn]} BY <1>3
  <2> HIDE DEF torn
  <2> QED BY <2>1, <2>2, <1>2, <1>4
<1>6. FilesTyped' BY <1>1, <1>5 DEF Kill, FilesTyped, Typed
<1>7. Set(w, Idle) BY DEF Kill
<1>8. RunsTyped' BY <1>7, IdleTyped, RunsTypedBy DEF Typed, RunsTyped, Kill
<1>9. crashes' \in 0..MaxCrashes BY DEF Kill, Killed, Typed
<1> QED BY <1>6, <1>8, <1>9 DEF Kill, Typed

\* A step of a validation.
LEMMA ValidationTyped ==
  ASSUME Typed, RunsInOrder, NEW w \in Workers, Validation(w), UNCHANGED packVars PROVE Typed'
<1>1. CASE Discover(w)
  <2>1. run[w].at = "discover" BY <1>1 DEF Discover, At
  <2>2. run[w].cutoff \in Days /\ run[w].got = {} /\ run[w].read = {}
    BY <2>1 DEF RunsInOrder, RunInOrder
  <2> QED BY <1>1, <2>2, DiscoverTyped
<1>2. CASE Parse(w)
  <2>1. run[w].at = "parse" BY <1>2 DEF Parse, At
  <2>2. \A doc \in run[w].docs : Fetched(run[w].dir, doc)
    BY <2>1 DEF RunsInOrder, RunInOrder, Working
  <2> QED BY <1>2, <2>2, ParseTyped
<1> QED BY <1>1, <1>2, BeginTyped, RaiseTyped, DownloadTyped, DownloadedTyped, CollectTyped,
           CompareTyped, ExportTyped, CompleteTyped, RegisterTyped DEF Validation

\* Empty packs.
LEMMA PackEmpty ==
  /\ NoInputs \in InputSet /\ NoTables \in TableSet /\ NoNote \in NoteSet /\ NoPack \in PackSet
  /\ NoPack.saved = {} /\ NoPack.tables = NoTables /\ NoPack.note = NoNote
  /\ \A s \in Stages : NoTables[s] = NoInputs
<1>1. NoInputs \in InputSet BY DEF NoInputs, InputSet, CutoffRange
<1>2. NoTables \in TableSet BY <1>1 DEF NoTables, TableSet
<1>3. NoNote \in NoteSet BY <1>1 DEF NoNote, NoteSet, NoteStatuses
<1>4. NoPack \in PackSet /\ NoPack.saved = {} /\ NoPack.tables = NoTables /\ NoPack.note = NoNote
  BY <1>1, <1>2, <1>3 DEF NoPack, PackSet
<1> QED BY <1>1, <1>2, <1>3, <1>4 DEF NoTables

\* Typed, of a step of a pack.
LEMMA PackTypedBy ==
  ASSUME Typed, OnlyPack, run' \in [Workers -> RunSet],
         \A v \in Workers : run'[v].got \subseteq run'[v].docs /\ run'[v].read \subseteq run'[v].docs,
         PacksTyped'
  PROVE  Typed'
BY DEF Typed, OnlyPack, FilesTyped, RunsTyped, fileVars, boundVars

\* A pack that goes on or ends.
LEMMA ThenTyped ==
  ASSUME Typed, NEW w \in Workers, NEW l \in Ats, Then(w, l) \/ Set(w, Idle) \/ UNCHANGED run
  PROVE  run' \in [Workers -> RunSet] /\ \A v \in Workers : run'[v].got \subseteq run'[v].docs
                                                  /\ run'[v].read \subseteq run'[v].docs
<1>1. CASE Then(w, l)
  <2> DEFINE s == [run[w] EXCEPT !.at = l]
  <2>1. s \in RunSet /\ s.got \subseteq s.docs /\ s.read \subseteq s.docs
    BY DEF Typed, RunsTyped, RunSet
  <2>2. Set(w, s) BY <1>1 DEF Then
  <2> HIDE DEF s
  <2> QED BY <2>1, <2>2, RunsTypedBy DEF Typed
<1>2. CASE Set(w, Idle) BY <1>2, IdleTyped, RunsTypedBy DEF Typed
<1>3. CASE UNCHANGED run BY <1>3 DEF Typed, RunsTyped
<1> QED BY <1>1, <1>2, <1>3

\* What a pack starts with.
LEMMA OpenedTyped ==
  ASSUME NEW old \in NoteSet, NEW inputs \in InputSet, NEW force \in BOOLEAN
  PROVE  Opened(old, inputs, force) \in NoteSet
BY DEF Opened, NoteSet, NoteStatuses

\* The parts of a pack's state.
LEMMA PackParts ==
  ASSUME Typed, NEW w \in Workers
  PROVE  /\ run[w] \in RunSet /\ run[w].dir \in Dirs /\ run[w].cutoff \in CutoffRange
         /\ pack[w] \in PackSet /\ pack[w].note \in NoteSet /\ pack[w].tables \in TableSet
         /\ pack[w].loaded \in InputSet /\ pack[w].saved \in SUBSET Stages
         /\ note \in [Dirs -> NoteSet] /\ cache \in [Dirs -> TableSet]
         /\ package \in [Dirs -> TableSet] /\ pointer \in PointerSet
         /\ pack \in [Workers -> PackSet]
<1>1. run[w] \in RunSet /\ pack[w] \in PackSet BY DEF Typed, RunsTyped, PacksTyped
<1> QED BY <1>1 DEF Typed, RunsTyped, PacksTyped, RunSet, PackSet

\* The table a stage has made.
TableOf(w, s) ==
    IF s \in pack[w].note.stages /\ cache[run[w].dir][s] # NoInputs THEN cache[run[w].dir][s]
    ELSE IF s = "MAP_CANONICAL" THEN pack[w].loaded ELSE pack[w].tables["MAP_CANONICAL"]

\* What a stage writes.
LEMMA StageIs ==
  ASSUME Typed, NEW w \in Workers, NEW s \in Stages, Stage(w, s)
  PROVE  /\ TableOf(w, s) \in InputSet
         /\ cache' = [cache EXCEPT ![run[w].dir][s] = TableOf(w, s)]
         /\ pack' = [pack EXCEPT ![w].tables[s] = TableOf(w, s)]
<1>1. "MAP_CANONICAL" \in Stages BY DEF Stages
<1>2. cache[run[w].dir] \in TableSet BY PackParts
<1>3. TableOf(w, s) \in InputSet BY <1>1, <1>2, PackParts DEF TableOf, TableSet
<1> DEFINE kept == s \in pack[w].note.stages /\ cache[run[w].dir][s] # NoInputs
           table == CASE kept -> cache[run[w].dir][s]
                      [] ~kept /\ s = "MAP_CANONICAL" -> pack[w].loaded
                      [] OTHER -> pack[w].tables["MAP_CANONICAL"]
<1>4. /\ cache' = [cache EXCEPT ![run[w].dir][s] = table]
      /\ pack' = [pack EXCEPT ![w].tables[s] = table]
  BY DEF Stage, DirOf
<1>5. table = TableOf(w, s) BY DEF TableOf
<1> HIDE DEF table
<1> QED BY <1>3, <1>4, <1>5

\* A table that is stored.
LEMMA TableStored ==
  ASSUME NEW S, NEW f \in [S -> TableSet], NEW d \in S, NEW s \in Stages, NEW table \in InputSet
  PROVE  /\ [f EXCEPT ![d][s] = table] \in [S -> TableSet]
         /\ [f EXCEPT ![d][s] = table][d][s] = table
         /\ \A t \in Stages : t # s => [f EXCEPT ![d][s] = table][d][t] = f[d][t]
         /\ \A e \in S : e # d => [f EXCEPT ![d][s] = table][e] = f[e]
<1> DEFINE new == [f[d] EXCEPT ![s] = table]
<1>1. new \in TableSet /\ new[s] = table /\ \A t \in Stages : t # s => new[t] = f[d][t]
  BY DEF TableSet
<1>2. [f EXCEPT ![d][s] = table] = [f EXCEPT ![d] = new] OBVIOUS
<1> HIDE DEF new
<1> QED BY <1>1, <1>2

\* A command starts a pack.
LEMMA CommandTyped == ASSUME Typed, NEW w \in Workers, Command(w) PROVE Typed'
<1>1. PICK cutoff \in Days :
        Set(w, [Idle EXCEPT !.at = "open", !.job = "pack", !.cutoff = cutoff, !.serial = runs + 1])
  BY DEF Command
<1> DEFINE s == [Idle EXCEPT !.at = "open", !.job = "pack", !.cutoff = cutoff, !.serial = runs + 1]
<1>2. runs' \in 0..MaxRuns /\ runs + 1 \in 0..MaxRuns BY DEF Command, Typed
<1>3. "open" \in Ats /\ "pack" \in Jobs /\ cutoff \in CutoffRange BY DaysAre DEF Ats, Jobs
<1>4. s \in RunSet /\ s.got = {} /\ s.read = {} BY <1>2, <1>3, IdleTyped DEF RunSet
<1>5. Set(w, s) BY <1>1
<1> HIDE DEF s
<1>6. RunsTyped' BY <1>4, <1>5, RunsTypedBy DEF Typed, RunsTyped, Command
<1>7. FilesTyped' BY DEF Typed, FilesTyped, Command, fileVars
<1> QED BY <1>2, <1>6, <1>7, TypedBy DEF Command, Typed

\* What a step writes of a pack and its checkpoint.
PackWrites(w, p, n) ==
    /\ pack' = [pack EXCEPT ![w] = p]
    /\ note' = [note EXCEPT ![run[w].dir] = n]

LEMMA OpenIs ==
  ASSUME Typed, NEW w \in Workers, Open(w)
  PROVE  /\ run[w].at = "open"
         /\ \E force \in BOOLEAN :
              LET opened == Opened(note[run[w].dir], Inputs(run[w].cutoff), force)
              IN  /\ opened \in NoteSet
                  /\ [NoPack EXCEPT !.note = opened] \in PackSet
                  /\ PackWrites(w, [NoPack EXCEPT !.note = opened], opened)
         /\ Then(w, "load")
         /\ UNCHANGED <<cache, package, pointer>> /\ OnlyPack
<1>1. PICK force \in BOOLEAN :
        LET opened == Opened(note[run[w].dir], Inputs(run[w].cutoff), force)
        IN  PackWrites(w, [NoPack EXCEPT !.note = opened], opened)
  BY DEF Open, DirOf, PackWrites
<1> DEFINE opened == Opened(note[run[w].dir], Inputs(run[w].cutoff), force)
<1>2. Inputs(run[w].cutoff) \in InputSet BY PackParts, FilesRead
<1>3. note[run[w].dir] \in NoteSet BY PackParts
<1>4. opened \in NoteSet BY <1>2, <1>3, OpenedTyped
<1>5. PackWrites(w, [NoPack EXCEPT !.note = opened], opened) BY <1>1
<1> HIDE DEF opened
<1>6. [NoPack EXCEPT !.note = opened] \in PackSet BY <1>4, PackEmpty DEF PackSet
<1>7. /\ opened \in NoteSet
      /\ [NoPack EXCEPT !.note = opened] \in PackSet
      /\ PackWrites(w, [NoPack EXCEPT !.note = opened], opened)
  BY <1>4, <1>5, <1>6
<1> QED BY <1>7 DEF Open, At, opened

LEMMA LoadIs ==
  ASSUME Typed, NEW w \in Workers, Load(w)
  PROVE  LET saved == [pack[w].note EXCEPT !.status = "RUNNING"]
             loaded == Inputs(run[w].cutoff)
             p == [pack[w] EXCEPT !.note = saved, !.loaded = loaded]
         IN  /\ run[w].at = "load"
             /\ saved \in NoteSet /\ p \in PackSet
             /\ saved.inputs = pack[w].note.inputs /\ saved.stages = pack[w].note.stages
             /\ saved.status = "RUNNING"
             /\ p.note = saved /\ p.loaded = loaded /\ p.tables = pack[w].tables
             /\ p.saved = pack[w].saved
             /\ PackWrites(w, p, saved)
             /\ Then(w, "stages")
             /\ UNCHANGED <<cache, package, pointer>> /\ OnlyPack
<1> DEFINE saved == [pack[w].note EXCEPT !.status = "RUNNING"]
           loaded == Inputs(run[w].cutoff)
           p == [pack[w] EXCEPT !.note = saved, !.loaded = loaded]
<1>1. loaded \in InputSet BY PackParts, FilesRead
<1>2. /\ saved \in NoteSet /\ saved.inputs = pack[w].note.inputs
      /\ saved.stages = pack[w].note.stages /\ saved.status = "RUNNING"
  BY PackParts DEF NoteSet, NoteStatuses
<1>3. pack \in [Workers -> PackSet] BY PackParts
<1>4. PackWrites(w, p, saved) BY <1>3 DEF Load, DirOf, PackWrites
<1>5. run[w].at = "load" /\ Then(w, "stages") /\ UNCHANGED <<cache, package, pointer>> /\ OnlyPack
  BY DEF Load, At
<1> HIDE DEF saved, loaded
<1>6. /\ p \in PackSet /\ p.note = saved /\ p.loaded = loaded /\ p.tables = pack[w].tables
      /\ p.saved = pack[w].saved
  BY <1>1, <1>2, PackParts DEF PackSet
<1> HIDE DEF p
<1> QED BY <1>2, <1>4, <1>5, <1>6 DEF p, saved, loaded

LEMMA StageStored ==
  ASSUME Typed, NEW w \in Workers, NEW s \in Stages, Stage(w, s)
  PROVE  LET p == [pack[w] EXCEPT !.tables = [@ EXCEPT ![s] = TableOf(w, s)]]
         IN  /\ p \in PackSet /\ p.note = pack[w].note /\ p.loaded = pack[w].loaded
             /\ p.saved = pack[w].saved
             /\ p.tables[s] = TableOf(w, s)
             /\ \A t \in Stages : t # s => p.tables[t] = pack[w].tables[t]
             /\ pack' = [pack EXCEPT ![w] = p]
<1> DEFINE tables == [pack[w].tables EXCEPT ![s] = TableOf(w, s)]
           p == [pack[w] EXCEPT !.tables = tables]
<1>1. TableOf(w, s) \in InputSet /\ pack' = [pack EXCEPT ![w].tables[s] = TableOf(w, s)]
  BY StageIs
<1>2. /\ tables \in TableSet /\ tables[s] = TableOf(w, s)
      /\ \A t \in Stages : t # s => tables[t] = pack[w].tables[t]
  BY <1>1, PackParts DEF TableSet
<1>3. pack' = [pack EXCEPT ![w] = p] BY <1>1, PackParts
<1> HIDE DEF tables
<1>4. /\ p \in PackSet /\ p.note = pack[w].note /\ p.loaded = pack[w].loaded
      /\ p.saved = pack[w].saved /\ p.tables = tables
  BY <1>2, PackParts DEF PackSet
<1>5. p = [pack[w] EXCEPT !.tables = [@ EXCEPT ![s] = TableOf(w, s)]] BY DEF tables
<1> HIDE DEF p
<1> QED BY <1>2, <1>3, <1>4, <1>5

LEMMA SaveIs ==
  ASSUME Typed, NEW w \in Workers, NEW s \in Stages, SaveStage(w, s)
  PROVE  \E saved \in NoteSet, p \in PackSet :
           /\ run[w].at = "stages" /\ pack[w].tables[s] # NoInputs
           /\ saved.inputs = pack[w].note.inputs /\ saved.status = "RUNNING"
           /\ saved.stages = pack[w].note.stages \cup {s}
           /\ p.note = saved /\ p.loaded = pack[w].loaded
           /\ p.tables = pack[w].tables /\ p.saved = pack[w].saved \cup {s}
           /\ PackWrites(w, p, saved)
           /\ UNCHANGED <<run, cache, package, pointer>> /\ OnlyPack
<1> DEFINE saved == [pack[w].note EXCEPT !.status = "RUNNING", !.stages = @ \cup {s}]
           p == [pack[w] EXCEPT !.note = saved, !.saved = @ \cup {s}]
<1>1. /\ saved \in NoteSet /\ saved.inputs = pack[w].note.inputs
      /\ saved.status = "RUNNING" /\ saved.stages = pack[w].note.stages \cup {s}
  BY PackParts DEF NoteSet, NoteStatuses
<1>2. PackWrites(w, p, saved) BY PackParts DEF SaveStage, Save, DirOf, PackWrites
<1>3. /\ run[w].at = "stages" /\ pack[w].tables[s] # NoInputs
      /\ UNCHANGED <<run, cache, package, pointer>> /\ OnlyPack
  BY DEF SaveStage, At
<1> HIDE DEF saved
<1>4. /\ p \in PackSet /\ p.note = saved /\ p.loaded = pack[w].loaded
      /\ p.tables = pack[w].tables /\ p.saved = pack[w].saved \cup {s}
  BY <1>1, PackParts DEF PackSet
<1> HIDE DEF p
<1> QED BY <1>1, <1>2, <1>3, <1>4

LEMMA ValidateIs ==
  ASSUME Typed, NEW w \in Workers, Validate(w)
  PROVE  /\ run[w].at = "validate"
         /\ \E quality \in {"COMPLETED", "FAILED"} :
              LET judged == [pack[w].note EXCEPT !.status = quality]
              IN  /\ judged \in NoteSet /\ judged.inputs = pack[w].note.inputs
                  /\ judged.stages = pack[w].note.stages
                  /\ PackWrites(w, NoPack, judged)
         /\ Then(w, "publish") \/ Set(w, Idle)
         /\ UNCHANGED <<cache, package, pointer>> /\ OnlyPack
<1>1. PICK quality \in {"COMPLETED", "FAILED"} :
        /\ note' = [note EXCEPT ![run[w].dir] = [pack[w].note EXCEPT !.status = quality]]
        /\ Then(w, "publish") \/ Set(w, Idle)
  BY DEF Validate, DirOf
<1> DEFINE judged == [pack[w].note EXCEPT !.status = quality]
<1>2. judged \in NoteSet /\ judged.inputs = pack[w].note.inputs /\ judged.stages = pack[w].note.stages
  BY PackParts DEF NoteSet, NoteStatuses
<1>3. PackWrites(w, NoPack, judged) BY <1>1 DEF Validate, PackWrites
<1> HIDE DEF judged
<1>4. /\ run[w].at = "validate" /\ UNCHANGED <<cache, package, pointer>> /\ OnlyPack
  BY DEF Validate, At
<1> QED BY <1>1, <1>2, <1>3, <1>4 DEF judged

\* Typed, of a pack that writes itself and its checkpoint.
LEMMA WritesTyped ==
  ASSUME Typed, OnlyPack, NEW w \in Workers, NEW l \in Ats,
         Then(w, l) \/ Set(w, Idle) \/ UNCHANGED run,
         NEW p \in PackSet, NEW n \in NoteSet, PackWrites(w, p, n),
         UNCHANGED <<cache, package, pointer>>
  PROVE  Typed'
<1>1. run[w].dir \in Dirs BY PackParts
<1>2. PacksTyped' BY <1>1 DEF PackWrites, Typed, PacksTyped
<1> QED BY <1>2, ThenTyped, PackTypedBy

\* Typed, of a step of a pack.
LEMMA PackTyped == ASSUME Typed, NEW w \in Workers, Pack(w) PROVE Typed'
<1>0. /\ "load" \in Ats /\ "stages" \in Ats /\ "validate" \in Ats /\ "publish" \in Ats
  BY DEF Ats
<1>1. CASE CacheHit(w)
  <2>1. PacksTyped' BY <1>1 DEF CacheHit, packVars, Typed, PacksTyped
  <2>2. OnlyPack /\ Then(w, "publish") BY <1>1 DEF CacheHit
  <2> QED BY <2>1, <2>2, <1>0, ThenTyped, PackTypedBy
<1>2. CASE Open(w)
  <2>1. PICK force \in BOOLEAN :
          LET opened == Opened(note[run[w].dir], Inputs(run[w].cutoff), force)
          IN  /\ opened \in NoteSet
              /\ [NoPack EXCEPT !.note = opened] \in PackSet
              /\ PackWrites(w, [NoPack EXCEPT !.note = opened], opened)
    BY <1>2, OpenIs
  <2>2. Then(w, "load") /\ UNCHANGED <<cache, package, pointer>> /\ OnlyPack BY <1>2, OpenIs
  <2> QED BY <2>1, <2>2, <1>0, WritesTyped
<1>3. CASE Load(w)
  <2> DEFINE saved == [pack[w].note EXCEPT !.status = "RUNNING"]
             p == [pack[w] EXCEPT !.note = saved, !.loaded = Inputs(run[w].cutoff)]
  <2>1. saved \in NoteSet /\ p \in PackSet /\ PackWrites(w, p, saved) /\ Then(w, "stages")
        /\ UNCHANGED <<cache, package, pointer>> /\ OnlyPack
    BY <1>3, LoadIs
  <2> HIDE DEF saved, p
  <2> QED BY <2>1, <1>0, WritesTyped
<1>4. ASSUME NEW s \in Stages, Stage(w, s) PROVE Typed'
  <2>1. TableOf(w, s) \in InputSet /\ cache' = [cache EXCEPT ![run[w].dir][s] = TableOf(w, s)]
    BY <1>4, StageIs
  <2>2. PICK p : p = [pack[w] EXCEPT !.tables = [@ EXCEPT ![s] = TableOf(w, s)]] OBVIOUS
  <2>3. p \in PackSet /\ pack' = [pack EXCEPT ![w] = p] BY <1>4, <2>2, StageStored
  <2>4. cache' \in [Dirs -> TableSet] BY <2>1, PackParts, TableStored
  <2>5. UNCHANGED <<run, note, package, pointer>> /\ OnlyPack BY <1>4 DEF Stage
  <2>6. PacksTyped' BY <2>3, <2>4, <2>5 DEF Typed, PacksTyped
  <2> QED BY <2>5, <2>6, <1>0, ThenTyped, PackTypedBy
<1>5. ASSUME NEW s \in Stages, SaveStage(w, s) PROVE Typed'
  <2>1. PICK saved \in NoteSet, p \in PackSet :
          PackWrites(w, p, saved) /\ UNCHANGED <<run, cache, package, pointer>> /\ OnlyPack
    BY <1>5, SaveIs
  <2> QED BY <2>1, <1>0, WritesTyped
<1>6. CASE Package(w)
  <2>1. /\ package' = [package EXCEPT ![run[w].dir] = pack[w].tables]
        /\ Then(w, "validate") /\ UNCHANGED <<note, cache, pointer, pack>> /\ OnlyPack
    BY <1>6 DEF Package, DirOf
  <2>2. package' \in [Dirs -> TableSet] BY <2>1, PackParts
  <2>3. PacksTyped' BY <2>1, <2>2 DEF Typed, PacksTyped
  <2> QED BY <2>1, <2>3, <1>0, ThenTyped, PackTypedBy
<1>7. CASE Validate(w)
  <2>1. PICK judged \in NoteSet : PackWrites(w, NoPack, judged) BY <1>7, ValidateIs
  <2>2. (Then(w, "publish") \/ Set(w, Idle)) /\ UNCHANGED <<cache, package, pointer>> /\ OnlyPack
    BY <1>7, ValidateIs
  <2> QED BY <2>1, <2>2, <1>0, PackEmpty, WritesTyped
<1>8. CASE Publish(w)
  <2>1. [dir |-> run[w].dir, cutoff |-> run[w].cutoff] \in PointerSet
    BY PackParts DEF PointerSet
  <2>2. pointer' \in PointerSet BY <1>8, <2>1, PackParts DEF Publish, DirOf
  <2>3. Set(w, Idle) /\ UNCHANGED <<note, cache, package, pack>> /\ OnlyPack BY <1>8 DEF Publish
  <2>4. PacksTyped' BY <2>2, <2>3 DEF Typed, PacksTyped
  <2> QED BY <2>3, <2>4, <1>0, ThenTyped, PackTypedBy
<1>9. CASE Abandon(w)
  <2>1. Set(w, Idle) /\ pack' = [pack EXCEPT ![w] = NoPack]
        /\ UNCHANGED <<note, cache, package, pointer>> /\ OnlyPack
    BY <1>9 DEF Abandon
  <2>2. PacksTyped' BY <2>1, PackEmpty DEF Typed, PacksTyped
  <2> QED BY <2>1, <2>2, <1>0, ThenTyped, PackTypedBy
<1>10. CASE Stop(w)
  <2>1. Kill(w) /\ pack' = [pack EXCEPT ![w] = NoPack] /\ UNCHANGED <<note, cache, pointer>>
    BY <1>10 DEF Stop
  <2>2. package' \in [Dirs -> TableSet]
    <3>1. ASSUME NEW new \in SUBSET Stages,
                 package' = [package EXCEPT ![run[w].dir] = [s \in Stages |->
                               IF s \in new THEN pack[w].tables[s] ELSE @[s]]]
          PROVE  package' \in [Dirs -> TableSet]
      <4> DEFINE mixed == [s \in Stages |-> IF s \in new THEN pack[w].tables[s]
                                            ELSE package[run[w].dir][s]]
      <4>1. package[run[w].dir] \in TableSet BY PackParts
      <4>2. mixed \in TableSet BY <4>1, PackParts DEF TableSet
      <4>3. package' = [package EXCEPT ![run[w].dir] = mixed] BY <3>1
      <4> HIDE DEF mixed
      <4> QED BY <4>2, <4>3, PackParts
    <3>2. package' = package \/ \E new \in SUBSET Stages :
            package' = [package EXCEPT ![run[w].dir] = [s \in Stages |->
                          IF s \in new THEN pack[w].tables[s] ELSE @[s]]]
      BY <1>10 DEF Stop, DirOf
    <3> QED BY <3>1, <3>2, PackParts
  <2>3. PacksTyped' BY <2>1, <2>2, PackEmpty DEF Typed, PacksTyped
  <2>4. /\ day' \in Days /\ runs' \in 0..MaxRuns /\ crashes' \in 0..MaxCrashes
        /\ security' = security /\ kind' = kind /\ FilesTyped' /\ RunsTyped'
    BY <2>1, KillTyped
  <2> QED BY <2>3, <2>4 DEF Typed
<1> QED BY <1>1, <1>2, <1>3, <1>4, <1>5, <1>6, <1>7, <1>8, <1>9, <1>10, CommandTyped DEF Pack

\* Types at the start and over every step.
LEMMA InitTyped == Init => Typed
<1> SUFFICES ASSUME Init PROVE Typed OBVIOUS
<1>1. CVInit BY DEF Init
<1>2. /\ NoResult \in ResultSet /\ NoExport \in ExportSet
  BY DEF NoResult, NoExport, ResultSet, ExportSet, CutoffRange
<1>3. FilesTyped
  <2>1. NoPdf \in PdfRange BY DEF PdfRange
  <2> QED BY <1>1, <1>2, <2>1 DEF CVInit, FilesTyped, Dates
<1>4. RunsTyped BY <1>1, IdleTyped DEF CVInit, RunsTyped
<1>5. NoPointer \in PointerSet BY DEF NoPointer, PointerSet, CutoffRange
<1>6. PacksTyped BY <1>5, PackEmpty DEF Init, PacksTyped
<1>7. 1 \in Days /\ 0 \in 0..MaxRuns /\ 0 \in 0..MaxCrashes BY DaysAre
<1>8. kind \in [Contents -> Kinds \cup {"unread"}] BY <1>1 DEF CVInit
<1> QED BY <1>1, <1>3, <1>4, <1>6, <1>7, <1>8 DEF CVInit, Typed

LEMMA StepTyped == ASSUME Typed, RunsInOrder, [Next]_vars PROVE Typed'
<1>1. CASE UNCHANGED vars
  BY <1>1 DEF vars, cvVars, packVars, fileVars, boundVars, Typed, FilesTyped, RunsTyped, PacksTyped
<1>2. CASE Next
  <2>1. CASE Tomorrow /\ UNCHANGED packVars BY <2>1, TomorrowTyped
  <2>2. ASSUME NEW w \in Workers, Validation(w) /\ UNCHANGED packVars PROVE Typed'
    BY <2>2, ValidationTyped
  <2>3. ASSUME NEW w \in Workers, Pack(w) PROVE Typed' BY <2>3, PackTyped
  <2>4. CASE Rest BY <2>4, <1>1 DEF Rest
  <2> QED BY <1>2, <2>1, <2>2, <2>3, <2>4 DEF Next
<1> QED BY <1>1, <1>2

-----------------------------------------------------------------------------

(* PASS hides no gap.                                                      *)

Covered(r) ==
    r.acceptance = "PASS" /\ r.at \in {"export", "complete"} =>
        \A row \in Rows : row.date \in r.dates /\ Expected(row) => r.status[row] \in Matches

\* What a step does to the place of a run: it compares, or it goes on from
\* there, or it is somewhere else.
LEMMA PassBy ==
  ASSUME run \in [Workers -> RunSet], PassMeansCovered,
         NEW w \in Workers, NEW r, Set(w, r), Covered(r)
  PROVE  PassMeansCovered'
<1>1. \A v \in Workers : run'[v] = (IF v = w THEN r ELSE run[v]) BY SetRun
<1>2. \A v \in Workers : Covered(run[v]) BY DEF PassMeansCovered, Covered
<1>3. \A v \in Workers : Covered(run'[v]) BY <1>1, <1>2
<1> QED BY <1>3 DEF PassMeansCovered, Covered

LEMMA PassThen ==
  ASSUME run \in [Workers -> RunSet], PassMeansCovered, NEW w \in Workers,
         NEW l, l \notin {"export", "complete"}, Set(w, [run[w] EXCEPT !.at = l])
  PROVE  PassMeansCovered'
<1>1. [run[w] EXCEPT !.at = l].at = l BY DEF RunSet
<1>2. Covered([run[w] EXCEPT !.at = l]) BY <1>1 DEF Covered
<1> QED BY <1>2, PassBy

LEMMA PassIdle ==
  ASSUME run \in [Workers -> RunSet], PassMeansCovered, NEW w \in Workers, Set(w, Idle)
  PROVE  PassMeansCovered'
<1>1. Covered(Idle) BY IdleTyped DEF Covered
<1> QED BY <1>1, PassBy

LEMMA PassValidation ==
  ASSUME Typed, PassMeansCovered, NEW w \in Workers, Validation(w)
  PROVE  PassMeansCovered'
<1>0. /\ run \in [Workers -> RunSet] /\ run[w] \in RunSet /\ Idle \in RunSet
      /\ Covered(run[w])
  BY IdleTyped DEF Typed, RunsTyped, PassMeansCovered, Covered
<1>1. CASE Begin(w)
  <2>1. PICK job, cutoff :
          Set(w, [Idle EXCEPT !.at = "discover", !.job = job, !.dir = HomeOf(job),
                              !.cutoff = cutoff, !.serial = runs + 1])
    BY <1>1 DEF Begin
  <2>2. PICK s : s = [Idle EXCEPT !.at = "discover", !.job = job, !.dir = HomeOf(job),
                                  !.cutoff = cutoff, !.serial = runs + 1]
    OBVIOUS
  <2>3. s.at = "discover" BY <1>0, <2>2 DEF RunSet
  <2> QED BY <1>0, <2>1, <2>2, <2>3, PassBy DEF Covered
<1>2. CASE Raise(w) BY <1>0, <1>2, PassIdle DEF Raise
<1>3. CASE Discover(w)
  <2>1. PICK dates, periodic, docs :
          \/ Set(w, [run[w] EXCEPT !.at = "compare", !.dates = dates, !.periodic = dates,
                                   !.reachable = FALSE])
          \/ Set(w, [run[w] EXCEPT !.at = "download", !.dates = dates, !.listed = day,
                                   !.periodic = periodic, !.docs = docs])
    BY <1>3 DEF Discover
  <2>2. PICK s, u :
          /\ s = [run[w] EXCEPT !.at = "compare", !.dates = dates, !.periodic = dates,
                                !.reachable = FALSE]
          /\ u = [run[w] EXCEPT !.at = "download", !.dates = dates, !.listed = day,
                                !.periodic = periodic, !.docs = docs]
    OBVIOUS
  <2>3. s.at = "compare" /\ u.at = "download" BY <1>0, <2>2 DEF RunSet
  <2>4. Covered(s) /\ Covered(u) BY <2>3 DEF Covered
  <2>5. Set(w, s) \/ Set(w, u) BY <2>1, <2>2
  <2> QED BY <1>0, <2>4, <2>5, PassBy
<1>4. CASE Download(w)
  <2>1. run[w].at = "download" BY <1>4 DEF Download, At
  <2>2. PICK doc : Set(w, [run[w] EXCEPT !.got = @ \cup {doc}]) BY <1>4 DEF Download
  <2>3. PICK s : s = [run[w] EXCEPT !.got = @ \cup {doc}] OBVIOUS
  <2>4. s.at = "download" BY <1>0, <2>1, <2>3 DEF RunSet
  <2> QED BY <1>0, <2>2, <2>3, <2>4, PassBy DEF Covered
<1>5. CASE Downloaded(w) BY <1>0, <1>5, PassThen DEF Downloaded
<1>6. CASE Parse(w)
  <2>1. run[w].at = "parse" BY <1>6 DEF Parse, At
  <2>2. PICK read, facts : Set(w, [run[w] EXCEPT !.read = read, !.facts = facts])
    BY <1>6 DEF Parse
  <2>3. PICK s : s = [run[w] EXCEPT !.read = read, !.facts = facts] OBVIOUS
  <2>4. s.at = "parse" BY <1>0, <2>1, <2>3 DEF RunSet
  <2> QED BY <1>0, <2>2, <2>3, <2>4, PassBy DEF Covered
<1>7. CASE Collect(w) BY <1>0, <1>7, PassThen DEF Collect
<1>8. CASE Compare(w)
  <2>1. PICK reading \in [Rows -> Readings] : \E unmatched \in BOOLEAN :
          Set(w, [run[w] EXCEPT !.at = "export", !.status = Compared(run[w], reading),
                    !.acceptance = Acceptance(run[w], Compared(run[w], reading), unmatched)])
    BY <1>8 DEF Compare
  <2>2. PICK unmatched \in BOOLEAN :
          Set(w, [run[w] EXCEPT !.at = "export", !.status = Compared(run[w], reading),
                    !.acceptance = Acceptance(run[w], Compared(run[w], reading), unmatched)])
    BY <2>1
  <2>3. PICK s : s = [run[w] EXCEPT !.at = "export", !.status = Compared(run[w], reading),
                        !.acceptance = Acceptance(run[w], Compared(run[w], reading), unmatched)]
    OBVIOUS
  <2>4. /\ s.status = Compared(run[w], reading) /\ s.dates = run[w].dates
        /\ s.acceptance = Acceptance(run[w], Compared(run[w], reading), unmatched)
    BY <1>0, <2>3 DEF RunSet
  <2>5. Covered(s) BY <1>0, <2>4, PassCovers DEF Covered
  <2>6. Set(w, s) BY <2>2, <2>3
  <2> QED BY <1>0, <2>5, <2>6, PassBy
<1>9. CASE Export(w)
  <2>1. run[w].at = "export" /\ Set(w, [run[w] EXCEPT !.at = "complete"]) BY <1>9 DEF Export, At
  <2>2. PICK s : s = [run[w] EXCEPT !.at = "complete"] OBVIOUS
  <2>3. s.status = run[w].status /\ s.dates = run[w].dates /\ s.acceptance = run[w].acceptance
    BY <1>0, <2>2 DEF RunSet
  <2>4. Covered(s) BY <1>0, <2>1, <2>3 DEF Covered
  <2> QED BY <1>0, <2>1, <2>2, <2>4, PassBy
<1>10. CASE Complete(w)
  <2>1. Set(w, [run[w] EXCEPT !.at = "register", !.status = Idle.status, !.acceptance = "none"])
    BY <1>10 DEF Complete
  <2>2. PICK s : s = [run[w] EXCEPT !.at = "register", !.status = Idle.status,
                                    !.acceptance = "none"]
    OBVIOUS
  <2>3. s.at = "register" BY <1>0, <2>2 DEF RunSet
  <2> QED BY <1>0, <2>1, <2>2, <2>3, PassBy DEF Covered
<1>11. CASE Register(w)
  <2>1. PICK s : s = [Idle EXCEPT !.at = "open", !.job = "research", !.dir = run[w].dir,
                                  !.cutoff = run[w].cutoff, !.serial = run[w].serial]
    OBVIOUS
  <2>2. Set(w, s) \/ Set(w, Idle) BY <1>11, <2>1 DEF Register
  <2>3. s.at = "open" BY <1>0, <2>1 DEF RunSet
  <2>4. Covered(s) BY <2>3 DEF Covered
  <2> QED BY <1>0, <2>2, <2>4, PassBy, PassIdle
<1> QED BY <1>1, <1>2, <1>3, <1>4, <1>5, <1>6, <1>7, <1>8, <1>9, <1>10, <1>11 DEF Validation

LEMMA PassPack ==
  ASSUME Typed, PassMeansCovered, NEW w \in Workers, Pack(w)
  PROVE  PassMeansCovered'
<1>0. run \in [Workers -> RunSet] /\ Idle \in RunSet BY IdleTyped DEF Typed, RunsTyped
<1>1. CASE Command(w)
  <2>1. PICK cutoff : Set(w, [Idle EXCEPT !.at = "open", !.job = "pack", !.cutoff = cutoff,
                                          !.serial = runs + 1])
    BY <1>1 DEF Command
  <2>2. PICK s : s = [Idle EXCEPT !.at = "open", !.job = "pack", !.cutoff = cutoff,
                                  !.serial = runs + 1]
    OBVIOUS
  <2>3. s.at = "open" BY <1>0, <2>2 DEF RunSet
  <2> QED BY <1>0, <2>1, <2>2, <2>3, PassBy DEF Covered
<1>2. CASE CacheHit(w) \/ Open(w) \/ Load(w) \/ Package(w)
  <2>1. \E l \in {"publish", "load", "stages", "validate"} : Set(w, [run[w] EXCEPT !.at = l])
    BY <1>2 DEF CacheHit, Open, Load, Package, Then
  <2> QED BY <1>0, <2>1, PassThen
<1>3. CASE Validate(w)
  <2>1. Set(w, [run[w] EXCEPT !.at = "publish"]) \/ Set(w, Idle) BY <1>3 DEF Validate, Then
  <2> QED BY <1>0, <2>1, PassThen, PassIdle
<1>4. CASE Publish(w) \/ Abandon(w) \/ Stop(w)
  <2>1. Set(w, Idle) BY <1>4 DEF Publish, Abandon, Stop, Kill
  <2> QED BY <1>0, <2>1, PassIdle
<1>5. CASE \E s \in Stages : Stage(w, s) \/ SaveStage(w, s)
  <2>1. run' = run BY <1>5 DEF Stage, SaveStage
  <2> QED BY <2>1 DEF PassMeansCovered
<1> QED BY <1>1, <1>2, <1>3, <1>4, <1>5 DEF Pack

LEMMA PassStep == ASSUME Typed, PassMeansCovered, [Next]_vars PROVE PassMeansCovered'
<1>1. ASSUME UNCHANGED run PROVE PassMeansCovered' BY <1>1 DEF PassMeansCovered
<1>2. CASE UNCHANGED vars BY <1>1, <1>2 DEF vars, cvVars
<1>3. CASE Tomorrow BY <1>1, <1>3 DEF Tomorrow
<1>4. CASE Rest BY <1>1, <1>4 DEF Rest, vars, cvVars
<1> QED BY <1>2, <1>3, <1>4, PassValidation, PassPack DEF Next

-----------------------------------------------------------------------------

(* The documents of a run determine its facts.                             *)

\* What no step takes back of the directories.
Stays ==
    /\ \A d \in Dirs : \A r \in Dates : pdfs[d][r] # NoPdf => pdfs'[d][r] = pdfs[d][r]
    /\ \A c \in Contents : kind[c] # "unread" => kind'[c] = kind[c]
    /\ \A d \in Dirs : parsed[d] \subseteq parsed'[d]

\* The facts stay those of the documents.
LEMMA FactsStay ==
  ASSUME NEW files \in [Dates -> PdfRange], NEW files2, NEW kinds, NEW kinds2, NEW parses,
         NEW parses2, NEW docs \in SUBSET Docs, NEW facts,
         \A r \in Dates : files[r] # NoPdf => files2[r] = files[r],
         \A c \in Contents : kinds[c] # "unread" => kinds2[c] = kinds[c],
         parses \subseteq parses2,
         FactsIn(files, kinds, parses, docs, facts)
  PROVE  FactsIn(files2, kinds2, parses2, docs, facts)
<1>1. ASSUME NEW doc \in docs
      PROVE  /\ files2[doc.date] = files[doc.date] /\ files[doc.date] # NoPdf
             /\ kinds2[files[doc.date]] = kinds[files[doc.date]]
             /\ kinds[files[doc.date]] # "unread"
  <2>1. doc.date \in Dates BY DEF Dates
  <2>2. files[doc.date] # NoPdf /\ kinds[files[doc.date]] # "unread" BY DEF FactsIn
  <2>3. files[doc.date] \in Contents BY <2>1, <2>2 DEF PdfRange
  <2> QED BY <2>1, <2>2, <2>3
<1>2. \A doc \in docs : \A f : FactIn(files, parses, doc, f) => FactIn(files2, parses2, doc, f)
  BY <1>1 DEF FactIn
<1>3. \A doc \in docs : files2[doc.date] # NoPdf /\ kinds2[files2[doc.date]] # "unread"
  BY <1>1
<1>4. \A f \in facts : \E doc \in docs : FactIn(files2, parses2, doc, f)
                                        /\ kinds2[files2[doc.date]] # "zero"
  <2>1. ASSUME NEW f \in facts
        PROVE  \E doc \in docs : FactIn(files2, parses2, doc, f) /\ kinds2[files2[doc.date]] # "zero"
    <3>1. PICK doc \in docs : FactIn(files, parses, doc, f) /\ kinds[files[doc.date]] # "zero"
      BY DEF FactsIn
    <3>2. FactIn(files2, parses2, doc, f) BY <1>2, <3>1
    <3>3. kinds2[files2[doc.date]] # "zero" BY <1>1, <3>1
    <3> QED BY <3>2, <3>3
  <2> QED BY <2>1
<1>5. \A doc \in docs : kinds2[files2[doc.date]] # "zero" =>
          \E f \in facts : FactIn(files2, parses2, doc, f)
  <2>1. ASSUME NEW doc \in docs, kinds2[files2[doc.date]] # "zero"
        PROVE  \E f \in facts : FactIn(files2, parses2, doc, f)
    <3>1. kinds[files[doc.date]] # "zero" BY <1>1, <2>1
    <3>2. PICK f \in facts : FactIn(files, parses, doc, f) BY <3>1 DEF FactsIn
    <3> QED BY <1>2, <3>2
  <2> QED BY <2>1
<1> QED BY <1>3, <1>4, <1>5 DEF FactsIn

\* One document more.
LEMMA FactsAdd ==
  ASSUME NEW files, NEW kinds, NEW parses, NEW docs, NEW facts, NEW doc, NEW f,
         FactsIn(files, kinds, parses, docs, facts),
         files[doc.date] # NoPdf, kinds[files[doc.date]] # "unread", FactIn(files, parses, doc, f)
  PROVE  FactsIn(files, kinds, parses, docs \cup {doc},
                 facts \cup (IF kinds[files[doc.date]] = "zero" THEN {} ELSE {f}))
<1> DEFINE more == IF kinds[files[doc.date]] = "zero" THEN {} ELSE {f}
           docs2 == docs \cup {doc}
           facts2 == facts \cup more
<1>1. \A e \in docs2 : files[e.date] # NoPdf /\ kinds[files[e.date]] # "unread" BY DEF FactsIn
<1>2. \A g \in facts2 : \E e \in docs2 : FactIn(files, parses, e, g) /\ kinds[files[e.date]] # "zero"
  <2>1. ASSUME NEW g \in facts
        PROVE  \E e \in docs2 : FactIn(files, parses, e, g) /\ kinds[files[e.date]] # "zero"
    BY DEF FactsIn
  <2>2. \A g \in more : g = f /\ kinds[files[doc.date]] # "zero" OBVIOUS
  <2> QED BY <2>1, <2>2
<1>3. \A e \in docs2 : kinds[files[e.date]] # "zero" => \E g \in facts2 : FactIn(files, parses, e, g)
  <2>1. ASSUME NEW e \in docs, kinds[files[e.date]] # "zero"
        PROVE  \E g \in facts2 : FactIn(files, parses, e, g)
    BY <2>1 DEF FactsIn
  <2>2. kinds[files[doc.date]] # "zero" => f \in facts2 OBVIOUS
  <2> QED BY <2>1, <2>2
<1> QED BY <1>1, <1>2, <1>3 DEF FactsIn

\* Documents that have their facts have the same ones, where both have them.
LEMMA FactsSame ==
  ASSUME NEW d \in Dirs, ParsedOnce, NEW docs, NEW docs2, NEW facts \in SUBSET FactSet,
         NEW facts2 \in SUBSET FactSet,
         FactsOf(d, docs, facts), FactsOf(d, docs2, facts2),
         NEW f \in facts, \A doc \in docs : doc.date = f.date => doc \in docs2
  PROVE  f \in facts2
<1>1. PICK doc \in docs : FactIn(pdfs[d], parsed[d], doc, f) /\ kind[pdfs[d][doc.date]] # "zero"
  BY DEF FactsOf, FactsIn
<1>2. doc \in docs2 BY <1>1 DEF FactIn
<1>3. PICK g \in facts2 : FactIn(pdfs[d], parsed[d], doc, g) BY <1>1, <1>2 DEF FactsOf, FactsIn
<1>4. f \in FactSet /\ g \in FactSet OBVIOUS
<1>5. f.date = g.date /\ f.content = g.content BY <1>1, <1>3 DEF FactIn
<1>6. f.as = g.as
  <2>1. PICK p, q : p = [content |-> f.content, as |-> f.as] /\ q = [content |-> g.content, as |-> g.as]
    OBVIOUS
  <2>2. p \in parsed[d] /\ q \in parsed[d] BY <1>1, <1>3, <2>1 DEF FactIn
  <2>3. p.content = q.content BY <1>5, <2>1
  <2>4. p = q BY <2>2, <2>3 DEF ParsedOnce
  <2> QED BY <2>1, <2>4
<1>7. f = g BY <1>4, <1>5, <1>6 DEF FactSet
<1> QED BY <1>7

\* A step keeps what the directories hold.
LEMMA FilesKept == ASSUME UNCHANGED <<pdfs, kind, parsed>> PROVE Stays
BY DEF Stays

LEMMA DownloadStays == ASSUME Typed, NEW w \in Workers, Download(w) PROVE Stays
<1>1. PICK doc \in run[w].docs \ run[w].got :
        IF pdfs[run[w].dir][doc.date] = NoPdf
        THEN pdfs' = [pdfs EXCEPT ![run[w].dir][doc.date] = [of |-> doc, whole |-> TRUE]]
        ELSE UNCHANGED pdfs
  BY DEF Download
<1>2. pdfs \in [Dirs -> [Dates -> PdfRange]] BY DEF Typed, FilesTyped
<1>3. \A d \in Dirs : \A r \in Dates : pdfs[d][r] # NoPdf => pdfs'[d][r] = pdfs[d][r]
  BY <1>1, <1>2
<1> QED BY <1>3 DEF Stays, Download

\* What the parser does to a fetched document.
LEMMA ParseStays ==
  ASSUME Typed, ParsedOnce, NEW w \in Workers, Parse(w),
         \A doc \in run[w].docs : Fetched(run[w].dir, doc)
  PROVE  /\ Stays /\ ParsedOnce'
         /\ \E doc \in run[w].docs : \E k \in Kinds :
              LET c == Content(run[w].dir, doc)
                  new == [content |-> c, as |-> ParsedAs(w, doc)]
              IN  /\ c \in Contents /\ kind'[c] = k
                  /\ new \in parsed'[run[w].dir]
                  /\ Set(w, [run[w] EXCEPT !.read = @ \cup {doc},
                               !.facts = @ \cup (IF k = "zero" THEN {} ELSE {NewFact(w, doc)})])
<1> DEFINE d == run[w].dir
<1>1. PICK doc \in run[w].docs \ run[w].read : \E k \in Outcomes(Content(d, doc)) :
        /\ kind' = [kind EXCEPT ![Content(d, doc)] = k]
        /\ Set(w, [run[w] EXCEPT !.read = @ \cup {doc},
                                 !.facts = @ \cup (IF k = "zero" THEN {} ELSE {NewFact(w, doc)})])
        /\ parsed' = [parsed EXCEPT ![d] =
             @ \cup {[content |-> Content(d, doc), as |-> ParsedAs(w, doc)]}]
  BY ParseIs
<1>2. PICK k \in Outcomes(Content(d, doc)) :
        /\ kind' = [kind EXCEPT ![Content(d, doc)] = k]
        /\ Set(w, [run[w] EXCEPT !.read = @ \cup {doc},
                                 !.facts = @ \cup (IF k = "zero" THEN {} ELSE {NewFact(w, doc)})])
  BY <1>1
<1>3. PICK c : c = Content(d, doc) OBVIOUS
<1>4. PICK new : new = [content |-> c, as |-> ParsedAs(w, doc)] OBVIOUS
<1>5. d \in Dirs /\ doc \in Docs BY DEF Typed, RunsTyped, RunSet
<1>6. c \in Contents
  <2>1. c \in PdfRange BY <1>3, <1>5, ParsedAsIs
  <2> QED BY <2>1, <1>3 DEF PdfRange, Fetched
<1>7. kind \in [Contents -> Kinds \cup {"unread"}] BY DEF Typed
<1>8. k \in Kinds /\ (kind[c] # "unread" => k = kind[c]) BY <1>2, <1>3, <1>6, <1>7, OutcomesAre
<1>9. kind' = [kind EXCEPT ![c] = k] BY <1>2, <1>3
<1>10. kind'[c] = k /\ \A e \in Contents : kind[e] # "unread" => kind'[e] = kind[e]
  BY <1>6, <1>7, <1>8, <1>9
<1>11. parsed \in [Dirs -> SUBSET ParsedSet] BY DEF Typed, FilesTyped
<1>12. parsed' = [parsed EXCEPT ![d] = @ \cup {new}] BY <1>1, <1>3, <1>4
<1>13. /\ parsed'[d] = parsed[d] \cup {new}
       /\ \A e \in Dirs : e # d => parsed'[e] = parsed[e]
  BY <1>5, <1>11, <1>12
<1>14. Stays BY <1>10, <1>13 DEF Stays, Parse
<1>15. new \in parsed[d] \/ \A p \in parsed[d] : p.content # c
  BY <1>3, <1>4, <1>5, ParsedAsIs
<1>16. new.content = c BY <1>4
<1>17. ParsedOnce' BY <1>13, <1>15, <1>16 DEF ParsedOnce
<1>18. new \in parsed'[d] BY <1>13
<1> QED BY <1>2, <1>3, <1>4, <1>6, <1>8, <1>10, <1>14, <1>17, <1>18

\* What a step of anybody keeps.
StepStays == Stays /\ ParsedOnce' /\ security' = security /\ day' \in Days /\ day <= day'

LEMMA ValidationStays ==
  ASSUME Typed, RunsInOrder, NEW w \in Workers, Validation(w)
  PROVE  StepStays
<1>0. day \in Days /\ day <= day BY DaysAre DEF Typed
<1>1. ParsedOnce BY DEF RunsInOrder
<1>2. CASE Download(w)
  <2>1. parsed' = parsed /\ day' = day /\ security' = security BY <1>2 DEF Download
  <2> QED BY <1>0, <1>1, <1>2, <2>1, DownloadStays DEF StepStays, ParsedOnce
<1>3. CASE Parse(w)
  <2>1. run[w].at = "parse" /\ day' = day /\ security' = security BY <1>3 DEF Parse, At
  <2>2. \A doc \in run[w].docs : Fetched(run[w].dir, doc)
    BY <2>1 DEF RunsInOrder, RunInOrder, Working
  <2> QED BY <1>0, <1>1, <1>3, <2>1, <2>2, ParseStays DEF StepStays
<1>4. ASSUME UNCHANGED <<pdfs, kind, parsed>>, day' = day, security' = security PROVE StepStays
  BY <1>0, <1>1, <1>4, FilesKept DEF StepStays, ParsedOnce
<1>5. CASE Begin(w) BY <1>4, <1>5 DEF Begin
<1>6. CASE Raise(w) BY <1>4, <1>6 DEF Raise, fileVars
<1>7. CASE Discover(w) BY <1>4, <1>7 DEF Discover, fileVars
<1>8. CASE Downloaded(w) BY <1>4, <1>8 DEF Downloaded, fileVars
<1>9. CASE Collect(w) BY <1>4, <1>9 DEF Collect
<1>10. CASE Compare(w) BY <1>4, <1>10 DEF Compare, fileVars
<1>11. CASE Export(w) BY <1>4, <1>11 DEF Export
<1>12. CASE Complete(w) BY <1>4, <1>12 DEF Complete
<1>13. CASE Register(w) BY <1>4, <1>13 DEF Register
<1> QED BY <1>2, <1>3, <1>5, <1>6, <1>7, <1>8, <1>9, <1>10, <1>11, <1>12, <1>13 DEF Validation

LEMMA PackStays ==
  ASSUME Typed, RunsInOrder, NEW w \in Workers, Pack(w)
  PROVE  StepStays /\ done' = done
<1>0. day \in Days /\ day <= day BY DaysAre DEF Typed
<1>1. ParsedOnce BY DEF RunsInOrder
<1>2. CASE Stop(w)
  <2>1. Kill(w) BY <1>2 DEF Stop
  <2>2. kind' = kind /\ parsed' = parsed /\ day' = day /\ security' = security /\ done' = done
    BY <2>1 DEF Kill
  <2>3. Stays BY <2>1, <2>2, KillPdfs DEF Stays
  <2> QED BY <1>0, <1>1, <2>2, <2>3 DEF StepStays, ParsedOnce
<1>3. ASSUME UNCHANGED <<day, security, kind, fileVars, done>> PROVE StepStays /\ done' = done
  BY <1>0, <1>1, <1>3, FilesKept DEF StepStays, ParsedOnce, fileVars
<1>4. CASE Command(w) BY <1>3, <1>4 DEF Command
<1>5. CASE OnlyPack BY <1>3, <1>5 DEF OnlyPack
<1>6. CacheHit(w) \/ Open(w) \/ Load(w) \/ Package(w) \/ Validate(w) \/ Publish(w) \/ Abandon(w)
        => OnlyPack
  BY DEF CacheHit, Open, Load, Package, Validate, Publish, Abandon
<1>7. \A s \in Stages : Stage(w, s) \/ SaveStage(w, s) => OnlyPack BY DEF Stage, SaveStage
<1> QED BY <1>2, <1>4, <1>5, <1>6, <1>7 DEF Pack

\* Facts in a directory stay, over a step.
LEMMA FactsOfStay ==
  ASSUME Typed, Stays, NEW d \in Dirs, NEW docs \in SUBSET Docs, NEW facts, FactsOf(d, docs, facts)
  PROVE  FactsIn(pdfs'[d], kind', parsed'[d], docs, facts)
<1>1. pdfs[d] \in [Dates -> PdfRange] BY DEF Typed, FilesTyped
<1>2. /\ \A r \in Dates : pdfs[d][r] # NoPdf => pdfs'[d][r] = pdfs[d][r]
      /\ \A c \in Contents : kind[c] # "unread" => kind'[c] = kind[c]
      /\ parsed[d] \subseteq parsed'[d]
  BY DEF Stays
<1>3. FactsIn(pdfs[d], kind, parsed[d], docs, facts) BY DEF FactsOf
<1> QED BY <1>1, <1>2, <1>3, FactsStay

\* What holds of a run, of its record and the directories.
RunOk(r, files, kinds, parses, today, exchange) ==
    /\ r.at \in {"discover"} \cup Working => r.cutoff \in Days
    /\ r.at = "discover" => r.listed = 0 /\ r.docs = {} /\ r.got = {} /\ r.read = {} /\ r.facts = {}
    /\ r.at \in Working =>
          /\ \A doc \in r.got : files[doc.date] # NoPdf
          /\ FactsIn(files, kinds, parses, r.read, r.facts)
          /\ r.listed <= today
          /\ exchange = "BJ" => r.listed = 0
          /\ r.cutoff <= r.listed => r.docs = KnownDocs(r.periodic, r.cutoff)
    /\ r.at \in Working \ {"download"} => r.docs \subseteq r.got
    /\ r.at \in Gathered => r.docs = r.read

OkNow(r) == RunOk(r, pdfs[r.dir], kind, parsed[r.dir], day, security.exchange)

LEMMA InOrderIsOk ==
  ASSUME NEW w \in Workers
  PROVE  RunInOrder(w) <=> OkNow(run[w])
BY DEF RunInOrder, OkNow, RunOk, Fetched, Content, FactsOf, Exchange

\* Such a run stays in order when a step leaves it alone.
LEMMA OkStays ==
  ASSUME Typed, StepStays, NEW r \in RunSet, r.got \subseteq Docs, r.read \subseteq Docs, OkNow(r)
  PROVE  RunOk(r, pdfs'[r.dir], kind', parsed'[r.dir], day', security'.exchange)
<1> DEFINE d == r.dir
<1>1. d \in Dirs BY DEF RunSet
<1>2. r.listed \in Nat /\ day \in Nat /\ day' \in Nat /\ day <= day'
  BY DaysAre DEF RunSet, StepStays, Typed
<1>3. RunOk(r, pdfs[d], kind, parsed[d], day, security.exchange) BY DEF OkNow
<1>4. security' = security BY DEF StepStays
<1>5. ASSUME r.at \in Working PROVE \A doc \in r.got : pdfs'[d][doc.date] # NoPdf
  <2>1. \A doc \in r.got : doc.date \in Dates /\ pdfs[d][doc.date] # NoPdf
    BY <1>3, <1>5 DEF RunOk, Dates
  <2>2. \A doc \in r.got : pdfs'[d][doc.date] = pdfs[d][doc.date]
    BY <1>1, <2>1 DEF StepStays, Stays
  <2> QED BY <2>1, <2>2
<1>6. ASSUME r.at \in Working PROVE FactsIn(pdfs'[d], kind', parsed'[d], r.read, r.facts)
  <2>1. FactsOf(d, r.read, r.facts) BY <1>3, <1>6 DEF RunOk, FactsOf
  <2>2. Stays BY DEF StepStays
  <2> QED BY <1>1, <2>1, <2>2, FactsOfStay
<1>7. r.at \in Working => r.listed <= day' BY <1>2, <1>3 DEF RunOk
<1> QED BY <1>3, <1>4, <1>5, <1>6, <1>7 DEF RunOk

\* The runs are in order after a step of one worker when its own is.
LEMMA RunsBy ==
  ASSUME Typed, RunsInOrder, StepStays, NEW w \in Workers, NEW s \in RunSet, Set(w, s),
         RunOk(s, pdfs'[s.dir], kind', parsed'[s.dir], day', security'.exchange)
  PROVE  \A v \in Workers : RunInOrder(v)'
<1> SUFFICES ASSUME NEW v \in Workers PROVE RunInOrder(v)' OBVIOUS
<1>1. run \in [Workers -> RunSet] BY DEF Typed, RunsTyped
<1>2. run'[w] = s /\ \A u \in Workers : u # w => run'[u] = run[u] BY <1>1, SetRun
<1>3. PICK r : r = run'[v] OBVIOUS
<1>4. RunOk(r, pdfs'[r.dir], kind', parsed'[r.dir], day', security'.exchange)
  <2>1. CASE v = w BY <1>2, <1>3, <2>1
  <2>2. CASE v # w
    <3>1. r = run[v] BY <1>2, <1>3, <2>2
    <3>2. r \in RunSet /\ r.got \subseteq Docs /\ r.read \subseteq Docs BY <1>1, <3>1 DEF RunSet
    <3>3. OkNow(r) BY <3>1, InOrderIsOk DEF RunsInOrder
    <3> QED BY <3>2, <3>3, OkStays
  <2> QED BY <2>1, <2>2
<1> QED BY <1>3, <1>4 DEF RunInOrder, RunOk, Fetched, Content, FactsOf, Exchange

\* A run that is somewhere else.
LEMMA OkElsewhere ==
  ASSUME NEW r, r.at \notin {"discover"} \cup Working, NEW files, NEW kinds, NEW parses, NEW today,
         NEW exchange
  PROVE  RunOk(r, files, kinds, parses, today, exchange)
BY DEF RunOk, Working, Gathered

LEMMA RunsElsewhere ==
  ASSUME Typed, RunsInOrder, StepStays, NEW w \in Workers, NEW s \in RunSet, Set(w, s),
         s.at \notin {"discover"} \cup Working
  PROVE  \A v \in Workers : RunInOrder(v)'
BY OkElsewhere, RunsBy

\* What was found stays.
LEMMA DoneStays ==
  ASSUME Typed, RunsInOrder, StepStays, done' = done
  PROVE  DoneInOrder'
<1>1. DoneInOrder /\ done \in SUBSET DoneSet /\ Stays BY DEF RunsInOrder, Typed, RunsTyped, StepStays
<1>2. day \in Nat /\ day' \in Nat /\ day <= day' /\ security' = security
  BY DaysAre DEF StepStays, Typed
<1>3. ASSUME NEW x \in done
      PROVE  /\ x.cutoff \in Days /\ x.day <= day'
             /\ security'.exchange = "BJ" => x.day = 0
             /\ x.cutoff <= x.day => x.docs = KnownDocs(x.periodic, x.cutoff)
             /\ FactsIn(pdfs'[x.dir], kind', parsed'[x.dir], x.docs, x.facts)
             /\ \A y \in done : x.dir = y.dir /\ x.cutoff = y.cutoff => x = y
  <2>1. x \in DoneSet BY <1>1
  <2>2. x.day \in Nat /\ x.dir \in Dirs /\ x.docs \in SUBSET Docs BY <2>1, DaysAre DEF DoneSet
  <2>3. FactsOf(x.dir, x.docs, x.facts) BY <1>1 DEF DoneInOrder
  <2>4. FactsIn(pdfs'[x.dir], kind', parsed'[x.dir], x.docs, x.facts)
    BY <1>1, <2>2, <2>3, FactsOfStay
  <2>5. x.day <= day BY <1>1 DEF DoneInOrder
  <2>6. x.day <= day' BY <1>2, <2>2, <2>5
  <2> QED BY <1>1, <1>2, <2>4, <2>6 DEF DoneInOrder, Exchange
<1> QED BY <1>3 DEF DoneInOrder, FactsOf, Exchange

\* No fact of no document.
LEMMA FactsNone == \A files, kinds, parses : FactsIn(files, kinds, parses, {}, {})
BY DEF FactsIn

\* The step of each worker.
LEMMA BeginInOrder ==
  ASSUME Typed, RunsInOrder, StepStays, NEW w \in Workers, Begin(w)
  PROVE  \A v \in Workers : RunInOrder(v)'
<1>1. PICK job \in {"validate", "research"}, cutoff \in Days :
        Set(w, [Idle EXCEPT !.at = "discover", !.job = job, !.dir = HomeOf(job),
                            !.cutoff = cutoff, !.serial = runs + 1])
  BY DEF Begin
<1>2. PICK s : s = [Idle EXCEPT !.at = "discover", !.job = job, !.dir = HomeOf(job),
                                !.cutoff = cutoff, !.serial = runs + 1]
  OBVIOUS
<1>3. runs + 1 \in 0..MaxRuns /\ "discover" \in Ats /\ job \in Jobs /\ HomeOf(job) \in Dirs
      /\ cutoff \in CutoffRange
  BY DaysAre DEF Begin, Typed, Ats, Jobs, HomeOf, Dirs
<1>4. s \in RunSet BY <1>2, <1>3, IdleTyped DEF RunSet
<1>5. /\ s.at = "discover" /\ s.cutoff = cutoff /\ s.listed = 0
      /\ s.docs = {} /\ s.got = {} /\ s.read = {} /\ s.facts = {}
  BY <1>2, IdleTyped DEF RunSet
<1>6. \A files, kinds, parses, today, exchange : RunOk(s, files, kinds, parses, today, exchange)
  BY <1>5 DEF RunOk, Working, Gathered
<1> QED BY <1>1, <1>2, <1>4, <1>6, RunsBy

LEMMA DiscoverInOrder ==
  ASSUME Typed, RunsInOrder, StepStays, NEW w \in Workers, Discover(w)
  PROVE  \A v \in Workers : RunInOrder(v)'
<1> DEFINE r == run[w]
<1>1. /\ r \in RunSet /\ r.cutoff \in Days /\ r.listed = 0
      /\ r.docs = {} /\ r.got = {} /\ r.read = {} /\ r.facts = {}
  BY DEF Discover, At, Typed, RunsTyped, RunsInOrder, RunInOrder
<1>2. day' = day /\ security' = security BY DEF Discover
<1>3. PICK n \in Periods :
        \/ /\ security.exchange = "BJ"
           /\ Set(w, [r EXCEPT !.at = "compare", !.dates = Requested(r.cutoff, n),
                               !.periodic = Requested(r.cutoff, n), !.reachable = FALSE])
        \/ /\ security.exchange # "BJ"
           /\ \E listed \in {security.inferred} \cup
                          (IF security.exchange = "SH" THEN {security.profile} \ {0} ELSE {}) :
                LET periodic == {d \in Requested(r.cutoff, n) : d >= listed}
                IN  Set(w, [r EXCEPT !.at = "download", !.dates = Requested(r.cutoff, n),
                                     !.listed = day, !.periodic = periodic,
                                     !.docs = Selected(periodic, r.cutoff)])
  BY DEF Discover
<1>4. PICK dates : dates = Requested(r.cutoff, n) OBVIOUS
<1>5. dates \in SUBSET RowDates BY <1>4 DEF Requested
<1>6. day \in Nat /\ day \in CutoffRange /\ r.cutoff \in Nat \ {0} BY <1>1, DaysAre DEF Typed
<1>7. CASE /\ security.exchange = "BJ"
           /\ Set(w, [r EXCEPT !.at = "compare", !.dates = dates, !.periodic = dates,
                               !.reachable = FALSE])
  <2>1. PICK s : s = [r EXCEPT !.at = "compare", !.dates = dates, !.periodic = dates,
                               !.reachable = FALSE]
    OBVIOUS
  <2>2. "compare" \in Ats BY DEF Ats
  <2>3. s \in RunSet BY <1>1, <1>5, <2>1, <2>2 DEF RunSet
  <2>4. /\ s.at = "compare" /\ s.cutoff = r.cutoff /\ s.listed = 0 /\ s.docs = {}
        /\ s.got = {} /\ s.read = {} /\ s.facts = {}
    BY <1>1, <2>1 DEF RunSet
  <2>5. ~(s.cutoff <= s.listed) /\ 0 <= day BY <1>6, <2>4
  <2>6. \A files, kinds, parses, exchange : RunOk(s, files, kinds, parses, day, exchange)
    BY <1>1, <2>4, <2>5, FactsNone DEF RunOk, Gathered
  <2>7. Set(w, s) BY <1>7, <2>1
  <2> QED BY <1>2, <2>3, <2>6, <2>7, RunsBy
<1>8. ASSUME NEW listed, security.exchange # "BJ",
             Set(w, [r EXCEPT !.at = "download", !.dates = dates, !.listed = day,
                              !.periodic = {d \in dates : d >= listed},
                              !.docs = Selected({d \in dates : d >= listed}, r.cutoff)])
      PROVE  \A v \in Workers : RunInOrder(v)'
  <2>1. PICK periodic : periodic = {d \in dates : d >= listed} OBVIOUS
  <2>2. PICK docs : docs = Selected(periodic, r.cutoff) OBVIOUS
  <2>3. PICK s : s = [r EXCEPT !.at = "download", !.dates = dates, !.listed = day,
                               !.periodic = periodic, !.docs = docs]
    OBVIOUS
  <2>4. docs \in SUBSET Docs /\ (r.cutoff <= day => docs = KnownDocs(periodic, r.cutoff))
    BY <1>1, <2>2, SelectedIs
  <2>5. "download" \in Ats /\ periodic \in SUBSET RowDates BY <1>5, <2>1 DEF Ats
  <2>6. s \in RunSet BY <1>1, <1>5, <1>6, <2>3, <2>4, <2>5 DEF RunSet
  <2>7. /\ s.at = "download" /\ s.cutoff = r.cutoff /\ s.listed = day /\ s.docs = docs
        /\ s.periodic = periodic /\ s.got = {} /\ s.read = {} /\ s.facts = {}
    BY <1>1, <2>3 DEF RunSet
  <2>8. \A files, kinds, parses : RunOk(s, files, kinds, parses, day, security.exchange)
    BY <1>1, <1>6, <1>8, <2>4, <2>7, FactsNone DEF RunOk, Gathered
  <2>9. Set(w, s) BY <1>8, <2>1, <2>2, <2>3
  <2> QED BY <1>2, <2>6, <2>8, <2>9, RunsBy
<1> QED BY <1>3, <1>4, <1>7, <1>8

LEMMA DownloadInOrder ==
  ASSUME Typed, RunsInOrder, StepStays, NEW w \in Workers, Download(w)
  PROVE  \A v \in Workers : RunInOrder(v)'
<1>1. PICK doc \in run[w].docs \ run[w].got :
        /\ IF pdfs[run[w].dir][doc.date] = NoPdf
           THEN pdfs' = [pdfs EXCEPT ![run[w].dir][doc.date] = [of |-> doc, whole |-> TRUE]]
           ELSE UNCHANGED pdfs
        /\ Set(w, [run[w] EXCEPT !.got = @ \cup {doc}])
  BY DEF Download
<1>2. PICK r, d : r = run[w] /\ d = r.dir OBVIOUS
<1>3. r \in RunSet /\ d \in Dirs /\ doc \in Docs /\ doc.date \in Dates /\ r.at = "download"
  BY <1>2 DEF Typed, RunsTyped, RunSet, Dates, Download, At
<1>4. PICK s : s = [r EXCEPT !.got = @ \cup {doc}] OBVIOUS
<1>5. /\ s.got = r.got \cup {doc} /\ s.at = "download" /\ s.dir = d /\ s.docs = r.docs
      /\ s.read = r.read /\ s.facts = r.facts /\ s.listed = r.listed /\ s.cutoff = r.cutoff
      /\ s.periodic = r.periodic
  BY <1>2, <1>3, <1>4 DEF RunSet
<1>6. s \in RunSet
  <2>1. r.got \cup {doc} \in SUBSET Docs BY <1>3 DEF RunSet
  <2> QED BY <1>3, <1>4, <2>1 DEF RunSet
<1>7. pdfs'[d][doc.date] # NoPdf
  <2>1. pdfs \in [Dirs -> [Dates -> PdfRange]] BY DEF Typed, FilesTyped
  <2>2. CASE pdfs[d][doc.date] = NoPdf
    <3>1. pdfs'[d][doc.date] = [of |-> doc, whole |-> TRUE] BY <1>1, <1>2, <1>3, <2>1, <2>2
    <3>2. doc.date # 0 BY <1>3
    <3>3. [of |-> doc, whole |-> TRUE] # NoPdf BY DEF NoPdf
    <3> QED BY <3>1, <3>3
  <2>3. CASE pdfs[d][doc.date] # NoPdf BY <1>1, <1>2, <2>3
  <2> QED BY <2>2, <2>3
<1>8. OkNow(r) BY <1>2, InOrderIsOk DEF RunsInOrder
<1>9. RunOk(r, pdfs'[d], kind', parsed'[d], day', security'.exchange)
  <2>1. r.got \subseteq Docs /\ r.read \subseteq Docs BY <1>3 DEF RunSet
  <2> QED BY <1>2, <1>3, <1>8, <2>1, OkStays
<1>10. RunOk(s, pdfs'[d], kind', parsed'[d], day', security'.exchange)
  BY <1>3, <1>5, <1>7, <1>9 DEF RunOk, Working, Gathered
<1>11. Set(w, s) BY <1>1, <1>2, <1>4
<1> QED BY <1>5, <1>6, <1>10, <1>11, RunsBy

\* A run that goes on with what it has.
LEMMA OnInOrder ==
  ASSUME Typed, RunsInOrder, StepStays, NEW w \in Workers, run[w].at \in Working,
         NEW s \in RunSet, Set(w, s), s.at \in Working,
         s.dir = run[w].dir, s.docs = run[w].docs, s.got = run[w].got, s.read = run[w].read,
         s.facts = run[w].facts, s.listed = run[w].listed, s.cutoff = run[w].cutoff,
         s.periodic = run[w].periodic,
         s.at # "download" => s.docs \subseteq s.got,
         s.at \in Gathered => s.docs = s.read
  PROVE  \A v \in Workers : RunInOrder(v)'
<1>1. PICK r : r = run[w] OBVIOUS
<1>2. r \in RunSet /\ r.got \subseteq Docs /\ r.read \subseteq Docs
  BY <1>1 DEF Typed, RunsTyped, RunSet
<1>3. OkNow(r) BY <1>1, InOrderIsOk DEF RunsInOrder
<1>4. RunOk(r, pdfs'[r.dir], kind', parsed'[r.dir], day', security'.exchange)
  BY <1>2, <1>3, OkStays
<1>5. RunOk(s, pdfs'[s.dir], kind', parsed'[s.dir], day', security'.exchange)
  BY <1>1, <1>4 DEF RunOk, Working
<1> QED BY <1>5, RunsBy

LEMMA GoInOrder ==
  ASSUME Typed, RunsInOrder, StepStays, NEW w \in Workers, run[w].at \in Working,
         NEW l \in Working, Set(w, [run[w] EXCEPT !.at = l]),
         l # "download" => run[w].docs \subseteq run[w].got,
         l \in Gathered => run[w].docs = run[w].read
  PROVE  \A v \in Workers : RunInOrder(v)'
<1>1. PICK s : s = [run[w] EXCEPT !.at = l] OBVIOUS
<1>2. run[w] \in RunSet /\ l \in Ats BY DEF Typed, RunsTyped, Working, Ats
<1>3. s \in RunSet BY <1>1, <1>2 DEF RunSet
<1>4. /\ s.at = l /\ s.dir = run[w].dir /\ s.docs = run[w].docs /\ s.got = run[w].got
      /\ s.read = run[w].read /\ s.facts = run[w].facts /\ s.listed = run[w].listed
      /\ s.cutoff = run[w].cutoff /\ s.periodic = run[w].periodic
  BY <1>1, <1>2 DEF RunSet
<1> QED BY <1>1, <1>3, <1>4, OnInOrder

LEMMA CompareInOrder ==
  ASSUME Typed, RunsInOrder, StepStays, NEW w \in Workers, Compare(w)
  PROVE  \A v \in Workers : RunInOrder(v)'
<1>1. PICK reading \in [Rows -> Readings] : \E unmatched \in BOOLEAN :
        Set(w, [run[w] EXCEPT !.at = "export", !.status = Compared(run[w], reading),
                              !.acceptance = Acceptance(run[w], Compared(run[w], reading), unmatched)])
  BY DEF Compare
<1>2. PICK unmatched \in BOOLEAN :
        Set(w, [run[w] EXCEPT !.at = "export", !.status = Compared(run[w], reading),
                              !.acceptance = Acceptance(run[w], Compared(run[w], reading), unmatched)])
  BY <1>1
<1>3. PICK status : status = Compared(run[w], reading) OBVIOUS
<1>4. PICK acceptance : acceptance = Acceptance(run[w], status, unmatched) OBVIOUS
<1>5. PICK s : s = [run[w] EXCEPT !.at = "export", !.status = status, !.acceptance = acceptance]
  OBVIOUS
<1>6. run[w] \in RunSet /\ run[w].at = "compare" /\ "export" \in Ats
  BY DEF Typed, RunsTyped, Compare, At, Ats
<1>7. status \in [Rows -> Statuses] /\ acceptance \in AcceptanceRange
  BY <1>3, <1>4, <1>6, ComparedTyped, AcceptanceIs DEF AcceptanceRange
<1>8. s \in RunSet BY <1>5, <1>6, <1>7 DEF RunSet
<1>9. /\ s.at = "export" /\ s.dir = run[w].dir /\ s.docs = run[w].docs /\ s.got = run[w].got
      /\ s.read = run[w].read /\ s.facts = run[w].facts /\ s.listed = run[w].listed
      /\ s.cutoff = run[w].cutoff /\ s.periodic = run[w].periodic
  BY <1>5, <1>6 DEF RunSet
<1>10. run[w].docs \subseteq run[w].got /\ run[w].docs = run[w].read
  BY <1>6 DEF RunsInOrder, RunInOrder, Working, Gathered
<1>11. Set(w, s) BY <1>2, <1>3, <1>4, <1>5
<1> QED BY <1>6, <1>8, <1>9, <1>10, <1>11, OnInOrder DEF Working

LEMMA ParseInOrder ==
  ASSUME Typed, RunsInOrder, StepStays, NEW w \in Workers, Parse(w)
  PROVE  \A v \in Workers : RunInOrder(v)'
<1>1. PICK r, d : r = run[w] /\ d = r.dir OBVIOUS
<1>2. r \in RunSet /\ d \in Dirs /\ r.at = "parse" /\ r.got \subseteq Docs /\ r.read \subseteq Docs
  BY <1>1 DEF Typed, RunsTyped, RunSet, Parse, At
<1>3. \A doc \in run[w].docs : Fetched(run[w].dir, doc)
  BY <1>1, <1>2 DEF RunsInOrder, RunInOrder, Working
<1>4. ParsedOnce BY DEF RunsInOrder
<1>5. PICK doc \in run[w].docs : \E k \in Kinds :
        LET c == Content(run[w].dir, doc)
            new == [content |-> c, as |-> ParsedAs(w, doc)]
        IN  /\ c \in Contents /\ kind'[c] = k
            /\ new \in parsed'[run[w].dir]
            /\ Set(w, [run[w] EXCEPT !.read = @ \cup {doc},
                         !.facts = @ \cup (IF k = "zero" THEN {} ELSE {NewFact(w, doc)})])
  BY <1>3, <1>4, ParseStays
<1>6. PICK k \in Kinds :
        LET c == Content(run[w].dir, doc)
            new == [content |-> c, as |-> ParsedAs(w, doc)]
        IN  /\ c \in Contents /\ kind'[c] = k
            /\ new \in parsed'[run[w].dir]
            /\ Set(w, [run[w] EXCEPT !.read = @ \cup {doc},
                         !.facts = @ \cup (IF k = "zero" THEN {} ELSE {NewFact(w, doc)})])
  BY <1>5
<1>7. PICK c, f : c = pdfs[d][doc.date] /\ f = NewFact(w, doc) OBVIOUS
<1>8. doc \in Docs /\ doc \in r.docs BY <1>1, <1>2 DEF RunSet
<1>9. f \in FactSet BY <1>7, <1>8, ParsedAsIs
<1>10. kind'[c] = k /\ c \in Contents BY <1>1, <1>6, <1>7 DEF Content
<1>11. FactIn(pdfs[d], parsed'[d], doc, f)
  <2>1. PICK new : new = [content |-> c, as |-> ParsedAs(w, doc)] OBVIOUS
  <2>2. new \in parsed'[d] BY <1>1, <1>6, <1>7, <2>1 DEF Content
  <2>3. f = [date |-> doc.date, content |-> c, as |-> ParsedAs(w, doc)]
    BY <1>1, <1>7 DEF NewFact, Content
  <2>4. f.date = doc.date /\ f.content = c /\ [content |-> f.content, as |-> f.as] = new
    BY <2>1, <2>3
  <2> QED BY <1>7, <2>2, <2>4 DEF FactIn
<1>12. PICK facts : facts = r.facts \cup (IF k = "zero" THEN {} ELSE {f}) OBVIOUS
<1>13. PICK s : s = [r EXCEPT !.read = @ \cup {doc}, !.facts = facts] OBVIOUS
<1>14. Set(w, s) BY <1>1, <1>6, <1>7, <1>12, <1>13
<1>15. s \in RunSet
  <2>1. facts \in SUBSET FactSet BY <1>2, <1>9, <1>12 DEF RunSet
  <2>2. r.read \cup {doc} \in SUBSET Docs BY <1>2, <1>8
  <2> QED BY <1>2, <1>13, <2>1, <2>2 DEF RunSet
<1>16. /\ s.at = "parse" /\ s.dir = d /\ s.docs = r.docs /\ s.got = r.got
       /\ s.read = r.read \cup {doc} /\ s.facts = facts /\ s.listed = r.listed
       /\ s.cutoff = r.cutoff /\ s.periodic = r.periodic
  BY <1>1, <1>2, <1>13 DEF RunSet
<1>17. OkNow(r) BY <1>1, InOrderIsOk DEF RunsInOrder
<1>18. RunOk(r, pdfs'[d], kind', parsed'[d], day', security'.exchange)
  BY <1>1, <1>2, <1>17, OkStays
<1>19. pdfs' = pdfs BY DEF Parse
<1>20. c # NoPdf /\ k # "unread"
  BY <1>1, <1>3, <1>7, <1>8 DEF Fetched, Content, Kinds
<1>21. FactsIn(pdfs'[d], kind', parsed'[d], s.read, s.facts)
  <2>1. FactsIn(pdfs'[d], kind', parsed'[d], r.read, r.facts) BY <1>2, <1>18 DEF RunOk, Working
  <2>2. PICK files, kinds, parses : files = pdfs'[d] /\ kinds = kind' /\ parses = parsed'[d]
    OBVIOUS
  <2>3. files[doc.date] # NoPdf /\ kinds[files[doc.date]] = k BY <1>7, <1>10, <1>19, <1>20, <2>2
  <2>4. FactIn(files, parses, doc, f) BY <1>11, <1>19, <2>2
  <2>5. FactsIn(files, kinds, parses, r.read, r.facts) BY <2>1, <2>2
  <2>6. FactsIn(files, kinds, parses, r.read \cup {doc},
                r.facts \cup (IF kinds[files[doc.date]] = "zero" THEN {} ELSE {f}))
    BY <1>20, <2>3, <2>4, <2>5, FactsAdd
  <2>7. FactsIn(files, kinds, parses, s.read, s.facts) BY <1>12, <1>16, <2>3, <2>6
  <2> QED BY <2>2, <2>7
<1>22. RunOk(s, pdfs'[d], kind', parsed'[d], day', security'.exchange)
  BY <1>2, <1>16, <1>18, <1>21 DEF RunOk, Working, Gathered
<1> QED BY <1>14, <1>15, <1>16, <1>22, RunsBy

\* A completed run is found as it was, in place of the one before it.
FindingOf(r) == [dir |-> r.dir, cutoff |-> r.cutoff, day |-> r.listed, periodic |-> r.periodic,
              docs |-> r.docs, facts |-> r.facts]

LEMMA CompleteIs ==
  ASSUME Typed, NEW w \in Workers, Complete(w)
  PROVE  /\ run[w].at = "complete"
         /\ done' = {x \in done : ~(x.dir = run[w].dir /\ x.cutoff = run[w].cutoff)}
                    \cup {FindingOf(run[w])}
         /\ \E s \in RunSet : Set(w, s) /\ s.at = "register"
         /\ UNCHANGED <<day, security, kind, pdfs, parsed>>
<1>1. Set(w, [run[w] EXCEPT !.at = "register", !.status = Idle.status, !.acceptance = "none"])
  BY DEF Complete
<1>2. PICK s : s = [run[w] EXCEPT !.at = "register", !.status = Idle.status, !.acceptance = "none"]
  OBVIOUS
<1>3. run[w] \in RunSet /\ "register" \in Ats /\ "none" \in AcceptanceRange
  BY DEF Typed, RunsTyped, Ats, AcceptanceRange
<1>4. s \in RunSet /\ s.at = "register" BY <1>2, <1>3, IdleTyped DEF RunSet
<1>5. \E t \in RunSet : Set(w, t) /\ t.at = "register" BY <1>1, <1>2, <1>4
<1> QED BY <1>5 DEF Complete, At, FindingOf

LEMMA CompleteInOrder ==
  ASSUME Typed, RunsInOrder, StepStays, NEW w \in Workers, Complete(w)
  PROVE  DoneInOrder' /\ \A v \in Workers : RunInOrder(v)'
<1>1. PICK r, d, x : r = run[w] /\ d = r.dir /\ x = FindingOf(r) OBVIOUS
<1>2. r \in RunSet /\ d \in Dirs /\ r.at = "complete"
  BY <1>1 DEF Typed, RunsTyped, RunSet, Complete, At
<1>3. done' = {y \in done : ~(y.dir = d /\ y.cutoff = r.cutoff)} \cup {x} BY <1>1, CompleteIs
<1>4. UNCHANGED <<day, security, kind, pdfs, parsed>> BY CompleteIs
<1>5. OkNow(r) BY <1>1, InOrderIsOk DEF RunsInOrder
<1>6. /\ r.cutoff \in Days /\ r.listed <= day
      /\ security.exchange = "BJ" => r.listed = 0
      /\ r.cutoff <= r.listed => r.docs = KnownDocs(r.periodic, r.cutoff)
      /\ FactsIn(pdfs[d], kind, parsed[d], r.docs, r.facts)
  BY <1>1, <1>2, <1>5 DEF OkNow, RunOk, Working, Gathered
<1>7. /\ x.dir = d /\ x.cutoff = r.cutoff /\ x.day = r.listed /\ x.periodic = r.periodic
      /\ x.docs = r.docs /\ x.facts = r.facts
  BY <1>1 DEF FindingOf
<1>8. DoneInOrder BY DEF RunsInOrder
<1>9. ASSUME NEW y \in done'
      PROVE  /\ y.cutoff \in Days /\ y.day <= day
             /\ Exchange = "BJ" => y.day = 0
             /\ y.cutoff <= y.day => y.docs = KnownDocs(y.periodic, y.cutoff)
             /\ FactsOf(y.dir, y.docs, y.facts)
             /\ \A z \in done' : y.dir = z.dir /\ y.cutoff = z.cutoff => y = z
  <2>1. CASE y = x
    <3>1. \A z \in done' : x.dir = z.dir /\ x.cutoff = z.cutoff => x = z BY <1>3, <1>7
    <3> QED BY <2>1, <3>1, <1>6, <1>7 DEF Exchange, FactsOf
  <2>2. CASE y # x
    <3>1. y \in done /\ ~(y.dir = d /\ y.cutoff = r.cutoff) BY <1>3, <2>2
    <3>2. \A z \in done' : z \in done \/ z = x BY <1>3
    <3>3. \A z \in done' : y.dir = z.dir /\ y.cutoff = z.cutoff => y = z
      BY <1>7, <1>8, <3>1, <3>2 DEF DoneInOrder
    <3> QED BY <1>8, <3>1, <3>3 DEF DoneInOrder
  <2> QED BY <2>1, <2>2
<1>10. DoneInOrder' BY <1>4, <1>9 DEF DoneInOrder, Exchange, FactsOf
<1>11. \A v \in Workers : RunInOrder(v)'
  <2>1. PICK s \in RunSet : Set(w, s) /\ s.at = "register" BY CompleteIs
  <2> QED BY <2>1, RunsElsewhere DEF Working
<1> QED BY <1>10, <1>11

\* A step of a validation or of a pack keeps the runs in order.
LEMMA ValidationInOrder ==
  ASSUME Typed, RunsInOrder, NEW w \in Workers, Validation(w)
  PROVE  RunsInOrder'
<1>1. StepStays BY ValidationStays
<1>2. ParsedOnce' BY <1>1 DEF StepStays
<1>3. CASE Complete(w) BY <1>1, <1>2, <1>3, CompleteInOrder DEF RunsInOrder
<1>4. ASSUME ~Complete(w) PROVE done' = done
  BY <1>4 DEF Validation, Begin, Raise, Discover, Download, Downloaded, Parse, Collect, Compare,
     Export, Register
<1>5. ASSUME ~Complete(w) PROVE DoneInOrder' BY <1>1, <1>4, <1>5, DoneStays
<1>6. ASSUME ~Complete(w) PROVE \A v \in Workers : RunInOrder(v)'
  <2>1. CASE Raise(w)
    <3>1. Set(w, Idle) BY <2>1 DEF Raise
    <3> QED BY <1>1, <3>1, IdleTyped, RunsElsewhere DEF Working
  <2>2. CASE Downloaded(w)
    <3>1. run[w].at = "download" /\ run[w].got = run[w].docs
          /\ Set(w, [run[w] EXCEPT !.at = "parse"])
      BY <2>2 DEF Downloaded, At
    <3> QED BY <1>1, <3>1, GoInOrder DEF Working, Gathered
  <2>3. CASE Collect(w)
    <3>1. run[w].at = "parse" /\ run[w].read = run[w].docs
          /\ Set(w, [run[w] EXCEPT !.at = "compare"])
      BY <2>3 DEF Collect, At
    <3>2. run[w].docs \subseteq run[w].got BY <3>1 DEF RunsInOrder, RunInOrder, Working
    <3> QED BY <1>1, <3>1, <3>2, GoInOrder DEF Working
  <2>4. CASE Export(w)
    <3>1. run[w].at = "export" /\ Set(w, [run[w] EXCEPT !.at = "complete"])
      BY <2>4 DEF Export, At
    <3>2. run[w].docs \subseteq run[w].got /\ run[w].docs = run[w].read
      BY <3>1 DEF RunsInOrder, RunInOrder, Working, Gathered
    <3> QED BY <1>1, <3>1, <3>2, GoInOrder DEF Working
  <2>5. CASE Register(w)
    <3>1. PICK s : s = [Idle EXCEPT !.at = "open", !.job = "research", !.dir = run[w].dir,
                                    !.cutoff = run[w].cutoff, !.serial = run[w].serial]
      OBVIOUS
    <3>2. Set(w, s) \/ Set(w, Idle) BY <2>5, <3>1 DEF Register
    <3>3. run[w] \in RunSet /\ "open" \in Ats /\ "research" \in Jobs
      BY DEF Typed, RunsTyped, Ats, Jobs
    <3>4. s \in RunSet /\ s.at = "open" BY <3>1, <3>3, IdleTyped DEF RunSet
    <3> QED BY <1>1, <3>2, <3>4, IdleTyped, RunsElsewhere DEF Working
  <2> QED BY <1>1, <1>6, <2>1, <2>2, <2>3, <2>4, <2>5, BeginInOrder, DiscoverInOrder,
             DownloadInOrder, ParseInOrder, CompareInOrder DEF Validation
<1> QED BY <1>2, <1>3, <1>5, <1>6 DEF RunsInOrder

LEMMA PackInRuns ==
  ASSUME Typed, RunsInOrder, NEW w \in Workers, Pack(w)
  PROVE  RunsInOrder'
<1>1. StepStays /\ done' = done BY PackStays
<1>2. DoneInOrder' /\ ParsedOnce' BY <1>1, DoneStays DEF StepStays
<1>3. ASSUME NEW l \in {"publish", "load", "stages", "validate"}, Set(w, [run[w] EXCEPT !.at = l])
      PROVE  \A v \in Workers : RunInOrder(v)'
  <2>1. PICK s : s = [run[w] EXCEPT !.at = l] OBVIOUS
  <2>2. run[w] \in RunSet /\ l \in Ats BY DEF Typed, RunsTyped, Ats
  <2>3. s \in RunSet /\ s.at = l BY <2>1, <2>2 DEF RunSet
  <2> QED BY <1>1, <1>3, <2>1, <2>3, RunsElsewhere DEF Working
<1>4. ASSUME Set(w, Idle) PROVE \A v \in Workers : RunInOrder(v)'
  BY <1>1, <1>4, IdleTyped, RunsElsewhere DEF Working
<1>5. CASE Command(w)
  <2>1. PICK cutoff \in Days :
          Set(w, [Idle EXCEPT !.at = "open", !.job = "pack", !.cutoff = cutoff,
                              !.serial = runs + 1])
    BY <1>5 DEF Command
  <2>2. PICK s : s = [Idle EXCEPT !.at = "open", !.job = "pack", !.cutoff = cutoff,
                                  !.serial = runs + 1]
    OBVIOUS
  <2>3. runs + 1 \in 0..MaxRuns /\ "open" \in Ats /\ "pack" \in Jobs /\ cutoff \in CutoffRange
    BY <1>5, DaysAre DEF Command, Typed, Ats, Jobs
  <2>4. s \in RunSet /\ s.at = "open" BY <2>2, <2>3, IdleTyped DEF RunSet
  <2> QED BY <1>1, <1>2, <2>1, <2>2, <2>4, RunsElsewhere DEF Working, RunsInOrder
<1>6. CASE \E s \in Stages : Stage(w, s) \/ SaveStage(w, s)
  <2>1. run' = run /\ run[w].at = "stages" BY <1>6 DEF Stage, SaveStage, At
  <2>2. run[w] \in RunSet /\ run \in [Workers -> RunSet] BY DEF Typed, RunsTyped
  <2>3. Set(w, run[w]) BY <2>1, <2>2 DEF Set
  <2> QED BY <1>1, <1>2, <2>1, <2>2, <2>3, RunsElsewhere DEF Working, RunsInOrder
<1>7. CASE CacheHit(w) \/ Open(w) \/ Load(w) \/ Package(w) \/ Validate(w)
  <2>1. \/ \E l \in {"publish", "load", "stages", "validate"} : Set(w, [run[w] EXCEPT !.at = l])
        \/ Set(w, Idle)
    BY <1>7 DEF CacheHit, Open, Load, Package, Validate, Then
  <2> QED BY <1>2, <1>3, <1>4, <2>1 DEF RunsInOrder
<1>8. CASE Publish(w) \/ Abandon(w) \/ Stop(w)
  <2>1. Set(w, Idle) BY <1>8 DEF Publish, Abandon, Stop, Kill
  <2> QED BY <1>2, <1>4, <2>1 DEF RunsInOrder
<1> QED BY <1>2, <1>5, <1>6, <1>7, <1>8 DEF Pack, RunsInOrder

LEMMA StepInOrder == ASSUME Typed, RunsInOrder, [Next]_vars PROVE RunsInOrder'
<1>1. CASE UNCHANGED vars
  BY <1>1 DEF vars, cvVars, fileVars, RunsInOrder, ParsedOnce, DoneInOrder, RunInOrder, Exchange,
              FactsOf, Fetched, Content
<1>2. CASE Tomorrow
  <2>1. UNCHANGED <<security, kind, fileVars, run, done>> /\ day' = day + 1 BY <1>2 DEF Tomorrow
  <2>2. day \in Nat /\ day' \in Days /\ day <= day'
    <3>1. day \in Nat /\ day < MaxDay BY <1>2, DaysAre DEF Typed, Tomorrow
    <3> QED BY <2>1, <3>1 DEF Days
  <2>3. ParsedOnce' BY <2>1 DEF RunsInOrder, ParsedOnce, fileVars
  <2>4. StepStays BY <2>1, <2>2, <2>3, FilesKept DEF StepStays, fileVars
  <2>5. DoneInOrder' BY <2>1, <2>4, DoneStays
  <2>6. ASSUME NEW v \in Workers PROVE RunInOrder(v)'
    <3>1. run[v] \in RunSet /\ run \in [Workers -> RunSet] BY DEF Typed, RunsTyped
    <3>2. Set(v, run[v]) BY <2>1, <3>1 DEF Set
    <3>3. OkNow(run[v]) BY InOrderIsOk DEF RunsInOrder
    <3>4. PICK r : r = run[v] OBVIOUS
    <3>5. r \in RunSet /\ r.got \subseteq Docs /\ r.read \subseteq Docs BY <3>1, <3>4 DEF RunSet
    <3>6. RunOk(r, pdfs'[r.dir], kind', parsed'[r.dir], day', security'.exchange)
      BY <2>4, <3>3, <3>4, <3>5, OkStays
    <3> QED BY <2>4, <3>2, <3>4, <3>5, <3>6, RunsBy
  <2> QED BY <2>3, <2>5, <2>6 DEF RunsInOrder
<1>3. CASE Rest BY <1>1, <1>3 DEF Rest
<1> QED BY <1>1, <1>2, <1>3, ValidationInOrder, PackInRuns DEF Next

LEMMA InitInOrder == Init => RunsInOrder /\ PassMeansCovered
<1> SUFFICES ASSUME Init PROVE RunsInOrder /\ PassMeansCovered OBVIOUS
<1>1. CVInit BY DEF Init
<1>2. \A w \in Workers : run[w].at = "idle" /\ run[w].acceptance = "none"
  BY <1>1, IdleTyped DEF CVInit
<1>3. ParsedOnce /\ DoneInOrder BY <1>1 DEF CVInit, ParsedOnce, DoneInOrder
<1>4. \A w \in Workers : RunInOrder(w) BY <1>2 DEF RunInOrder, Working, Gathered
<1> QED BY <1>2, <1>3, <1>4 DEF RunsInOrder, PassMeansCovered

-----------------------------------------------------------------------------
(* The theorems for any number of workers.                                 *)

\* The invariant holds at every moment.
LEMMA InvHolds == Spec => []IInv
<1>1. Init => IInv BY InitTyped, InitInOrder DEF IInv
<1>2. IInv /\ [Next]_vars => IInv' BY StepTyped, StepInOrder, PassStep DEF IInv
<1> QED BY <1>1, <1>2, PTL DEF Spec

\* Every variable keeps to its values, and a run downloads what it selected:
\* the checkpoints, PDFs and packs of any reports, rows and workers.
THEOREM TypeHolds == Spec => []TypeOK
<1>1. IInv => TypeOK
  <2> SUFFICES ASSUME Typed PROVE TypeOK BY DEF IInv
  <2>1. \A w \in Workers : run[w] \in RunSet /\ pack[w] \in PackSet
    BY DEF Typed, RunsTyped, PacksTyped
  <2>2. \A w \in Workers : /\ run[w].acceptance \in Acceptances \cup {"none"}
                           /\ run[w].docs \subseteq Docs /\ run[w].got \subseteq run[w].docs
                           /\ pack[w].saved \subseteq Stages
    BY <2>1 DEF RunSet, PackSet, AcceptanceRange, Typed, RunsTyped
  <2>3. \A d \in Dirs : \A r \in DOMAIN pdfs[d] : pdfs[d][r] \in Contents \cup {NoPdf}
    BY DEF Typed, FilesTyped, PdfRange
  <2>4. \A d \in Dirs : result[d] \in ResultSet /\ exported[d] \in ExportSet /\ note[d] \in NoteSet
    BY DEF Typed, FilesTyped, PacksTyped
  <2>5. \A d \in Dirs : /\ check[d] \in {"none", "RUNNING", "COMPLETED"}
                        /\ result[d].cutoff \in {0} \cup Days
                        /\ exported[d].run \in -1..MaxRuns
                        /\ note[d].status \in {"none", "RUNNING", "COMPLETED", "FAILED"}
                        /\ note[d].stages \subseteq Stages
    BY <2>4 DEF Typed, FilesTyped, ResultSet, ExportSet, NoteSet, NoteStatuses, CutoffRange
  <2> QED BY <2>2, <2>3, <2>5 DEF TypeOK, Typed, FilesTyped
<1> QED BY <1>1, InvHolds, PTL

\* A validation that ends in PASS has confirmed every row of the dates it was
\* asked for that an official report should confirm (PassMeansCovered), for any
\* reports, rows, readings and workers.
THEOREM PassHolds == Spec => []PassMeansCovered
<1>1. IInv => PassMeansCovered BY DEF IInv
<1> QED BY <1>1, InvHolds, PTL

-----------------------------------------------------------------------------

(* One worker at a time.                                                   *)

\* Where a step of a validation leaves its run: it has just listed the
\* reports, or it keeps the day it did.
Elsewhere == {"idle", "discover", "register", "open"}
Moved(w, s) ==
    /\ Set(w, s)
    /\ s.at \in Elsewhere \cup Working
    /\ s.at \in Working =>
          /\ done' = done
          /\ \/ s.listed = day
             \/ (run[w].at \in Working \/ Exchange = "BJ") /\ s.listed = run[w].listed

LEMMA ValidationMoves ==
  ASSUME Typed, RunsInOrder, NEW w \in Workers, Validation(w)
  PROVE  \E s \in RunSet : Moved(w, s)
<1>0. run[w] \in RunSet /\ Idle \in RunSet /\ Typed BY IdleTyped DEF Typed, RunsTyped
<1>1. ASSUME NEW s, Set(w, s), s \in RunSet, s.at \in Elsewhere PROVE Moved(w, s)
  BY <1>1 DEF Moved, Elsewhere, Working
<1>2. CASE Raise(w) BY <1>0, <1>1, <1>2, IdleTyped DEF Raise, Elsewhere
<1>3. CASE Register(w)
  <2>1. PICK s : s = [Idle EXCEPT !.at = "open", !.job = "research", !.dir = run[w].dir,
                                  !.cutoff = run[w].cutoff, !.serial = run[w].serial]
    OBVIOUS
  <2>2. Set(w, s) \/ Set(w, Idle) BY <1>3, <2>1 DEF Register
  <2>3. s \in RunSet /\ s.at = "open" BY <1>0, <2>1, IdleTyped DEF RunSet, Ats, Jobs
  <2> QED BY <1>0, <1>1, <2>2, <2>3, IdleTyped DEF Elsewhere
<1>4. CASE Complete(w)
  <2>1. PICK s \in RunSet : Set(w, s) /\ s.at = "register" BY <1>4, CompleteIs
  <2> QED BY <1>1, <2>1 DEF Elsewhere
<1>5. CASE Begin(w)
  <2>1. PICK job \in {"validate", "research"}, cutoff \in Days :
          Set(w, [Idle EXCEPT !.at = "discover", !.job = job, !.dir = HomeOf(job),
                              !.cutoff = cutoff, !.serial = runs + 1])
    BY <1>5 DEF Begin
  <2>2. PICK s : s = [Idle EXCEPT !.at = "discover", !.job = job, !.dir = HomeOf(job),
                                  !.cutoff = cutoff, !.serial = runs + 1]
    OBVIOUS
  <2>3. runs + 1 \in 0..MaxRuns /\ "discover" \in Ats /\ job \in Jobs /\ HomeOf(job) \in Dirs
        /\ cutoff \in CutoffRange
    BY <1>5, DaysAre DEF Begin, Typed, Ats, Jobs, HomeOf, Dirs
  <2>4. s \in RunSet /\ s.at = "discover" BY <2>2, <2>3, IdleTyped DEF RunSet
  <2> QED BY <1>1, <2>1, <2>2, <2>4 DEF Elsewhere
<1>6. ASSUME NEW s \in RunSet, Set(w, s), s.at \in Working, done' = done, run[w].at \in Working,
             s.listed = run[w].listed
      PROVE  Moved(w, s)
  BY <1>6 DEF Moved
<1>7. ASSUME NEW l \in {"parse", "compare", "complete"}, Set(w, [run[w] EXCEPT !.at = l]),
             run[w].at \in Working, done' = done
      PROVE  \E s \in RunSet : Moved(w, s)
  <2>1. PICK s : s = [run[w] EXCEPT !.at = l] OBVIOUS
  <2>2. l \in Ats /\ l \in Working BY DEF Ats, Working
  <2>3. s \in RunSet /\ s.at = l /\ s.listed = run[w].listed BY <1>0, <2>1, <2>2 DEF RunSet
  <2> QED BY <1>6, <1>7, <2>1, <2>2, <2>3
<1>8. CASE Downloaded(w) BY <1>7, <1>8 DEF Downloaded, At, Working
<1>9. CASE Collect(w) BY <1>7, <1>9 DEF Collect, At, Working
<1>10. CASE Export(w) BY <1>7, <1>10 DEF Export, At, Working
<1>11. CASE Download(w)
  <2>1. PICK doc \in run[w].docs : Set(w, [run[w] EXCEPT !.got = @ \cup {doc}])
    BY <1>11 DEF Download
  <2>2. PICK s : s = [run[w] EXCEPT !.got = @ \cup {doc}] OBVIOUS
  <2>3. run[w].at = "download" /\ done' = done BY <1>11 DEF Download, At
  <2>4. run[w].got \cup {doc} \in SUBSET Docs BY <1>0 DEF RunSet
  <2>5. s \in RunSet /\ s.at = "download" /\ s.listed = run[w].listed
    BY <1>0, <2>2, <2>3, <2>4 DEF RunSet
  <2> QED BY <1>6, <2>1, <2>2, <2>3, <2>5 DEF Working
<1>12. CASE Parse(w)
  <2>1. PICK doc \in run[w].docs : \E k \in Outcomes(Content(run[w].dir, doc)) :
          Set(w, [run[w] EXCEPT !.read = @ \cup {doc},
                                !.facts = @ \cup (IF k = "zero" THEN {} ELSE {NewFact(w, doc)})])
    BY <1>12, ParseIs
  <2>2. PICK k : Set(w, [run[w] EXCEPT !.read = @ \cup {doc},
                           !.facts = @ \cup (IF k = "zero" THEN {} ELSE {NewFact(w, doc)})])
    BY <2>1
  <2>3. PICK facts : facts = run[w].facts \cup (IF k = "zero" THEN {} ELSE {NewFact(w, doc)})
    OBVIOUS
  <2>4. PICK s : s = [run[w] EXCEPT !.read = @ \cup {doc}, !.facts = facts] OBVIOUS
  <2>5. doc \in Docs BY <1>0 DEF RunSet
  <2>6. NewFact(w, doc) \in FactSet BY <2>5, ParsedAsIs
  <2>7. facts \in SUBSET FactSet /\ run[w].read \cup {doc} \in SUBSET Docs
    BY <1>0, <2>3, <2>5, <2>6 DEF RunSet
  <2>8. run[w].at = "parse" /\ done' = done BY <1>12 DEF Parse, At
  <2>9. s \in RunSet /\ s.at = "parse" /\ s.listed = run[w].listed
    BY <1>0, <2>4, <2>7, <2>8 DEF RunSet
  <2>10. Set(w, s) BY <2>2, <2>3, <2>4
  <2> QED BY <1>6, <2>8, <2>9, <2>10 DEF Working
<1>13. CASE Compare(w)
  <2>1. PICK reading \in [Rows -> Readings] : \E unmatched \in BOOLEAN :
          Set(w, [run[w] EXCEPT !.at = "export", !.status = Compared(run[w], reading),
                    !.acceptance = Acceptance(run[w], Compared(run[w], reading), unmatched)])
    BY <1>13 DEF Compare
  <2>2. PICK unmatched \in BOOLEAN :
          Set(w, [run[w] EXCEPT !.at = "export", !.status = Compared(run[w], reading),
                    !.acceptance = Acceptance(run[w], Compared(run[w], reading), unmatched)])
    BY <2>1
  <2>3. PICK status, acceptance : /\ status = Compared(run[w], reading)
                                  /\ acceptance = Acceptance(run[w], status, unmatched)
    OBVIOUS
  <2>4. PICK s : s = [run[w] EXCEPT !.at = "export", !.status = status, !.acceptance = acceptance]
    OBVIOUS
  <2>5. status \in [Rows -> Statuses] /\ acceptance \in AcceptanceRange /\ "export" \in Ats
    BY <1>0, <2>3, ComparedTyped, AcceptanceIs DEF AcceptanceRange, Ats
  <2>6. s \in RunSet /\ s.at = "export" /\ s.listed = run[w].listed
    BY <1>0, <2>4, <2>5 DEF RunSet
  <2>7. Set(w, s) BY <2>2, <2>3, <2>4
  <2>8. run[w].at = "compare" /\ done' = done BY <1>13 DEF Compare, At
  <2> QED BY <1>6, <2>6, <2>7, <2>8 DEF Working
<1>14. CASE Discover(w) /\ run[w].cutoff \in Days
  <2>1. done' = done BY <1>14 DEF Discover
  <2>2. PICK n \in Periods :
          \/ /\ security.exchange = "BJ"
             /\ Set(w, [run[w] EXCEPT !.at = "compare", !.dates = Requested(run[w].cutoff, n),
                          !.periodic = Requested(run[w].cutoff, n), !.reachable = FALSE])
          \/ \E listed \in {security.inferred} \cup
                          (IF security.exchange = "SH" THEN {security.profile} \ {0} ELSE {}) :
               LET periodic == {d \in Requested(run[w].cutoff, n) : d >= listed}
               IN  Set(w, [run[w] EXCEPT !.at = "download", !.dates = Requested(run[w].cutoff, n),
                                         !.listed = day, !.periodic = periodic,
                                         !.docs = Selected(periodic, run[w].cutoff)])
    BY <1>14 DEF Discover
  <2>3. PICK dates : dates = Requested(run[w].cutoff, n) OBVIOUS
  <2>4. dates \in SUBSET RowDates BY <2>3 DEF Requested
  <2>5. CASE /\ security.exchange = "BJ"
             /\ Set(w, [run[w] EXCEPT !.at = "compare", !.dates = dates, !.periodic = dates,
                                      !.reachable = FALSE])
    <3>1. PICK s : s = [run[w] EXCEPT !.at = "compare", !.dates = dates, !.periodic = dates,
                                      !.reachable = FALSE]
      OBVIOUS
    <3>2. s \in RunSet /\ s.at = "compare" /\ s.listed = run[w].listed
      BY <1>0, <2>4, <3>1 DEF RunSet, Ats
    <3> QED BY <2>1, <2>5, <3>1, <3>2 DEF Moved, Working, Exchange
  <2>6. ASSUME NEW listed,
               Set(w, [run[w] EXCEPT !.at = "download", !.dates = dates, !.listed = day,
                          !.periodic = {d \in dates : d >= listed},
                          !.docs = Selected({d \in dates : d >= listed}, run[w].cutoff)])
        PROVE  \E s \in RunSet : Moved(w, s)
    <3>1. PICK periodic : periodic = {d \in dates : d >= listed} OBVIOUS
    <3>2. PICK docs : docs = Selected(periodic, run[w].cutoff) OBVIOUS
    <3>3. PICK s : s = [run[w] EXCEPT !.at = "download", !.dates = dates, !.listed = day,
                                      !.periodic = periodic, !.docs = docs]
      OBVIOUS
    <3>4. docs \in SUBSET Docs BY <1>0, <1>14, <3>2, SelectedIs
    <3>5. day \in CutoffRange /\ "download" \in Ats /\ periodic \in SUBSET RowDates
      BY <2>4, <3>1, DaysAre DEF Typed, Ats
    <3>6. s \in RunSet /\ s.at = "download" /\ s.listed = day
      BY <1>0, <2>4, <3>3, <3>4, <3>5 DEF RunSet
    <3>7. Set(w, s) BY <2>6, <3>1, <3>2, <3>3
    <3> QED BY <2>1, <3>6, <3>7 DEF Moved, Working
  <2> QED BY <2>2, <2>3, <2>5, <2>6
<1>15. Discover(w) => run[w].cutoff \in Days BY DEF Discover, At, RunsInOrder, RunInOrder
<1> QED BY <1>2, <1>3, <1>4, <1>5, <1>8, <1>9, <1>10, <1>11, <1>12, <1>13, <1>14, <1>15
   DEF Validation

\* Of one worker, a step leaves its run or its step's run.
LEMMA OneRun ==
  ASSUME OneAtATime, run \in [Workers -> RunSet], NEW w \in Workers, NEW s, Set(w, s)
  PROVE  \A v \in Workers : v = w /\ run'[v] = s
BY DEF OneAtATime, Set

LEMMA ListedStep ==
  ASSUME OneAtATime, Typed, RunsInOrder, ListedLater, [Next]_vars
  PROVE  ListedLater'
<1>0. run \in [Workers -> RunSet] /\ done \in SUBSET DoneSet BY DEF Typed, RunsTyped
<1>1. ASSUME UNCHANGED <<run, done>> PROVE ListedLater' BY <1>1 DEF ListedLater
<1>2. CASE UNCHANGED vars BY <1>1, <1>2 DEF vars, cvVars
<1>3. CASE Tomorrow BY <1>1, <1>3 DEF Tomorrow
<1>4. CASE Rest BY <1>1, <1>4 DEF Rest, vars, cvVars
<1>5. ASSUME NEW w \in Workers, NEW s, Set(w, s), s.at \notin Working PROVE ListedLater'
  BY <1>0, <1>5, OneRun DEF ListedLater
<1>6. ASSUME NEW w \in Workers, Validation(w) PROVE ListedLater'
  <2>1. PICK s \in RunSet : Moved(w, s) BY <1>6, ValidationMoves
  <2>2. CASE s.at \notin Working BY <1>5, <2>1, <2>2 DEF Moved
  <2>3. CASE s.at \in Working
    <3>1. done' = done /\ Set(w, s) BY <2>1, <2>3 DEF Moved
    <3>2. ASSUME NEW x \in done PROVE x.day <= s.listed
      <4>1. x.day <= day /\ (Exchange = "BJ" => x.day = 0) BY DEF RunsInOrder, DoneInOrder
      <4>2. s.listed \in Nat BY DaysAre DEF RunSet
      <4>3. run[w].at \in Working => x.day <= run[w].listed BY DEF ListedLater
      <4> QED BY <2>1, <2>3, <4>1, <4>2, <4>3 DEF Moved
    <3>3. \A v \in Workers : run'[v] = s BY <1>0, <3>1, OneRun
    <3> QED BY <3>1, <3>2, <3>3 DEF ListedLater
  <2> QED BY <2>2, <2>3
<1>7. ASSUME NEW w \in Workers, Pack(w) PROVE ListedLater'
  <2>1. CASE Command(w)
    <3>1. PICK cutoff : Set(w, [Idle EXCEPT !.at = "open", !.job = "pack", !.cutoff = cutoff,
                                            !.serial = runs + 1])
      BY <2>1 DEF Command
    <3>2. PICK s : s = [Idle EXCEPT !.at = "open", !.job = "pack", !.cutoff = cutoff,
                                    !.serial = runs + 1]
      OBVIOUS
    <3>3. s.at = "open" BY <3>2, IdleTyped DEF RunSet
    <3> QED BY <1>5, <3>1, <3>2, <3>3 DEF Working
  <2>2. CASE CacheHit(w) \/ Open(w) \/ Load(w) \/ Package(w) \/ Validate(w)
    <3>1. \/ \E l \in {"publish", "load", "stages", "validate"} : Set(w, [run[w] EXCEPT !.at = l])
          \/ Set(w, Idle)
      BY <2>2 DEF CacheHit, Open, Load, Package, Validate, Then
    <3>2. ASSUME NEW l \in {"publish", "load", "stages", "validate"},
                 Set(w, [run[w] EXCEPT !.at = l])
          PROVE  ListedLater'
      <4>1. PICK s : s = [run[w] EXCEPT !.at = l] OBVIOUS
      <4>2. s.at = l BY <1>0, <4>1 DEF RunSet
      <4> QED BY <1>5, <3>2, <4>1, <4>2 DEF Working
    <3> QED BY <1>5, <3>1, <3>2, IdleTyped DEF Working
  <2>3. CASE Publish(w) \/ Abandon(w) \/ Stop(w)
    <3>1. Set(w, Idle) BY <2>3 DEF Publish, Abandon, Stop, Kill
    <3> QED BY <1>5, <3>1, IdleTyped DEF Working
  <2>4. CASE \E s \in Stages : Stage(w, s) \/ SaveStage(w, s)
    <3>1. run' = run BY <2>4 DEF Stage, SaveStage
    <3>2. done' = done BY <1>7, PackStays
    <3> QED BY <1>1, <3>1, <3>2
  <2> QED BY <1>7, <2>1, <2>2, <2>3, <2>4 DEF Pack
<1> QED BY <1>2, <1>3, <1>4, <1>6, <1>7 DEF Next

\* Two choices of the same cutoff agree on the dates of both.
LEMMA KnownDocsAgree ==
  ASSUME NEW dates, NEW dates2, NEW cutoff \in Days,
         NEW doc \in KnownDocs(dates, cutoff), doc.date \in dates2
  PROVE  doc \in KnownDocs(dates2, cutoff)
<1>1. doc = Newest(Known(doc.date, cutoff)) /\ Known(doc.date, cutoff) # {}
  BY KnownDocsDates
<1> QED BY <1>1 DEF KnownDocs

\* Documents and facts of one worker's runs that follow one another.
LEMMA StableStep ==
  ASSUME OneAtATime, Typed, RunsInOrder, ListedLater, [Next]_vars,
         NEW x \in done, NEW y \in done', x.dir = y.dir, x.cutoff = y.cutoff, x.cutoff <= x.day
  PROVE  LET both == x.periodic \cap y.periodic
         IN  /\ {doc \in x.docs : doc.date \in both} = {doc \in y.docs : doc.date \in both}
             /\ {f \in x.facts : f.date \in both} = {f \in y.facts : f.date \in both}
<1> DEFINE both == x.periodic \cap y.periodic
           Same == /\ {doc \in x.docs : doc.date \in both} = {doc \in y.docs : doc.date \in both}
                   /\ {f \in x.facts : f.date \in both} = {f \in y.facts : f.date \in both}
<1>1. DoneInOrder /\ ParsedOnce /\ done \in SUBSET DoneSet BY DEF RunsInOrder, Typed, RunsTyped
<1>2. CASE y \in done
  <2>1. x = y BY <1>1, <1>2 DEF DoneInOrder
  <2> QED BY <2>1
<1>3. CASE y \notin done
  <2>1. PICK w \in Workers : Validation(w)
    <3>1. ~UNCHANGED vars BY <1>3 DEF vars, cvVars
    <3>2. ~Tomorrow /\ ~Rest BY <1>3 DEF Tomorrow, Rest, vars, cvVars
    <3>3. \A v \in Workers : ~Pack(v) BY <1>3, PackStays
    <3> QED BY <3>1, <3>2, <3>3 DEF Next
  <2>2. Complete(w)
    BY <1>3, <2>1 DEF Validation, Begin, Raise, Discover, Download, Downloaded, Parse, Collect,
       Compare, Export, Register
  <2>3. PICK r : r = run[w] OBVIOUS
  <2>4. r \in RunSet /\ r.at = "complete" BY <2>2, <2>3, CompleteIs DEF Typed, RunsTyped
  <2>5. y = FindingOf(r) BY <1>3, <2>2, <2>3, CompleteIs
  <2>6. /\ y.dir = r.dir /\ y.cutoff = r.cutoff /\ y.periodic = r.periodic /\ y.docs = r.docs
        /\ y.facts = r.facts /\ y.day = r.listed
    BY <2>5 DEF FindingOf
  <2>7. x.cutoff \in Days /\ x.cutoff \in Nat /\ x.day \in Nat /\ r.listed \in Nat
    BY <1>1, <2>4, DaysAre DEF DoneInOrder, DoneSet, RunSet
  <2>8. x.day <= r.listed BY <2>3, <2>4 DEF ListedLater, Working
  <2>9. r.cutoff <= r.listed BY <2>6, <2>7, <2>8
  <2>10. OkNow(r) BY <2>3, InOrderIsOk DEF RunsInOrder
  <2>11. /\ r.docs = KnownDocs(r.periodic, r.cutoff) /\ r.docs = r.read
         /\ FactsOf(r.dir, r.read, r.facts)
    BY <2>4, <2>9, <2>10 DEF OkNow, RunOk, Working, Gathered, FactsOf
  <2>12. x.docs = KnownDocs(x.periodic, x.cutoff) /\ FactsOf(x.dir, x.docs, x.facts)
    BY <1>1 DEF DoneInOrder
  <2>13. y.docs = KnownDocs(y.periodic, x.cutoff) /\ FactsOf(x.dir, y.docs, y.facts)
    BY <2>6, <2>11
  <2>14. \A doc \in x.docs : doc.date \in both => doc \in y.docs
    BY <2>7, <2>12, <2>13, KnownDocsAgree
  <2>15. \A doc \in y.docs : doc.date \in both => doc \in x.docs
    BY <2>7, <2>12, <2>13, KnownDocsAgree
  <2>16. x.facts \in SUBSET FactSet /\ y.facts \in SUBSET FactSet /\ x.dir \in Dirs
    BY <1>1, <2>4, <2>6 DEF DoneSet, RunSet
  <2>17. ASSUME NEW f \in x.facts, f.date \in both PROVE f \in y.facts
    <3>1. \A doc \in x.docs : doc.date = f.date => doc \in y.docs BY <2>14, <2>17
    <3> QED BY <1>1, <2>12, <2>13, <2>16, <3>1, FactsSame
  <2>18. ASSUME NEW f \in y.facts, f.date \in both PROVE f \in x.facts
    <3>1. \A doc \in y.docs : doc.date = f.date => doc \in x.docs BY <2>15, <2>18
    <3> QED BY <1>1, <2>12, <2>13, <2>16, <3>1, FactsSame
  <2> HIDE DEF both
  <2>19. Same BY <2>14, <2>15, <2>17, <2>18
  <2> QED BY <2>19 DEF both
<1> QED BY <1>2, <1>3

\* The places in which a pack has something to keep to.
PackAts == {"load", "stages", "validate"}

\* What a checkpoint and its results keep to, and a completed package.
NoteOk(n, c, k) ==
    /\ \A s \in n.stages : c[s] \in {NoInputs, n.inputs}
    /\ n.status = "COMPLETED" => \A s \in Stages : k[s] = n.inputs

LEMMA NotesAreOk ==
  CacheInOrder /\ PackOfInputs <=> \A d \in Dirs : NoteOk(note[d], cache[d], package[d])
BY DEF CacheInOrder, PackOfInputs, NoteOk

LEMMA NotesAreOkNext ==
  (\A d \in Dirs : NoteOk(note'[d], cache'[d], package'[d])) => CacheInOrder' /\ PackOfInputs'
BY DEF CacheInOrder, PackOfInputs, NoteOk

\* A run that has left its pack, or has none.
LEMMA PackElsewhere ==
  ASSUME OneAtATime, Typed, NEW w \in Workers, NEW s, Set(w, s), s.at \notin PackAts
  PROVE  \A v \in Workers : PackInOrder(v)'
<1>1. \A v \in Workers : run'[v] = s BY OneRun DEF Typed, RunsTyped
<1> QED BY <1>1 DEF PackInOrder, PackAts

\* A step of a worker in its directory leaves the other one alone.
LEMMA NotesBy ==
  ASSUME PacksInOrder, NEW d \in Dirs,
         \A e \in Dirs : e # d => note'[e] = note[e] /\ cache'[e] = cache[e] /\ package'[e] = package[e],
         NoteOk(note'[d], cache'[d], package'[d])
  PROVE  CacheInOrder' /\ PackOfInputs'
<1>1. \A e \in Dirs : NoteOk(note[e], cache[e], package[e]) BY NotesAreOk DEF PacksInOrder
<1>2. \A e \in Dirs : NoteOk(note'[e], cache'[e], package'[e]) BY <1>1
<1> QED BY <1>2, NotesAreOkNext

\* A pack starts from the checkpoint of its inputs, or from an empty one.
LEMMA OpenPacks ==
  ASSUME OneAtATime, Typed, PacksInOrder, NEW w \in Workers, Open(w)
  PROVE  PacksInOrder'
<1>1. PICK d, c, inputs : d = run[w].dir /\ c = run[w].cutoff /\ inputs = Inputs(c) OBVIOUS
<1>2. d \in Dirs /\ run[w] \in RunSet /\ run \in [Workers -> RunSet]
  BY <1>1, PackParts DEF Typed, RunsTyped
<1>3. PICK force \in BOOLEAN :
        LET opened == Opened(note[d], inputs, force)
        IN  /\ opened \in NoteSet
            /\ [NoPack EXCEPT !.note = opened] \in PackSet
            /\ PackWrites(w, [NoPack EXCEPT !.note = opened], opened)
  BY <1>1, OpenIs
<1>4. PICK opened : opened = Opened(note[d], inputs, force) OBVIOUS
<1>5. PICK p : p = [NoPack EXCEPT !.note = opened] OBVIOUS
<1>6. /\ opened \in NoteSet /\ p \in PackSet /\ note' = [note EXCEPT ![d] = opened]
      /\ pack' = [pack EXCEPT ![w] = p] /\ UNCHANGED <<cache, package, pointer>> /\ OnlyPack
      /\ Then(w, "load")
  BY <1>1, <1>3, <1>4, <1>5, OpenIs DEF PackWrites
<1>7. p.note = opened /\ p.saved = {} /\ p.tables = NoTables
  BY <1>5, PackEmpty DEF PackSet
<1>8. note'[d] = opened /\ pack'[w] = p /\ \A e \in Dirs : e # d => note'[e] = note[e]
  BY <1>2, <1>6, PackParts
<1>9. opened.inputs = inputs /\ (opened = note[d] \/ (opened.status = "RUNNING" /\ opened.stages = {}))
  BY <1>4 DEF Opened
<1>10. NoteOk(note[d], cache[d], package[d]) BY <1>2, NotesAreOk DEF PacksInOrder
<1>11. NoteOk(note'[d], cache'[d], package'[d]) BY <1>6, <1>8, <1>9, <1>10 DEF NoteOk
<1>12. CacheInOrder' /\ PackOfInputs' BY <1>2, <1>6, <1>8, <1>11, NotesBy
<1>13. PICK s : s = [run[w] EXCEPT !.at = "load"] OBVIOUS
<1>14. s.at = "load" /\ s.dir = d /\ s.cutoff = c BY <1>1, <1>2, <1>13 DEF RunSet
<1>15. \A v \in Workers : v = w /\ run'[v] = s BY <1>2, <1>6, <1>13, OneRun DEF Then
<1>17. PackInOrder(w)'
  <2>1. run'[w] = s BY <1>15
  <2>2. Inputs(run[w].cutoff)' = inputs
    <3>1. run'[w].cutoff = c BY <1>14, <2>1
    <3> QED BY <1>1, <1>6, <3>1 DEF OnlyPack, fileVars, Inputs, Official
  <2> QED BY <2>1, <2>2, <1>7, <1>8, <1>9, <1>14 DEF PackInOrder
<1> QED BY <1>12, <1>15, <1>17 DEF PacksInOrder

\* It loads the inputs of the checkpoint.
LEMMA LoadPacks ==
  ASSUME OneAtATime, Typed, PacksInOrder, NEW w \in Workers, Load(w)
  PROVE  PacksInOrder'
<1>1. PICK d, inputs : d = run[w].dir /\ inputs = Inputs(run[w].cutoff) OBVIOUS
<1>2. d \in Dirs /\ run[w] \in RunSet /\ run \in [Workers -> RunSet]
  BY <1>1, PackParts DEF Typed, RunsTyped
<1>3. PICK saved : saved = [pack[w].note EXCEPT !.status = "RUNNING"] OBVIOUS
<1>4. PICK p : p = [pack[w] EXCEPT !.note = saved, !.loaded = inputs] OBVIOUS
<1>5. /\ run[w].at = "load" /\ saved \in NoteSet /\ saved.status = "RUNNING"
      /\ saved.inputs = pack[w].note.inputs /\ saved.stages = pack[w].note.stages
      /\ p.note = saved /\ p.loaded = inputs /\ p.tables = pack[w].tables
      /\ p.saved = pack[w].saved
      /\ note' = [note EXCEPT ![d] = saved] /\ pack' = [pack EXCEPT ![w] = p]
      /\ UNCHANGED <<cache, package, pointer>> /\ Then(w, "stages")
  BY <1>1, <1>3, <1>4, LoadIs DEF PackWrites
<1>6. /\ note[d] = pack[w].note /\ pack[w].note.inputs = inputs
      /\ pack[w].saved = {} /\ pack[w].tables = NoTables
  BY <1>1, <1>5 DEF PacksInOrder, PackInOrder
<1>7. note'[d] = saved /\ pack'[w] = p /\ \A e \in Dirs : e # d => note'[e] = note[e]
  BY <1>2, <1>5, PackParts
<1>8. NoteOk(note[d], cache[d], package[d]) BY <1>2, NotesAreOk DEF PacksInOrder
<1>9. NoteOk(note'[d], cache'[d], package'[d]) BY <1>5, <1>6, <1>7, <1>8 DEF NoteOk
<1>10. CacheInOrder' /\ PackOfInputs' BY <1>2, <1>5, <1>7, <1>9, NotesBy
<1>11. PICK s : s = [run[w] EXCEPT !.at = "stages"] OBVIOUS
<1>12. s.at = "stages" /\ s.dir = d BY <1>1, <1>2, <1>11 DEF RunSet
<1>13. \A v \in Workers : v = w /\ run'[v] = s BY <1>2, <1>5, <1>11, OneRun DEF Then
<1>14. PackInOrder(w)'
  <2>1. run'[w] = s BY <1>13
  <2>2. \A t \in Stages : p.tables[t] = NoInputs BY <1>5, <1>6, PackEmpty
  <2> QED BY <2>1, <2>2, <1>5, <1>6, <1>7, <1>12 DEF PackInOrder
<1> QED BY <1>10, <1>13, <1>14 DEF PacksInOrder

\* A result is made of the inputs, whether it is kept, mapped or made of the map.
LEMMA StagePacks ==
  ASSUME OneAtATime, Typed, PacksInOrder, NEW w \in Workers, NEW s \in Stages, Stage(w, s)
  PROVE  PacksInOrder'
<1>1. PICK d, inputs : d = run[w].dir /\ inputs = pack[w].note.inputs OBVIOUS
<1>2. d \in Dirs /\ pack[w].note \in NoteSet BY <1>1, PackParts
<1>3. PICK table : table = TableOf(w, s) OBVIOUS
<1>4. PICK p : p = [pack[w] EXCEPT !.tables = [@ EXCEPT ![s] = TableOf(w, s)]] OBVIOUS
<1>5. /\ table \in InputSet /\ cache' = [cache EXCEPT ![d][s] = table]
      /\ p.note = pack[w].note /\ p.loaded = pack[w].loaded /\ p.saved = pack[w].saved
      /\ p.tables[s] = table
      /\ \A t \in Stages : t # s => p.tables[t] = pack[w].tables[t]
      /\ pack' = [pack EXCEPT ![w] = p]
  BY <1>1, <1>3, <1>4, StageIs, StageStored
<1>6. /\ run[w].at = "stages" /\ Before(s) \subseteq pack[w].saved /\ s \notin pack[w].saved
      /\ UNCHANGED <<run, note, package, pointer>>
  BY DEF Stage, At
<1>7. /\ cache'[d][s] = table /\ \A t \in Stages : t # s => cache'[d][t] = cache[d][t]
      /\ \A e \in Dirs : e # d => cache'[e] = cache[e]
  BY <1>2, <1>5, PackParts, TableStored
<1>8. /\ note[d] = pack[w].note /\ note[d].status = "RUNNING" /\ pack[w].loaded = inputs
      /\ \A t \in Stages : /\ pack[w].tables[t] # NoInputs =>
                                 pack[w].tables[t] = inputs /\ cache[d][t] = inputs
                           /\ t \in pack[w].saved => pack[w].tables[t] = inputs
  BY <1>1, <1>6 DEF PacksInOrder, PackInOrder
<1>9. NoteOk(note[d], cache[d], package[d]) BY <1>2, NotesAreOk DEF PacksInOrder
<1>10. table = inputs
  <2>1. CASE s \in pack[w].note.stages /\ cache[d][s] # NoInputs
    BY <1>1, <1>3, <1>8, <1>9, <2>1 DEF TableOf, NoteOk
  <2>2. CASE s = "MAP_CANONICAL" /\ ~(s \in pack[w].note.stages /\ cache[d][s] # NoInputs)
    BY <1>1, <1>3, <1>8, <2>2 DEF TableOf
  <2>3. CASE s # "MAP_CANONICAL" /\ ~(s \in pack[w].note.stages /\ cache[d][s] # NoInputs)
    <3>1. s \in {"EXTRACT_SECTIONS", "BUILD_EVIDENCE"} /\ "MAP_CANONICAL" \in Stages
      BY <2>3 DEF Stages
    <3>2. "MAP_CANONICAL" \in pack[w].saved BY <1>6, <3>1 DEF Before
    <3> QED BY <1>1, <1>3, <1>8, <2>3, <3>1, <3>2 DEF TableOf
  <2> QED BY <2>1, <2>2, <2>3
<1>11. NoteOk(note'[d], cache'[d], package'[d])
  BY <1>1, <1>2, <1>6, <1>7, <1>8, <1>9, <1>10 DEF NoteOk, NoteSet
<1>12. CacheInOrder' /\ PackOfInputs' BY <1>2, <1>6, <1>7, <1>11, NotesBy
<1>13. pack'[w] = p BY <1>5, PackParts
<1>14. PackInOrder(w)'
  <2>1. run'[w] = run[w] /\ note' = note BY <1>6
  <2>2. \A t \in Stages : /\ p.tables[t] # NoInputs => p.tables[t] = inputs
                                                       /\ cache'[d][t] = inputs
                          /\ t \in p.saved => p.tables[t] = inputs
    BY <1>5, <1>7, <1>8, <1>10
  <2> QED BY <2>1, <2>2, <1>1, <1>5, <1>6, <1>8, <1>13 DEF PackInOrder
<1>15. \A v \in Workers : v = w BY DEF OneAtATime
<1> QED BY <1>12, <1>14, <1>15 DEF PacksInOrder

\* A name enters the checkpoint after the result it stands for.
LEMMA SavePacks ==
  ASSUME OneAtATime, Typed, PacksInOrder, NEW w \in Workers, NEW s \in Stages, SaveStage(w, s)
  PROVE  PacksInOrder'
<1>1. PICK d, inputs : d = run[w].dir /\ inputs = pack[w].note.inputs OBVIOUS
<1>2. d \in Dirs BY <1>1, PackParts
<1>3. PICK saved \in NoteSet, p \in PackSet :
        /\ run[w].at = "stages" /\ pack[w].tables[s] # NoInputs
        /\ saved.inputs = pack[w].note.inputs /\ saved.status = "RUNNING"
        /\ saved.stages = pack[w].note.stages \cup {s}
        /\ p.note = saved /\ p.loaded = pack[w].loaded
        /\ p.tables = pack[w].tables /\ p.saved = pack[w].saved \cup {s}
        /\ PackWrites(w, p, saved)
        /\ UNCHANGED <<run, cache, package, pointer>>
  BY SaveIs
<1>5. /\ run[w].at = "stages" /\ pack[w].tables[s] # NoInputs
      /\ saved.inputs = inputs /\ saved.status = "RUNNING"
      /\ saved.stages = pack[w].note.stages \cup {s}
      /\ p.note = saved /\ p.loaded = pack[w].loaded
      /\ p.tables = pack[w].tables /\ p.saved = pack[w].saved \cup {s}
      /\ note' = [note EXCEPT ![d] = saved] /\ pack' = [pack EXCEPT ![w] = p]
      /\ UNCHANGED <<run, cache, package, pointer>>
  BY <1>1, <1>3 DEF PackWrites
<1>6. /\ note[d] = pack[w].note /\ pack[w].loaded = inputs
      /\ \A t \in Stages : /\ pack[w].tables[t] # NoInputs =>
                                 pack[w].tables[t] = inputs /\ cache[d][t] = inputs
                           /\ t \in pack[w].saved => pack[w].tables[t] = inputs
  BY <1>1, <1>5 DEF PacksInOrder, PackInOrder
<1>7. note'[d] = saved /\ pack'[w] = p /\ \A e \in Dirs : e # d => note'[e] = note[e]
  BY <1>2, <1>5, PackParts
<1>8. NoteOk(note[d], cache[d], package[d]) BY <1>2, NotesAreOk DEF PacksInOrder
<1>9. NoteOk(note'[d], cache'[d], package'[d]) BY <1>1, <1>5, <1>6, <1>7, <1>8 DEF NoteOk
<1>10. CacheInOrder' /\ PackOfInputs' BY <1>2, <1>5, <1>7, <1>9, NotesBy
<1>11. PackInOrder(w)'
  <2>1. run'[w] = run[w] /\ cache' = cache BY <1>5
  <2> QED BY <2>1, <1>1, <1>5, <1>6, <1>7 DEF PackInOrder
<1>12. \A v \in Workers : v = w BY DEF OneAtATime
<1> QED BY <1>10, <1>11, <1>12 DEF PacksInOrder

\* The package is written of the results of every stage.
LEMMA PackagePacks ==
  ASSUME OneAtATime, Typed, PacksInOrder, NEW w \in Workers, Package(w)
  PROVE  PacksInOrder'
<1>1. PICK d, inputs : d = run[w].dir /\ inputs = pack[w].note.inputs OBVIOUS
<1>2. d \in Dirs /\ run[w] \in RunSet /\ run \in [Workers -> RunSet]
  BY <1>1, PackParts DEF Typed, RunsTyped
<1>3. PICK s : s = [run[w] EXCEPT !.at = "validate"] OBVIOUS
<1>4. /\ run[w].at = "stages" /\ pack[w].saved = Stages
      /\ package' = [package EXCEPT ![d] = pack[w].tables] /\ Set(w, s)
      /\ UNCHANGED <<note, cache, pointer, pack>>
  BY <1>1, <1>3 DEF Package, At, DirOf, Then
<1>5. /\ note[d] = pack[w].note /\ note[d].status = "RUNNING"
      /\ \A t \in Stages : pack[w].tables[t] = inputs
  BY <1>1, <1>4 DEF PacksInOrder, PackInOrder
<1>6. package'[d] = pack[w].tables /\ \A e \in Dirs : e # d => package'[e] = package[e]
  BY <1>2, <1>4, PackParts
<1>7. NoteOk(note[d], cache[d], package[d]) BY <1>2, NotesAreOk DEF PacksInOrder
<1>8. NoteOk(note'[d], cache'[d], package'[d]) BY <1>4, <1>5, <1>7 DEF NoteOk
<1>9. CacheInOrder' /\ PackOfInputs' BY <1>2, <1>4, <1>6, <1>8, NotesBy
<1>10. s.at = "validate" /\ s.dir = d BY <1>1, <1>2, <1>3 DEF RunSet
<1>11. \A v \in Workers : v = w /\ run'[v] = s BY <1>2, <1>4, OneRun
<1>12. PackInOrder(w)'
  <2>1. run'[w] = s /\ note' = note /\ pack' = pack BY <1>4, <1>11
  <2> QED BY <2>1, <1>1, <1>5, <1>6, <1>10 DEF PackInOrder
<1> QED BY <1>9, <1>11, <1>12 DEF PacksInOrder

\* A package that passes holds the inputs its checkpoint names.
LEMMA ValidatePacks ==
  ASSUME OneAtATime, Typed, PacksInOrder, NEW w \in Workers, Validate(w)
  PROVE  PacksInOrder'
<1>1. PICK d, inputs : d = run[w].dir /\ inputs = pack[w].note.inputs OBVIOUS
<1>2. d \in Dirs /\ run[w] \in RunSet BY <1>1, PackParts
<1>3. PICK quality \in {"COMPLETED", "FAILED"} :
        LET judged == [pack[w].note EXCEPT !.status = quality]
        IN  /\ judged \in NoteSet /\ judged.inputs = pack[w].note.inputs
            /\ judged.stages = pack[w].note.stages
            /\ PackWrites(w, NoPack, judged)
  BY ValidateIs
<1>4. PICK judged : judged = [pack[w].note EXCEPT !.status = quality] OBVIOUS
<1>5. /\ judged.inputs = inputs /\ judged.stages = pack[w].note.stages
      /\ note' = [note EXCEPT ![d] = judged] /\ run[w].at = "validate"
      /\ Then(w, "publish") \/ Set(w, Idle)
      /\ UNCHANGED <<cache, package, pointer>>
  BY <1>1, <1>3, <1>4, ValidateIs DEF PackWrites
<1>6. note[d] = pack[w].note /\ \A t \in Stages : package[d][t] = inputs
  BY <1>1, <1>5 DEF PacksInOrder, PackInOrder
<1>7. note'[d] = judged /\ \A e \in Dirs : e # d => note'[e] = note[e]
  BY <1>2, <1>5, PackParts
<1>8. NoteOk(note[d], cache[d], package[d]) BY <1>2, NotesAreOk DEF PacksInOrder
<1>9. NoteOk(note'[d], cache'[d], package'[d]) BY <1>1, <1>5, <1>6, <1>7, <1>8 DEF NoteOk
<1>10. CacheInOrder' /\ PackOfInputs' BY <1>2, <1>5, <1>7, <1>9, NotesBy
<1>11. PICK s : s = [run[w] EXCEPT !.at = "publish"] OBVIOUS
<1>12. s.at = "publish" BY <1>2, <1>11 DEF RunSet
<1>13. Set(w, s) \/ Set(w, Idle) BY <1>5, <1>11 DEF Then
<1>14. \A v \in Workers : PackInOrder(v)'
  BY <1>12, <1>13, IdleTyped, PackElsewhere DEF PackAts
<1> QED BY <1>10, <1>14 DEF PacksInOrder

\* A run that ends leaves the checkpoint as it is; one that is killed while the
\* package is written leaves a checkpoint that does not say COMPLETED.
LEMMA EndPacks ==
  ASSUME OneAtATime, Typed, PacksInOrder, NEW w \in Workers, Publish(w) \/ Abandon(w) \/ Stop(w)
  PROVE  PacksInOrder'
<1>1. Set(w, Idle) /\ UNCHANGED <<note, cache>>
  BY DEF Publish, Abandon, Stop, Kill
<1>2. \A v \in Workers : PackInOrder(v)' BY <1>1, IdleTyped, PackElsewhere DEF PackAts
<1>3. PICK d : d = run[w].dir OBVIOUS
<1>4. d \in Dirs BY <1>3, PackParts
<1>5. \/ package' = package
      \/ /\ note[d].status = "RUNNING"
         /\ \A e \in Dirs : e # d => package'[e] = package[e]
  <2>1. CASE Publish(w) \/ Abandon(w) BY <2>1 DEF Publish, Abandon
  <2>2. CASE Stop(w) /\ ~(At(w, "stages") /\ pack[w].saved = Stages) BY <2>2 DEF Stop
  <2>3. CASE Stop(w) /\ At(w, "stages")
    <3>1. note[d].status = "RUNNING" BY <1>3, <2>3 DEF At, PacksInOrder, PackInOrder
    <3>2. package' = package \/ \E new : package' = [package EXCEPT ![d] = new]
      <4>1. package' = package \/ \E new \in SUBSET Stages :
              package' = [package EXCEPT ![d] = [s \in Stages |->
                            IF s \in new THEN pack[w].tables[s] ELSE @[s]]]
        BY <1>3, <2>3 DEF Stop, DirOf
      <4> QED BY <4>1
    <3>3. \A new : \A e \in Dirs : e # d => [package EXCEPT ![d] = new][e] = package[e]
      BY PackParts
    <3> QED BY <3>1, <3>2, <3>3
  <2> QED BY <2>1, <2>2, <2>3
<1>6. \A e \in Dirs : NoteOk(note[e], cache[e], package[e]) BY NotesAreOk DEF PacksInOrder
<1>7. \A e \in Dirs : NoteOk(note'[e], cache'[e], package'[e])
  BY <1>1, <1>4, <1>5, <1>6 DEF NoteOk
<1> QED BY <1>2, <1>7, NotesAreOkNext DEF PacksInOrder

\* The steps of a pack.
LEMMA PackPacks ==
  ASSUME OneAtATime, Typed, PacksInOrder, NEW w \in Workers, Pack(w)
  PROVE  PacksInOrder'
<1>1. run[w] \in RunSet BY PackParts
<1>2. ASSUME NEW s, Set(w, s), s.at \notin PackAts, UNCHANGED packVars PROVE PacksInOrder'
  <2>1. CacheInOrder' /\ PackOfInputs'
    BY <1>2 DEF PacksInOrder, CacheInOrder, PackOfInputs, packVars
  <2> QED BY <1>2, <2>1, PackElsewhere DEF PacksInOrder
<1>3. CASE Command(w)
  <2>1. PICK cutoff : Set(w, [Idle EXCEPT !.at = "open", !.job = "pack", !.cutoff = cutoff,
                                          !.serial = runs + 1])
    BY <1>3 DEF Command
  <2>2. PICK s : s = [Idle EXCEPT !.at = "open", !.job = "pack", !.cutoff = cutoff,
                                  !.serial = runs + 1]
    OBVIOUS
  <2>3. s.at = "open" BY <2>2, IdleTyped DEF RunSet
  <2> QED BY <1>2, <1>3, <2>1, <2>2, <2>3 DEF Command, PackAts
<1>4. CASE CacheHit(w)
  <2>1. PICK s : s = [run[w] EXCEPT !.at = "publish"] OBVIOUS
  <2>2. s.at = "publish" BY <1>1, <2>1 DEF RunSet
  <2>3. Set(w, s) /\ UNCHANGED packVars BY <1>4, <2>1 DEF CacheHit, Then
  <2> QED BY <1>2, <2>2, <2>3 DEF PackAts
<1> QED BY <1>3, <1>4, OpenPacks, LoadPacks, StagePacks, SavePacks, PackagePacks, ValidatePacks,
           EndPacks DEF Pack

\* Nothing else changes what a pack keeps to: a validation is the worker's only
\* run, and a day changes no file.
LEMMA PacksStep ==
  ASSUME OneAtATime, Typed, RunsInOrder, PacksInOrder, [Next]_vars
  PROVE  PacksInOrder'
<1>1. ASSUME UNCHANGED <<fileVars, run, packVars>> PROVE PacksInOrder'
  <2>1. \A c : Inputs(c)' = Inputs(c) BY <1>1 DEF fileVars, Inputs, Official
  <2>2. \A w \in Workers : PackInOrder(w)'
    <3> SUFFICES ASSUME NEW w \in Workers PROVE PackInOrder(w)' OBVIOUS
    <3>1. PackInOrder(w) BY DEF PacksInOrder
    <3>2. Inputs(run[w].cutoff)' = Inputs(run[w].cutoff)
      BY <1>1 DEF fileVars, Inputs, Official
    <3> QED BY <1>1, <3>1, <3>2 DEF PackInOrder, packVars
  <2>3. CacheInOrder' /\ PackOfInputs'
    BY <1>1 DEF PacksInOrder, CacheInOrder, PackOfInputs, packVars
  <2> QED BY <2>2, <2>3 DEF PacksInOrder
<1>2. CASE UNCHANGED vars BY <1>1, <1>2 DEF vars, cvVars
<1>3. CASE Tomorrow /\ UNCHANGED packVars BY <1>1, <1>3 DEF Tomorrow
<1>4. CASE Rest BY <1>1, <1>4 DEF Rest, vars, cvVars
<1>5. ASSUME NEW w \in Workers, Validation(w), UNCHANGED packVars PROVE PacksInOrder'
  <2>1. PICK s \in RunSet : Moved(w, s) BY <1>5, ValidationMoves
  <2>2. Set(w, s) /\ s.at \notin PackAts BY <2>1 DEF Moved, Elsewhere, Working, PackAts
  <2>3. CacheInOrder' /\ PackOfInputs'
    BY <1>5 DEF PacksInOrder, CacheInOrder, PackOfInputs, packVars
  <2> QED BY <2>2, <2>3, PackElsewhere DEF PacksInOrder
<1> QED BY <1>2, <1>3, <1>4, <1>5, PackPacks DEF Next

\* At the start no run and no checkpoint is there.
LEMMA InitPacks == Init => ListedLater /\ PacksInOrder
<1> SUFFICES ASSUME Init PROVE ListedLater /\ PacksInOrder OBVIOUS
<1>1. \A w \in Workers : run[w].at = "idle" BY IdleTyped DEF Init, CVInit
<1>2. \A d \in Dirs : note[d] = NoNote BY DEF Init
<1>3. NoNote.stages = {} /\ NoNote.status = "none" BY DEF NoNote
<1>4. CacheInOrder /\ PackOfInputs BY <1>2, <1>3 DEF CacheInOrder, PackOfInputs
<1> QED BY <1>1, <1>4 DEF ListedLater, PacksInOrder, PackInOrder, Working

\* The invariant of one worker holds at every moment.
LEMMA SerialHolds == ASSUME OneAtATime PROVE Spec => []SerialIInv
<1>1. Init => SerialIInv BY InitTyped, InitInOrder, InitPacks DEF SerialIInv, IInv
<1>2. SerialIInv /\ [Next]_vars => SerialIInv'
  BY StepTyped, StepInOrder, PassStep, ListedStep, PacksStep DEF SerialIInv, IInv
<1> QED BY <1>1, <1>2, PTL DEF Spec

\* A completed pack is made of the inputs its checkpoint names, every part of it
\* (PackOfInputs), whatever it resumed and wherever an earlier one was killed, for
\* any reports, facts and cutoffs, while one worker runs at a time.
THEOREM PackHolds == ASSUME OneAtATime PROVE Spec => []PackOfInputs
<1>1. SerialIInv => PackOfInputs BY DEF SerialIInv, PacksInOrder
<1> QED BY <1>1, SerialHolds, PTL

\* What a validation found for a cutoff that had passed, one of the same cutoff
\* finds again (StableRepeat), for any reports and facts, while one worker runs at
\* a time.
THEOREM StableHolds == ASSUME OneAtATime PROVE Spec => StableRepeat
<1> DEFINE Agree(x, y) ==
             LET both == x.periodic \cap y.periodic
             IN  /\ {doc \in x.docs : doc.date \in both} = {doc \in y.docs : doc.date \in both}
                 /\ {f \in x.facts : f.date \in both} = {f \in y.facts : f.date \in both}
           Repeated ==
             \A x \in done, y \in done' :
               x.dir = y.dir /\ x.cutoff = y.cutoff /\ x.cutoff <= x.day => Agree(x, y)
<1>1. SerialIInv /\ [Next]_vars => Repeated
  <2> SUFFICES ASSUME SerialIInv, [Next]_vars,
                      NEW x \in done, NEW y \in done', x.dir = y.dir, x.cutoff = y.cutoff,
                      x.cutoff <= x.day
               PROVE  Agree(x, y)
    OBVIOUS
  <2> QED BY StableStep DEF SerialIInv, IInv
<1>2. StableRepeat <=> [][Repeated]_cvVars BY DEF StableRepeat
<1> HIDE DEF Repeated
<1> QED BY <1>1, <1>2, SerialHolds, PTL DEF Spec

=============================================================================
