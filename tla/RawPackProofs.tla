--------------------------- MODULE RawPackProofs ---------------------------
(***************************************************************************)
(* What holds of RawPack for every manifest, set of jobs and bound: the    *)
(* types, and that packs stay in order (PacksInOrder).                     *)
(*                                                                         *)
(* The argument: while no two runs begin in one second, a run belongs to   *)
(* one job, and only that job writes in its directory.  A document that    *)
(* the job keeps as saved has its file, because a file lies under the id   *)
(* of its source, the sources have distinct ids and take their turns.      *)
(* Index, check and pointer follow in this order, so what the pointer      *)
(* names is not written any more.                                          *)
(***************************************************************************)
EXTENDS RawPack, SequenceTheorems, TLAPS

Times == 0..MaxSeconds
Page == DOMAIN Answers \cup {Absent}
Source == [id : STRING, collector : STRING, pages : Seq(DOMAIN Answers),
           reports : Seq(DOMAIN Answers), enabled : BOOLEAN]

\* The documents.
Word == STRING \cup {"NO_MATCH", "NO_WEBSITE"}
Id == (STRING \X Word) \cup (STRING \X Page \X Word)
Worth == {"NO_MATCH", "PERMISSION_BLOCKED", "UNRESOLVED", "FACT_DIRECT", "PRIMARY_NONSTATUTORY",
          "COMPANY_CLAIM", "INDEX_ONLY"}
Match == {"EXACT_ID_MATCH", "EXACT_NAME_MATCH", "BRAND_DOMAIN_MATCH", "AMBIGUOUS_NAME_MATCH",
          "NO_MATCH", "UNRESOLVED"}
Doc == [id : Id, page : Page, status : Worth, match : Match, saved : STRING \cup {Absent}]

\* A document of the source that says of a page what the page has answered.
Tells(d, source, answer) ==
    /\ d \in Doc
    /\ d.id[1] = source.id
    /\ d.saved # Absent => d.page \in Asked(source) /\ d.saved = answer[d.page].text

-----------------------------------------------------------------------------
\* The documents of a source.

LEMMA IdPair == \A a \in STRING, b \in Word : <<a, b>> \in Id
<1> SUFFICES ASSUME NEW a \in STRING, NEW b \in Word
             PROVE  <<a, b>> \in STRING \X Word
  BY DEF Id
<1> QED OBVIOUS

LEMMA IdTriple == \A a \in STRING, p \in Page, b \in Word : <<a, p, b>> \in Id
<1> SUFFICES ASSUME NEW a \in STRING, NEW p \in Page, NEW b \in Word
             PROVE  <<a, p, b>> \in STRING \X Page \X Word
  BY DEF Id
<1> QED OBVIOUS

LEMMA MatchIsMatch == \A candidate : match_entity(candidate) \in Match
<1> TAKE candidate
<1>1. CASE candidate.code
  BY <1>1 DEF match_entity, Match
<1>2. CASE ~candidate.code /\ candidate.name
  BY <1>2 DEF match_entity, Match
<1>3. CASE ~candidate.code /\ ~candidate.name /\ candidate.site
  BY <1>3 DEF match_entity, Match
<1>4. CASE ~candidate.code /\ ~candidate.name /\ ~candidate.site /\ candidate.text
  BY <1>4 DEF match_entity, Match
<1>5. CASE ~candidate.code /\ ~candidate.name /\ ~candidate.site /\ ~candidate.text
  BY <1>5 DEF match_entity, Match
<1> QED BY <1>1, <1>2, <1>3, <1>4, <1>5

\* What a page may answer is a record.
LEMMA AnswerFields ==
    ASSUME NEW source \in Source, NEW answer \in AnswersOf(source), NEW page \in Asked(source)
    PROVE  answer[page].access \in STRING /\ answer[page].text \in STRING /\ page \in DOMAIN Answers
<1>1. page \in DOMAIN Answers
  BY DEF Source, Asked, Range
<1>2. answer[page] \in Answers[page]
  BY DEF AnswersOf
<1> QED BY <1>1, <1>2, AnswersAssumption

\* A document with nothing saved.
LEMMA EmptyTells ==
    ASSUME NEW source, NEW answer, NEW id \in Id, id[1] = source.id, NEW page \in Page,
           NEW worth \in Worth, NEW match \in Match
    PROVE  Tells([id |-> id, page |-> page, status |-> worth, match |-> match, saved |-> Absent],
                 source, answer)
BY DEF Tells, Doc

LEMMA NoMatchTells ==
    ASSUME NEW source \in Source, NEW answer
    PROVE  Tells(save_no_match_evidence(source), source, answer)
<1>1. source.id \in STRING
  BY DEF Source
<1>2. <<source.id, "NO_MATCH">> \in Id /\ Absent \in Page
  BY <1>1, IdPair DEF Word, Page
<1>3. <<source.id, "NO_MATCH">>[1] = source.id
  OBVIOUS
<1>4. "NO_MATCH" \in Worth /\ "NO_MATCH" \in Match
  BY DEF Worth, Match
<1> QED BY <1>2, <1>3, <1>4, EmptyTells DEF save_no_match_evidence

LEMMA BlockTells ==
    ASSUME NEW source \in Source, NEW answer, NEW page, answer[page].access \in STRING
    PROVE  Tells(save_permission_block(source, answer[page]), source, answer)
<1>1. source.id \in STRING
  BY DEF Source
<1>2. <<source.id, answer[page].access>> \in Id /\ Absent \in Page
  BY <1>1, IdPair DEF Word, Page
<1>3. <<source.id, answer[page].access>>[1] = source.id
  OBVIOUS
<1>4. "PERMISSION_BLOCKED" \in Worth /\ "UNRESOLVED" \in Match
  BY DEF Worth, Match
<1> QED BY <1>2, <1>3, <1>4, EmptyTells DEF save_permission_block

LEMMA RoutedTells ==
    ASSUME NEW source \in Source, NEW answer \in AnswersOf(source), NEW page \in Asked(source),
           NEW success \in Worth
    PROVE  Tells(route_download_result(source, page, answer[page], success), source, answer)
<1> DEFINE d == route_download_result(source, page, answer[page], success)
<1>1. answer[page].access \in STRING /\ answer[page].text \in STRING /\ page \in DOMAIN Answers
  BY AnswerFields
<1>2. CASE answer[page].access \in Gated
  BY <1>1, <1>2, BlockTells DEF route_download_result
<1> DEFINE match == match_entity(Candidate(source, answer[page]))
<1>3. match \in Match
  BY MatchIsMatch
<1> HIDE DEF match
<1>4. source.id \in STRING /\ page \in Page
  BY <1>1 DEF Source, Page
<1>5. CASE answer[page].access \notin Gated /\ answer[page].access # "DOWNLOAD_OK"
  <2>1. d = [id |-> <<source.id, page, answer[page].access>>, page |-> page,
             status |-> "UNRESOLVED", match |-> match, saved |-> Absent]
    BY <1>5 DEF route_download_result, match
  <2>2. <<source.id, page, answer[page].access>> \in Id
    BY <1>1, <1>4, IdTriple DEF Word
  <2>3. <<source.id, page, answer[page].access>>[1] = source.id
    OBVIOUS
  <2>4. "UNRESOLVED" \in Worth
    BY DEF Worth
  <2> QED BY <2>1, <2>2, <2>3, <2>4, <1>3, <1>4, EmptyTells
<1>6. CASE answer[page].access \notin Gated /\ answer[page].access = "DOWNLOAD_OK"
  <2> DEFINE id == <<source.id, page, answer[page].text>>
  <2>1. d = [id |-> id, page |-> page,
             status |-> success, match |-> match, saved |-> answer[page].text]
    BY <1>6 DEF route_download_result, match
  <2>2. id \in Id
    BY <1>1, <1>4, IdTriple DEF Word
  <2>3. id[1] = source.id
    OBVIOUS
  <2> HIDE DEF id, d
  <2>4. Tells(d, source, answer)
    BY <2>1, <2>2, <2>3, <1>1, <1>3, <1>4 DEF Tells, Doc
  <2> QED BY <2>4 DEF d
<1> QED BY <1>2, <1>5, <1>6

-----------------------------------------------------------------------------
\* Sequences of documents.

AllTell(docs, source, answer) ==
    docs \in Seq(Doc) /\ \A k \in DOMAIN docs : Tells(docs[k], source, answer)

\* The first documents of a sequence, as many as there is room for.
LEMMA TakenFirst ==
    ASSUME NEW docs \in Seq(Doc), NEW room \in Int
    PROVE  /\ Taken(docs, room) \in Seq(Doc)
           /\ Len(Taken(docs, room)) <= Len(docs)
           /\ room >= 0 => Len(Taken(docs, room)) <= room
           /\ DOMAIN Taken(docs, room) \subseteq DOMAIN docs
           /\ \A k \in DOMAIN Taken(docs, room) : Taken(docs, room)[k] = docs[k]
<1> DEFINE n == IF Len(docs) < room THEN Len(docs) ELSE room
<1>1. Len(docs) \in Nat /\ DOMAIN docs = 1..Len(docs) /\ n \in Int /\ n <= Len(docs)
  OBVIOUS
<1>2. CASE n >= 0
  <2>1. SubSeq(docs, 1, n) \in Seq(Doc) /\ Len(SubSeq(docs, 1, n)) = n
        /\ \A k \in 1..n : SubSeq(docs, 1, n)[k] = docs[k]
    BY <1>1, <1>2
  <2> QED BY <2>1, <1>1 DEF Taken
<1>3. CASE n < 0
  <2>1. SubSeq(docs, 1, n) = <<>>
    BY <1>1, <1>3
  <2> QED BY <2>1, <1>1, <1>3 DEF Taken
<1> QED BY <1>1, <1>2, <1>3

LEMMA TakenTells ==
    ASSUME NEW source, NEW answer, NEW docs, AllTell(docs, source, answer), NEW room \in Int
    PROVE  AllTell(Taken(docs, room), source, answer)
BY TakenFirst DEF AllTell

LEMMA JoinTells ==
    ASSUME NEW source, NEW answer, NEW one, NEW other, AllTell(one, source, answer),
           AllTell(other, source, answer)
    PROVE  AllTell(one \o other, source, answer)
BY DEF AllTell

LEMMA OneTells ==
    ASSUME NEW source, NEW answer, NEW d, Tells(d, source, answer)
    PROVE  AllTell(<<d>>, source, answer)
BY DEF AllTell, Tells

\* The documents of a sequence of pages.
LEMMA PagesTell ==
    ASSUME NEW source \in Source, NEW answer \in AnswersOf(source),
           NEW pages \in Seq(DOMAIN Answers), Range(pages) \subseteq Asked(source),
           NEW success \in Worth
    PROVE  AllTell([k \in DOMAIN pages |->
                       route_download_result(source, pages[k], answer[pages[k]], success)],
                   source, answer)
<1> DEFINE docs == [k \in DOMAIN pages |->
                       route_download_result(source, pages[k], answer[pages[k]], success)]
<1>1. \A k \in DOMAIN pages : Tells(docs[k], source, answer)
  BY RoutedTells DEF Range
<1>2. DOMAIN pages = 1..Len(pages) /\ Len(pages) \in Nat
  OBVIOUS
<1>3. docs \in [1..Len(pages) -> Doc]
  <2> SUFFICES ASSUME NEW k \in DOMAIN pages
               PROVE  route_download_result(source, pages[k], answer[pages[k]], success) \in Doc
    BY <1>2
  <2> QED BY <1>1 DEF Tells
<1> HIDE DEF docs
<1>4. docs \in Seq(Doc) /\ DOMAIN docs = DOMAIN pages
  BY <1>2, <1>3, SeqDef
<1> QED BY <1>1, <1>4 DEF AllTell, docs

\* Each kind of source.

LEMMA SourceFields ==
    ASSUME NEW source \in Source
    PROVE  /\ source.id \in STRING
           /\ source.pages \in Seq(DOMAIN Answers) /\ source.reports \in Seq(DOMAIN Answers)
           /\ Range(source.pages) \subseteq Asked(source)
           /\ Range(source.reports) \subseteq Asked(source)
BY DEF Source, Asked

LEMMA FirstPage ==
    ASSUME NEW source \in Source, source.pages # <<>>
    PROVE  source.pages[1] \in Asked(source)
<1>1. source.pages \in Seq(DOMAIN Answers) /\ 1 \in DOMAIN source.pages
  BY DEF Source
<1> QED BY <1>1 DEF Asked, Range

LEMMA SseTells ==
    ASSUME NEW source \in Source, NEW answer \in AnswersOf(source), NEW listed, NEW room \in Int
    PROVE  AllTell(SseDocuments(source, answer, listed, room), source, answer)
<1> DEFINE seeds == [k \in DOMAIN source.pages |->
                        route_download_result(source, source.pages[k], answer[source.pages[k]],
                                              "FACT_DIRECT")]
           reports == [k \in DOMAIN source.reports |->
                        route_download_result(source, source.reports[k],
                                              answer[source.reports[k]], "FACT_DIRECT")]
           found == IF listed THEN seeds \o Taken(reports, room - Len(seeds)) ELSE seeds
<1>1. "FACT_DIRECT" \in Worth
  BY DEF Worth
<1>2. AllTell(seeds, source, answer) /\ AllTell(reports, source, answer)
  BY <1>1, SourceFields, PagesTell
<1>3. SseDocuments(source, answer, listed, room)
        = IF found = <<>> THEN <<save_no_match_evidence(source)>> ELSE found
  BY DEF SseDocuments
<1> HIDE DEF seeds, reports
<1>4. Len(seeds) \in Int
  BY <1>2 DEF AllTell
<1>5. AllTell(seeds \o Taken(reports, room - Len(seeds)), source, answer)
  BY <1>2, <1>4, TakenTells, JoinTells
<1>6. AllTell(<<save_no_match_evidence(source)>>, source, answer)
  BY NoMatchTells, OneTells
<1> QED BY <1>2, <1>3, <1>5, <1>6

LEMMA RoadshowTells ==
    ASSUME NEW source \in Source, NEW answer \in AnswersOf(source)
    PROVE  AllTell(RoadshowDocuments(source, answer), source, answer)
<1>1. "PRIMARY_NONSTATUTORY" \in Worth
  BY DEF Worth
<1>2. AllTell(<<save_no_match_evidence(source)>>, source, answer)
  BY NoMatchTells, OneTells
<1>3. AllTell([k \in DOMAIN source.pages |->
                  route_download_result(source, source.pages[k], answer[source.pages[k]],
                                        "PRIMARY_NONSTATUTORY")], source, answer)
  BY <1>1, SourceFields, PagesTell
<1> QED BY <1>2, <1>3 DEF RoadshowDocuments

LEMMA CompanyTells ==
    ASSUME NEW source \in Source, source.pages # <<>>, NEW answer \in AnswersOf(source)
    PROVE  Tells(CompanyDocument(source, answer[source.pages[1]]), source, answer)
<1>1. CASE Website
  <2>1. "COMPANY_CLAIM" \in Worth
    BY DEF Worth
  <2> QED BY <1>1, <2>1, FirstPage, RoutedTells DEF CompanyDocument
<1>2. CASE ~Website
  <2>1. source.id \in STRING
    BY DEF Source
  <2>2. <<source.id, "NO_WEBSITE">> \in Id /\ Absent \in Page
    BY <2>1, IdPair DEF Word, Page
  <2>3. <<source.id, "NO_WEBSITE">>[1] = source.id
    OBVIOUS
  <2>4. "UNRESOLVED" \in Worth /\ "UNRESOLVED" \in Match
    BY DEF Worth, Match
  <2> QED BY <1>2, <2>2, <2>3, <2>4, EmptyTells DEF CompanyDocument
<1> QED BY <1>1, <1>2

LEMMA ProbeTells ==
    ASSUME NEW source \in Source, source.pages # <<>>, NEW answer \in AnswersOf(source)
    PROVE  Tells(ProbeDocument(source, answer[source.pages[1]]), source, answer)
<1> DEFINE page == source.pages[1]
           d == route_download_result(source, page, answer[page], "INDEX_ONLY")
           match == IF answer[page].access = "DOWNLOAD_OK" THEN d.match ELSE "UNRESOLVED"
<1>1. "INDEX_ONLY" \in Worth /\ "UNRESOLVED" \in Match
  BY DEF Worth, Match
<1>2. Tells(d, source, answer)
  BY <1>1, FirstPage, RoutedTells
<1>3. Tells(save_no_match_evidence(source), source, answer)
  BY NoMatchTells
<1>4. ProbeDocument(source, answer[page])
        = IF answer[page].access = "DOWNLOAD_OK" /\ answer[page].text # "named"
          THEN save_no_match_evidence(source) ELSE [d EXCEPT !.match = match]
  BY DEF ProbeDocument
<1> HIDE DEF d
<1>5. match \in Match
  BY <1>1, <1>2 DEF Tells, Doc
<1> HIDE DEF match
<1>6. Tells([d EXCEPT !.match = match], source, answer)
  BY <1>2, <1>5 DEF Tells, Doc
<1> QED BY <1>3, <1>4, <1>6

LEMMA ManifestSources == \A i \in DOMAIN Manifest : Manifest[i] \in Source
<1>1. Manifest \in Seq(Source)
  BY ManifestAssumption DEF Source
<1> QED BY <1>1

\* Whatever a source gives tells what its pages have answered.
LEMMA DocumentsTell ==
    ASSUME NEW i \in DOMAIN Manifest, NEW answer \in AnswersOf(Manifest[i]), NEW listed,
           NEW room \in Int, i \in Plan
    PROVE  AllTell(Documents(Manifest[i], answer, listed, room), Manifest[i], answer)
<1> DEFINE source == Manifest[i]
<1>1. source \in Source
  BY ManifestSources
<1>2. source.collector \in {"sse_disclosure", "company_website", "roadshow_seed", "status_probe",
                            "index_probe"}
  <2>1. PICK n \in DOMAIN Collectors : i \in Of(Collectors[n])
    BY DEF Plan, Range
  <2>2. source.collector = Collectors[n]
    BY <2>1 DEF Of
  <2>3. n \in 1..5
    BY DEF Collectors
  <2> QED BY <2>2, <2>3 DEF Collectors
<1>3. source.collector \in {"company_website", "status_probe", "index_probe"} =>
        source.pages # <<>>
  BY ManifestAssumption
<1> HIDE DEF source
<1>4. CASE source.collector = "sse_disclosure"
  <2>1. Documents(source, answer, listed, room) = SseDocuments(source, answer, listed, room)
    BY <1>4 DEF Documents
  <2> QED BY <1>1, <2>1, SseTells DEF source
<1>5. CASE source.collector = "company_website"
  <2>1. Documents(source, answer, listed, room)
          = <<CompanyDocument(source, answer[source.pages[1]])>>
    BY <1>5 DEF Documents
  <2> QED BY <1>1, <1>3, <1>5, <2>1, CompanyTells, OneTells DEF source
<1>6. CASE source.collector = "roadshow_seed"
  <2>1. Documents(source, answer, listed, room) = RoadshowDocuments(source, answer)
    BY <1>6 DEF Documents
  <2> QED BY <1>1, <2>1, RoadshowTells DEF source
<1>7. CASE source.collector \in {"status_probe", "index_probe"}
  <2>1. Documents(source, answer, listed, room)
          = <<ProbeDocument(source, answer[source.pages[1]])>>
    BY <1>7 DEF Documents
  <2> QED BY <1>1, <1>3, <1>7, <2>1, ProbeTells, OneTells DEF source
<1> QED BY <1>2, <1>4, <1>5, <1>6, <1>7 DEF source

-----------------------------------------------------------------------------
\* What is kept has its file.

\* Each document of docs that is saved lies among the files, with its hash.
Lies(docs, files) ==
    \A k \in DOMAIN docs :
        docs[k].saved # Absent => /\ <<docs[k].id[1], docs[k].page>> \in DOMAIN files
                                  /\ files[<<docs[k].id[1], docs[k].page>>] = docs[k].saved

\* What a source writes: the saved documents, under its own id.
LEMMA WrittenLies ==
    ASSUME NEW source, NEW answer, NEW docs, AllTell(docs, source, answer)
    PROVE  /\ Lies(docs, Written(source, docs))
           /\ \A f \in DOMAIN Written(source, docs) : f[1] = source.id
<1> DEFINE saved == {k \in DOMAIN docs : docs[k].saved # Absent}
<1>1. Written(source, docs) =
        [f \in {<<source.id, docs[k].page>> : k \in saved} |->
            docs[CHOOSE k \in DOMAIN docs : docs[k].page = f[2] /\ docs[k].saved # Absent].saved]
  BY DEF Written
<1>2. ASSUME NEW k \in saved
      PROVE  /\ <<docs[k].id[1], docs[k].page>> \in DOMAIN Written(source, docs)
             /\ Written(source, docs)[<<docs[k].id[1], docs[k].page>>] = docs[k].saved
  <2> DEFINE f == <<source.id, docs[k].page>>
             n == CHOOSE m \in DOMAIN docs : docs[m].page = f[2] /\ docs[m].saved # Absent
  <2>1. docs[k].id[1] = source.id /\ docs[k].saved = answer[docs[k].page].text
    BY <1>2 DEF AllTell, Tells
  <2>2. f \in DOMAIN Written(source, docs)
    BY <1>1
  <2>3. f[2] = docs[k].page
    OBVIOUS
  <2>4. n \in DOMAIN docs /\ docs[n].page = docs[k].page /\ docs[n].saved # Absent
    BY <2>3
  <2>5. docs[n].saved = answer[docs[n].page].text
    BY <2>4 DEF AllTell, Tells
  <2>6. Written(source, docs)[f] = docs[n].saved
    BY <1>1, <2>2
  <2> QED BY <2>1, <2>2, <2>4, <2>5, <2>6
<1>3. \A f \in DOMAIN Written(source, docs) : f[1] = source.id
  BY <1>1
<1> QED BY <1>2, <1>3 DEF Lies

\* A source overwrites no file of another.
LEMMA OverwrittenLies ==
    ASSUME NEW docs, NEW old, NEW new, NEW id,
           Lies(docs, old),
           \A f \in DOMAIN new : f[1] = id,
           \A k \in DOMAIN docs : docs[k].id[1] # id
    PROVE  Lies(docs, Overwritten(old, new))
BY DEF Lies, Overwritten

LEMMA NewLies ==
    ASSUME NEW docs, NEW old, NEW new, Lies(docs, new)
    PROVE  Lies(docs, Overwritten(old, new))
BY DEF Lies, Overwritten

LEMMA TakenLies ==
    ASSUME NEW docs \in Seq(Doc), NEW room \in Int, NEW files, Lies(docs, files)
    PROVE  Lies(Taken(docs, room), files)
BY TakenFirst DEF Lies

LEMMA JoinLies ==
    ASSUME NEW one \in Seq(Doc), NEW other \in Seq(Doc), NEW files,
           Lies(one, files), Lies(other, files)
    PROVE  Lies(one \o other, files)
BY DEF Lies

\* After a source: what was kept of earlier sources and what is kept of this one.
LEMMA CollectedLies ==
    ASSUME NEW source, NEW answer, NEW docs, AllTell(docs, source, answer), NEW room \in Int,
           NEW kept \in Seq(Doc), NEW files, Lies(kept, files),
           \A k \in DOMAIN kept : kept[k].id[1] # source.id
    PROVE  Lies(kept \o Taken(docs, room), Overwritten(files, Written(source, docs)))
<1>1. Lies(kept, Overwritten(files, Written(source, docs)))
  BY WrittenLies, OverwrittenLies
<1>2. docs \in Seq(Doc)
  BY DEF AllTell
<1>3. Lies(Taken(docs, room), Overwritten(files, Written(source, docs)))
  BY <1>2, WrittenLies, NewLies, TakenLies
<1> QED BY <1>1, <1>2, <1>3, TakenFirst, JoinLies

-----------------------------------------------------------------------------
\* The invariant.

Places == {"idle", "collect", "open_index", "fill_index", "validate", "open_pointer",
           "fill_pointer", "read_artifacts", "open_artifacts", "fill_artifacts"}
Beginning == {"collect", "open_index", "fill_index"}
Job == [status : {"none", "PENDING", "RUNNING", "COMPLETED", "FAILED"}, at : Places,
        run : {NoRun} \cup Times, turn : Nat, docs : Seq(Doc), seen : SUBSET Page]
Pointer == [whole : BOOLEAN, run : {NoRun} \cup Times]

Types ==
    /\ second \in Times /\ crashes \in 0..MaxCrashes
    /\ began \in [Times -> Nat]
    /\ jobs \in [Jobs -> Job]
    /\ \A j \in Jobs : Len(jobs[j].docs) <= MaxDocs
    /\ DOMAIN packs = Times
    /\ \A t \in Times : /\ DOMAIN packs[t] = {"files", "index", "quality"}
                        /\ packs[t].quality \in {"none", "PASS", "FAIL"}
    /\ pointer \in Pointer /\ artifacts \in Pointer

\* A job has a run while it is at work and when it has completed; it collects with turns
\* taken by the sources of what it keeps.
Works(j) ==
    /\ jobs[j].status = "RUNNING" <=> jobs[j].at # "idle"
    /\ jobs[j].status \in {"RUNNING", "COMPLETED"} <=> jobs[j].run # NoRun
    /\ jobs[j].run # NoRun => began[jobs[j].run] >= 1
    /\ jobs[j].run = NoRun => jobs[j].docs = <<>>
    /\ jobs[j].at = "collect" =>
           \A k \in DOMAIN jobs[j].docs :
               \E i \in Plan : /\ Turn[i] \in 0..(jobs[j].turn - 1)
                               /\ Manifest[i].id = jobs[j].docs[k].id[1]

\* How far the directory of its run has come; nothing of it is published before the end.
Advanced(j) ==
    LET pack == packs[jobs[j].run]
    IN  /\ Lies(jobs[j].docs, pack.files)
        /\ jobs[j].at \notin Beginning =>
               /\ pack.index.whole /\ pack.index.docs = jobs[j].docs
               /\ jobs[j].at # "validate" => pack.quality # "none"
        /\ jobs[j].at \in Beginning \cup {"validate", "open_pointer", "fill_pointer"} =>
               pointer.run # jobs[j].run

Alone == \A i, j \in Jobs : jobs[i].run = jobs[j].run /\ jobs[i].run # NoRun => i = j

Good ==
    /\ Types
    /\ \A j \in Jobs : Works(j)
    /\ pointer.run # NoRun => began[pointer.run] >= 1
    /\ Apart => /\ Alone
                /\ \A j \in Jobs : jobs[j].run # NoRun => Advanced(j)
                /\ pointer.run # NoRun => InOrder(pointer.run)

\* A step of a job that leaves clock and pointer alone, and at most writes in the directory
\* of its own run while nobody is sent there.
JobStep(j, job) ==
    /\ jobs' = [jobs EXCEPT ![j] = job]
    /\ UNCHANGED <<second, began, pointer, crashes>>
    /\ job.run \in {NoRun, jobs[j].run}
    /\ \A t \in Times : t # jobs[j].run => packs'[t] = packs[t]
    /\ Apart /\ (jobs[j].run = NoRun \/ pointer.run = jobs[j].run) => packs' = packs

LEMMA JobStepOrder ==
    ASSUME Good, Apart, NEW j \in Jobs, NEW job \in Job, JobStep(j, job),
           job.run # NoRun => Advanced(j)'
    PROVE  /\ Alone'
           /\ \A i \in Jobs : jobs'[i].run # NoRun => Advanced(i)'
           /\ pointer'.run # NoRun => InOrder(pointer.run)'
<1>1. /\ jobs' = [jobs EXCEPT ![j] = job] /\ pointer' = pointer
      /\ job.run \in {NoRun, jobs[j].run}
      /\ \A t \in Times : t # jobs[j].run => packs'[t] = packs[t]
      /\ jobs[j].run = NoRun \/ pointer.run = jobs[j].run => packs' = packs
  BY DEF JobStep
<1>2. jobs \in [Jobs -> Job] /\ pointer \in Pointer
  BY DEF Good, Types
<1>3. /\ Alone
      /\ \A i \in Jobs : jobs[i].run # NoRun => Advanced(i)
      /\ pointer.run # NoRun => InOrder(pointer.run)
  BY DEF Good
<1>4. jobs'[j] = job /\ \A i \in Jobs \ {j} : jobs'[i] = jobs[i]
  BY <1>1, <1>2
<1>5. Alone'
  BY <1>1, <1>3, <1>4 DEF Alone
<1>6. ASSUME NEW i \in Jobs, jobs'[i].run # NoRun
      PROVE  Advanced(i)'
  <2>1. CASE i = j
    BY <1>4, <1>6, <2>1
  <2>2. CASE i # j
    <3>1. jobs'[i] = jobs[i] /\ jobs[i].run # NoRun /\ jobs[i].run \in Times
      BY <1>2, <1>4, <1>6, <2>2 DEF Job
    <3>2. jobs[i].run # jobs[j].run
      BY <1>3, <2>2, <3>1 DEF Alone
    <3>3. packs'[jobs[i].run] = packs[jobs[i].run]
      BY <1>1, <3>1, <3>2
    <3>4. Advanced(i)
      BY <1>3, <3>1
    <3> QED BY <1>1, <3>1, <3>3, <3>4 DEF Advanced
  <2> QED BY <2>1, <2>2
<1>7. ASSUME pointer'.run # NoRun
      PROVE  InOrder(pointer.run)'
  <2>1. pointer.run \in Times /\ pointer.run # NoRun
    BY <1>1, <1>2, <1>7 DEF Pointer
  <2>2. packs'[pointer.run] = packs[pointer.run]
    BY <1>1, <2>1
  <2>3. pointer' = pointer /\ InOrder(pointer.run)
    BY <1>1, <1>3, <2>1
  <2> QED BY ONLY <2>2, <2>3 DEF InOrder
<1> QED BY <1>5, <1>6, <1>7

\* What keeps the types when one job has taken a step.
PacksTyped(p) ==
    /\ DOMAIN p = Times
    /\ \A t \in Times : DOMAIN p[t] = {"files", "index", "quality"}
                        /\ p[t].quality \in {"none", "PASS", "FAIL"}

LEMMA JobStepGood ==
    ASSUME Good, NEW j \in Jobs, NEW job \in Job, JobStep(j, job),
           Len(job.docs) <= MaxDocs, artifacts' \in Pointer, PacksTyped(packs'),
           job.status = "RUNNING" <=> job.at # "idle",
           job.status \in {"RUNNING", "COMPLETED"} <=> job.run # NoRun,
           job.run = NoRun => job.docs = <<>>,
           job.at = "collect" =>
               \A k \in DOMAIN job.docs :
                   \E i \in Plan : /\ Turn[i] \in 0..(job.turn - 1)
                                   /\ Manifest[i].id = job.docs[k].id[1],
           Apart /\ job.run # NoRun => Advanced(j)'
    PROVE  Good'
<1>1. /\ jobs' = [jobs EXCEPT ![j] = job]
      /\ UNCHANGED <<second, began, pointer, crashes>>
      /\ job.run \in {NoRun, jobs[j].run}
  BY DEF JobStep
<1>2. Types /\ \A i \in Jobs : Works(i)
  BY DEF Good
<1>3. jobs'[j] = job /\ \A i \in Jobs \ {j} : jobs'[i] = jobs[i]
  BY <1>1, <1>2 DEF Types
<1>4. Types'
  BY <1>1, <1>2, <1>3 DEF Types, PacksTyped
<1>5. ASSUME NEW i \in Jobs
      PROVE  Works(i)'
  <2>1. CASE i = j
    <3>1. job.run # NoRun => began[job.run] >= 1
      BY <1>1, <1>2 DEF Works
    <3> QED BY <1>1, <1>3, <2>1, <3>1 DEF Works
  <2>2. CASE i # j
    <3>1. jobs'[i] = jobs[i] /\ Works(i)
      BY <1>2, <1>3, <2>2
    <3> QED BY <1>1, <3>1 DEF Works
  <2> QED BY <2>1, <2>2
<1>6. pointer'.run # NoRun => began'[pointer'.run] >= 1
  BY <1>1 DEF Good
<1>7. Apart' => Apart
  BY <1>1 DEF Apart
<1> QED BY <1>4, <1>5, <1>6, <1>7, JobStepOrder DEF Good

-----------------------------------------------------------------------------
\* The steps.

LEMMA NoJobIsJob == NoJob \in Job /\ [NoJob EXCEPT !.status = "FAILED"] \in Job
                    /\ [NoJob EXCEPT !.status = "PENDING"] \in Job
<1>1. <<>> \in Seq(Doc) /\ "idle" \in Places
  BY DEF Places
<1>2. NoJob \in Job
  BY <1>1 DEF NoJob, Job
<1>3. [NoJob EXCEPT !.status = "FAILED"] \in Job
  BY <1>2 DEF Job
<1>4. [NoJob EXCEPT !.status = "PENDING"] \in Job
  BY <1>2 DEF Job
<1> QED BY <1>2, <1>3, <1>4

\* A job that fails forgets its run; its directory stays.
LEMMA RaisedGood ==
    ASSUME Good, NEW j \in Jobs, Raised(j),
           UNCHANGED <<second, began, packs, pointer, artifacts, crashes>>
    PROVE  Good'
<1> DEFINE job == [NoJob EXCEPT !.status = "FAILED"]
<1>1. /\ job.status = "FAILED" /\ job.at = "idle" /\ job.run = NoRun /\ job.docs = <<>>
      /\ job \in Job
  BY NoJobIsJob DEF NoJob
<1>2. JobStep(j, job)
  BY <1>1 DEF Raised, Set, JobStep
<1>3. PacksTyped(packs') /\ artifacts' \in Pointer
  BY DEF Good, Types, PacksTyped
<1>4. Len(job.docs) <= MaxDocs
  BY <1>1, RawPackAssumption
<1> HIDE DEF job
<1> QED BY <1>1, <1>2, <1>3, <1>4, JobStepGood

LEMMA CreateGood ==
    ASSUME Good, NEW j \in Jobs, Create(j)
    PROVE  Good'
<1> DEFINE job == [NoJob EXCEPT !.status = "PENDING"]
<1>1. /\ job.status = "PENDING" /\ job.at = "idle" /\ job.run = NoRun /\ job.docs = <<>>
      /\ job \in Job
  BY NoJobIsJob DEF NoJob
<1>2. JobStep(j, job)
  BY <1>1 DEF Create, Set, JobStep
<1>3. PacksTyped(packs') /\ artifacts' \in Pointer
  BY DEF Good, Types, PacksTyped, Create
<1>4. Len(job.docs) <= MaxDocs
  BY <1>1, RawPackAssumption
<1> HIDE DEF job
<1> QED BY <1>1, <1>2, <1>3, <1>4, JobStepGood

\* A job at work has a run, and its place says so.
LEMMA AtWork ==
    ASSUME Good, NEW j \in Jobs, NEW place, At(j, place)
    PROVE  /\ jobs[j] \in Job /\ jobs[j].status = "RUNNING" /\ jobs[j].at = place
           /\ place # "idle" /\ jobs[j].run # NoRun /\ jobs[j].run \in Times
           /\ Len(jobs[j].docs) <= MaxDocs /\ jobs[j].docs \in Seq(Doc)
           /\ Works(j)
<1>1. jobs[j].status = "RUNNING" /\ jobs[j].at = place
  BY DEF At
<1>2. jobs[j] \in Job /\ Works(j) /\ Len(jobs[j].docs) <= MaxDocs
  BY DEF Good, Types
<1> QED BY <1>1, <1>2 DEF Works, Job

\* Nobody has been sent to the directory of a job that has not come to the end of its pack.
LEMMA Unpublished ==
    ASSUME Good, Apart, NEW j \in Jobs, NEW place, At(j, place),
           place \in Beginning \cup {"validate", "open_pointer", "fill_pointer"}
    PROVE  Advanced(j) /\ pointer.run # jobs[j].run
BY AtWork DEF Good, Advanced

\* A job goes on to another place than collecting.
LEMMA GoGood ==
    ASSUME Good, NEW j \in Jobs, NEW place \in Places, place # "idle", place # "collect",
           jobs[j].status = "RUNNING", Go(j, place),
           UNCHANGED <<second, began, pointer, crashes>>,
           artifacts' \in Pointer, PacksTyped(packs'),
           \A t \in Times : t # jobs[j].run => packs'[t] = packs[t],
           Apart /\ pointer.run = jobs[j].run => packs' = packs,
           Apart => Advanced(j)'
    PROVE  Good'
<1> DEFINE job == [jobs[j] EXCEPT !.at = place]
<1>1. jobs[j] \in Job /\ Works(j) /\ Len(jobs[j].docs) <= MaxDocs
  BY DEF Good, Types
<1>2. job \in Job /\ job.at = place
  BY <1>1 DEF Job
<1>3. job.status = jobs[j].status /\ job.run = jobs[j].run /\ job.docs = jobs[j].docs
  BY <1>1 DEF Job
<1>4. jobs' = [jobs EXCEPT ![j] = job]
  BY DEF Go, Set
<1> HIDE DEF job
<1>5. jobs[j].run # NoRun
  BY <1>1 DEF Works
<1>6. JobStep(j, job)
  BY <1>3, <1>4, <1>5 DEF JobStep
<1>7. /\ job.status = "RUNNING" <=> job.at # "idle"
      /\ job.status \in {"RUNNING", "COMPLETED"} <=> job.run # NoRun
      /\ job.at # "collect"
  BY <1>2, <1>3, <1>5
<1> QED BY <1>1, <1>2, <1>3, <1>6, <1>7, JobStepGood

LEMMA BeginGood ==
    ASSUME Good, NEW j \in Jobs, Begin(j)
    PROVE  Good'
<1> DEFINE job == [jobs[j] EXCEPT !.status = "RUNNING", !.at = "collect", !.turn = 0,
                                 !.run = RunId(second)]
<1>1. /\ jobs[j].status = "PENDING" /\ jobs' = [jobs EXCEPT ![j] = job]
      /\ began' = [began EXCEPT ![second] = @ + 1]
      /\ UNCHANGED <<second, packs, pointer, artifacts, crashes>>
  BY DEF Begin, Set
<1>2. Types /\ Works(j) /\ jobs[j] \in Job
  BY DEF Good, Types
<1>3. second \in Times /\ began \in [Times -> Nat] /\ NoRun \notin Times
  BY <1>2 DEF Types, Times, NoRun
<1>4. /\ job \in Job /\ job.status = "RUNNING" /\ job.at = "collect" /\ job.turn = 0
      /\ job.run = second /\ job.docs = jobs[j].docs
  BY <1>2, <1>3 DEF Job, RunId, Places
<1> HIDE DEF job
<1>5. /\ began'[second] = began[second] + 1
      /\ \A t \in Times : began'[t] >= began[t] /\ began'[t] \in Nat
  BY <1>1, <1>3
<1>6. jobs'[j] = job /\ \A i \in Jobs \ {j} : jobs'[i] = jobs[i]
  BY <1>1, <1>2 DEF Types
<1>7. Types'
  BY <1>1, <1>2, <1>3, <1>4, <1>5, <1>6 DEF Types
<1>8. job.docs = <<>> /\ jobs[j].run = NoRun
  BY <1>1, <1>2, <1>4 DEF Works
<1>9. ASSUME NEW i \in Jobs
      PROVE  Works(i)'
  <2>1. CASE i = j
    BY <1>3, <1>4, <1>5, <1>6, <1>8, <2>1 DEF Works
  <2>2. CASE i # j
    <3>1. jobs'[i] = jobs[i] /\ Works(i) /\ jobs[i] \in Job
      BY <1>2, <1>6, <2>2 DEF Good, Types
    <3>2. jobs[i].run # NoRun => jobs[i].run \in Times /\ began[jobs[i].run] \in Nat
      BY <1>3, <3>1 DEF Job
    <3>3. jobs[i].run # NoRun => began'[jobs[i].run] >= 1
      BY <1>5, <3>1, <3>2 DEF Works
    <3> QED BY <3>1, <3>3 DEF Works
  <2> QED BY <2>1, <2>2
<1>10. pointer'.run # NoRun => began'[pointer'.run] >= 1
  <2>1. pointer.run # NoRun => began[pointer.run] >= 1 /\ pointer.run \in Times
    BY <1>2 DEF Good, Types, Pointer
  <2> QED BY <1>1, <1>3, <1>5, <2>1
<1>11. ASSUME Apart'
       PROVE  /\ Alone'
              /\ \A i \in Jobs : jobs'[i].run # NoRun => Advanced(i)'
              /\ pointer'.run # NoRun => InOrder(pointer.run)'
  <2>1. Apart /\ began[second] = 0
    BY <1>3, <1>5, <1>11 DEF Apart, Times
  <2>2. \A i \in Jobs : jobs[i].run # second
    BY <1>3, <2>1 DEF Good, Works
  <2>3. pointer.run # second
    BY <1>3, <2>1 DEF Good
  <2>4. Alone'
    BY <1>4, <1>6, <2>1, <2>2 DEF Good, Alone
  <2>5. ASSUME NEW i \in Jobs, jobs'[i].run # NoRun
        PROVE  Advanced(i)'
    <3>1. CASE i = j
      <4>1. jobs'[j].docs = <<>> /\ jobs'[j].at = "collect" /\ jobs'[j].run = second
        BY <1>4, <1>6, <1>8
      <4>2. Lies(<<>>, packs[second].files)
        BY DEF Lies
      <4> QED BY <1>1, <2>3, <3>1, <4>1, <4>2 DEF Advanced, Beginning
    <3>2. CASE i # j
      BY <1>1, <1>6, <2>1, <2>5, <3>2 DEF Good, Advanced
    <3> QED BY <3>1, <3>2
  <2>6. pointer'.run # NoRun => InOrder(pointer.run)'
    BY <1>1, <2>1 DEF Good, InOrder
  <2> QED BY <2>4, <2>5, <2>6
<1> QED BY <1>7, <1>9, <1>10, <1>11 DEF Good

LEMMA OnwardGood ==
    ASSUME Good, NEW j \in Jobs, At(j, "collect"), NEW next \in Plan,
           Turn[next] = jobs[j].turn, NEW docs \in Seq(Doc), Len(docs) <= Remaining(j),
           \A k \in DOMAIN docs : docs[k].id[1] = Manifest[next].id,
           NEW pages \in SUBSET Page, Onward(j, docs, pages),
           UNCHANGED <<second, began, pointer, artifacts, crashes>>,
           PacksTyped(packs'),
           \A t \in Times : t # jobs[j].run => packs'[t] = packs[t],
           Apart /\ pointer.run = jobs[j].run => packs' = packs,
           Apart => Lies(jobs[j].docs \o docs, packs'[jobs[j].run].files)
    PROVE  Good'
<1> DEFINE job == [jobs[j] EXCEPT !.turn = @ + 1, !.docs = @ \o docs, !.seen = @ \cup pages]
<1>1. /\ jobs[j] \in Job /\ jobs[j].status = "RUNNING" /\ jobs[j].at = "collect"
      /\ jobs[j].run # NoRun /\ jobs[j].run \in Times /\ Works(j)
      /\ jobs[j].docs \in Seq(Doc) /\ jobs[j].turn \in Nat
  BY AtWork DEF Job
<1>2. /\ jobs[j].docs \o docs \in Seq(Doc)
      /\ Len(jobs[j].docs \o docs) = Len(jobs[j].docs) + Len(docs)
  BY <1>1
<1>3. Len(jobs[j].docs \o docs) <= MaxDocs
  <2>1. MaxDocs \in Nat /\ Len(jobs[j].docs) \in Nat /\ Len(docs) \in Nat
    BY <1>1, RawPackAssumption
  <2>2. Len(docs) <= MaxDocs - Len(jobs[j].docs)
    BY DEF Remaining
  <2> QED BY <1>2, <2>1, <2>2
<1>4. /\ job \in Job /\ job.status = "RUNNING" /\ job.at = "collect" /\ job.run = jobs[j].run
      /\ job.turn = jobs[j].turn + 1 /\ job.docs = jobs[j].docs \o docs
  <2>1. PICK turn : turn = jobs[j].turn + 1
    OBVIOUS
  <2>2. PICK all : all = jobs[j].docs \o docs
    OBVIOUS
  <2>3. PICK seen : seen = jobs[j].seen \cup pages
    OBVIOUS
  <2>4. turn \in Nat /\ all \in Seq(Doc) /\ seen \in SUBSET Page
    BY <1>1, <1>2, <2>1, <2>2, <2>3 DEF Job
  <2>5. job = [jobs[j] EXCEPT !.turn = turn, !.docs = all, !.seen = seen]
    BY <2>1, <2>2, <2>3
  <2> HIDE DEF job
  <2>6. /\ job \in Job /\ job.status = jobs[j].status /\ job.at = jobs[j].at
        /\ job.run = jobs[j].run /\ job.turn = turn /\ job.docs = all
    BY <1>1, <2>4, <2>5 DEF Job
  <2> QED BY <1>1, <2>1, <2>2, <2>6
<1>5. jobs' = [jobs EXCEPT ![j] = job]
  BY DEF Onward, Set
<1> HIDE DEF job
<1>6. JobStep(j, job)
  BY <1>1, <1>4, <1>5 DEF JobStep
<1>7. ASSUME NEW k \in DOMAIN job.docs
      PROVE  \E i \in Plan : Turn[i] \in 0..(job.turn - 1) /\ Manifest[i].id = job.docs[k].id[1]
  <2>1. CASE k \in DOMAIN jobs[j].docs
    <3>1. job.docs[k] = jobs[j].docs[k]
      BY <1>1, <1>4, <2>1
    <3>2. PICK i \in Plan : /\ Turn[i] \in 0..(jobs[j].turn - 1)
                            /\ Manifest[i].id = jobs[j].docs[k].id[1]
      BY <1>1, <2>1 DEF Works
    <3>3. Turn[i] \in 0..(job.turn - 1)
      BY <1>1, <1>4, <3>2
    <3> QED BY <3>1, <3>2, <3>3
  <2>2. CASE k \notin DOMAIN jobs[j].docs
    <3>1. /\ k - Len(jobs[j].docs) \in DOMAIN docs
          /\ job.docs[k] = docs[k - Len(jobs[j].docs)]
      BY <1>1, <1>2, <1>4, <2>2
    <3>2. Turn[next] \in 0..(job.turn - 1)
      BY <1>1, <1>4
    <3> QED BY <3>1, <3>2
  <2> QED BY <2>1, <2>2
<1>8. ASSUME Apart
      PROVE  Advanced(j)'
  <2>1. Advanced(j) /\ pointer.run # jobs[j].run
    BY <1>8, Unpublished DEF Beginning
  <2>2. jobs'[j] = job
    BY <1>5 DEF Good, Types
  <2>3. Lies(job.docs, packs'[job.run].files)
    BY <1>4, <1>8
  <2>4. job.at \in Beginning
    BY <1>4 DEF Beginning
  <2> QED BY <1>4, <2>1, <2>2, <2>3, <2>4 DEF Advanced
<1>9. artifacts' \in Pointer
  BY DEF Good, Types
<1>10. /\ job.status = "RUNNING" <=> job.at # "idle"
       /\ job.status \in {"RUNNING", "COMPLETED"} <=> job.run # NoRun
       /\ job.run # NoRun
  BY <1>1, <1>4
<1> QED BY <1>3, <1>4, <1>6, <1>7, <1>8, <1>9, <1>10, JobStepGood

\* No document kept so far is of the source whose turn it is.
LEMMA OtherSources ==
    ASSUME Good, NEW j \in Jobs, At(j, "collect"), NEW next \in Plan,
           Turn[next] = jobs[j].turn
    PROVE  \A k \in DOMAIN jobs[j].docs : jobs[j].docs[k].id[1] # Manifest[next].id
<1> SUFFICES ASSUME NEW k \in DOMAIN jobs[j].docs
             PROVE  jobs[j].docs[k].id[1] # Manifest[next].id
  OBVIOUS
<1>1. Works(j) /\ jobs[j].at = "collect" /\ jobs[j].turn \in Nat
  BY AtWork DEF Job
<1>2. PICK i \in Plan : /\ Turn[i] \in 0..(jobs[j].turn - 1)
                        /\ Manifest[i].id = jobs[j].docs[k].id[1]
  BY <1>1 DEF Works
<1>3. i # next
  BY <1>1, <1>2
<1>4. i \in DOMAIN Manifest /\ next \in DOMAIN Manifest
  BY DEF Plan, Of, select_sources
<1> QED BY <1>2, <1>3, <1>4, ManifestAssumption

LEMMA CollectGood ==
    ASSUME Good, NEW j \in Jobs, Collect(j)
    PROVE  Good'
<1>1. /\ At(j, "collect") /\ Remaining(j) > 0
      /\ UNCHANGED <<second, began, pointer, artifacts, crashes>>
  BY DEF Collect
<1>2. PICK next \in Plan :
          /\ Turn[next] = jobs[j].turn
          /\ LET source == Planned[next]
             IN  IF Passed(j, source) THEN Onward(j, <<>>, {}) /\ UNCHANGED packs
                 ELSE \E answer \in AnswersOf(source), listed \in BOOLEAN :
                          LET docs == Documents(source, answer, listed, Room(j, source))
                          IN  /\ source.collector # "sse_disclosure" => listed
                              /\ Onward(j, Taken(docs, Room(j, source)), Range(source.pages))
                              /\ packs' = [packs EXCEPT ![jobs[j].run].files =
                                              Overwritten(@, Written(source, docs))]
  BY DEF Collect
<1>3. next \in DOMAIN Manifest
  BY DEF Plan, Of, select_sources
<1> DEFINE source == Manifest[next]
<1>4. Planned[next] = source
  BY DEF Planned
<1>5. source \in Source
  BY <1>3, ManifestSources
<1> HIDE DEF source
<1>6. /\ jobs[j] \in Job /\ jobs[j].at = "collect" /\ jobs[j].run # NoRun
      /\ jobs[j].run \in Times /\ jobs[j].docs \in Seq(Doc)
  BY <1>1, AtWork
<1>7. Apart => Lies(jobs[j].docs, packs[jobs[j].run].files) /\ pointer.run # jobs[j].run
  BY <1>1, Unpublished DEF Advanced, Beginning
<1>8. PacksTyped(packs)
  BY DEF Good, Types, PacksTyped
<1>9. Remaining(j) \in Int
  BY <1>6, RawPackAssumption DEF Remaining
<1>10. CASE Passed(j, source)
  <2>1. Onward(j, <<>>, {}) /\ UNCHANGED packs
    BY <1>2, <1>4, <1>10
  <2>2. <<>> \in Seq(Doc) /\ Len(<<>>) = 0 /\ jobs[j].docs \o <<>> = jobs[j].docs
    BY <1>6
  <2>3. {} \in SUBSET Page /\ Len(<<>>) <= Remaining(j)
    BY <1>1, <1>9, <2>2
  <2>4. \A k \in DOMAIN <<>> : <<>>[k].id[1] = Manifest[next].id
    OBVIOUS
  <2>5. PacksTyped(packs') /\ packs' = packs
    BY <1>8, <2>1
  <2>6. Apart => Lies(jobs[j].docs \o <<>>, packs'[jobs[j].run].files)
    BY <1>7, <2>2, <2>5
  <2> QED BY <1>1, <1>2, <2>1, <2>2, <2>3, <2>4, <2>5, <2>6, OnwardGood
<1>11. CASE ~Passed(j, source)
  <2> DEFINE room == Room(j, source)
  <2>1. PICK answer \in AnswersOf(source), listed \in BOOLEAN :
            LET docs == Documents(source, answer, listed, room)
            IN  /\ Onward(j, Taken(docs, room), Range(source.pages))
                /\ packs' = [packs EXCEPT ![jobs[j].run].files =
                                Overwritten(@, Written(source, docs))]
    BY <1>2, <1>4, <1>11
  <2>2. room \in Int /\ 0 < room /\ room <= Remaining(j)
    BY <1>1, <1>9 DEF Room
  <2> HIDE DEF room
  <2> DEFINE docs == Documents(source, answer, listed, room)
  <2>3. AllTell(docs, source, answer)
    BY <1>3, <2>2, DocumentsTell DEF source
  <2> DEFINE files == Overwritten(packs[jobs[j].run].files, Written(source, docs))
  <2>4. Onward(j, Taken(docs, room), Range(source.pages))
    BY <2>1
  <2>5. packs' = [packs EXCEPT ![jobs[j].run].files = files]
    BY <2>1
  <2> HIDE DEF docs, files
  <2>6. /\ Taken(docs, room) \in Seq(Doc) /\ Len(Taken(docs, room)) <= Remaining(j)
        /\ \A k \in DOMAIN Taken(docs, room) : Taken(docs, room)[k].id[1] = source.id
    <3>1. docs \in Seq(Doc) /\ \A k \in DOMAIN docs : docs[k].id[1] = source.id
      BY <2>3 DEF AllTell, Tells
    <3>2. Len(Taken(docs, room)) \in Nat /\ Len(Taken(docs, room)) <= room
      BY <2>2, <3>1, TakenFirst
    <3> QED BY <1>9, <2>2, <3>1, <3>2, TakenFirst
  <2>7. Range(source.pages) \in SUBSET Page
    BY <1>5 DEF Source, Range, Page
  <2>8. /\ packs'[jobs[j].run].files = files
        /\ \A t \in Times : t # jobs[j].run => packs'[t] = packs[t]
        /\ PacksTyped(packs')
    BY <1>6, <1>8, <2>5 DEF PacksTyped
  <2>9. Apart => Lies(jobs[j].docs \o Taken(docs, room), files)
    BY <1>1, <1>2, <1>6, <1>7, <2>2, <2>3, OtherSources, CollectedLies DEF files, source
  <2>10. ~Apart \/ pointer.run # jobs[j].run
    BY <1>7
  <2> QED BY <1>1, <1>2, <2>4, <2>6, <2>7, <2>8, <2>9, <2>10, OnwardGood DEF source
<1> QED BY <1>10, <1>11

LEMMA CollectedGood ==
    ASSUME Good, NEW j \in Jobs, Collected(j)
    PROVE  Good'
<1> DEFINE job == [jobs[j] EXCEPT !.at = "open_index", !.turn = 0, !.seen = {}]
<1>1. At(j, "collect") /\ jobs' = [jobs EXCEPT ![j] = job]
      /\ UNCHANGED <<second, began, packs, pointer, artifacts, crashes>>
  BY DEF Collected, Set
<1>2. /\ jobs[j] \in Job /\ jobs[j].status = "RUNNING" /\ jobs[j].at = "collect"
      /\ jobs[j].run # NoRun /\ Len(jobs[j].docs) <= MaxDocs
  BY <1>1, AtWork
<1>3. /\ job \in Job /\ job.status = "RUNNING" /\ job.at = "open_index"
      /\ job.run = jobs[j].run /\ job.docs = jobs[j].docs
  BY <1>2 DEF Job, Places
<1> HIDE DEF job
<1>4. JobStep(j, job)
  BY <1>1, <1>3 DEF JobStep
<1>5. PacksTyped(packs') /\ artifacts' \in Pointer
  BY <1>1 DEF Good, Types, PacksTyped
<1>6. ASSUME Apart
      PROVE  Advanced(j)'
  <2>1. Advanced(j)
    BY <1>1, <1>6, Unpublished DEF Beginning
  <2>2. jobs'[j] = job
    BY <1>1 DEF Good, Types
  <2> QED BY <1>1, <1>2, <1>3, <2>1, <2>2 DEF Advanced, Beginning
<1>7. /\ job.status = "RUNNING" <=> job.at # "idle"
      /\ job.status \in {"RUNNING", "COMPLETED"} <=> job.run # NoRun
      /\ job.at # "collect"
  BY <1>2, <1>3
<1> QED BY <1>2, <1>3, <1>4, <1>5, <1>6, <1>7, JobStepGood

\* The places that follow one another, and what a step of export_raw_pack does to the pack.
LEMMA Afters ==
    /\ After("open_index") = "fill_index" /\ After("fill_index") = "validate"
    /\ After("validate") = "open_pointer" /\ After("fill_pointer") = "read_artifacts"
BY DEF After

\* A step that changes one field of the pack of the job's run and goes on.
LEMMA PackGood ==
    ASSUME Good, NEW j \in Jobs, NEW from, At(j, from),
           from \in Beginning \cup {"validate", "open_pointer", "fill_pointer"},
           NEW place \in Places, place # "idle", place # "collect", Go(j, place),
           NEW pack, packs' = [packs EXCEPT ![jobs[j].run] = pack],
           DOMAIN pack = {"files", "index", "quality"}, pack.quality \in {"none", "PASS", "FAIL"},
           UNCHANGED <<second, began, pointer, artifacts, crashes>>,
           pack.files = packs[jobs[j].run].files,
           Apart /\ place \notin Beginning =>
               /\ pack.index.whole /\ pack.index.docs = jobs[j].docs
               /\ place # "validate" => pack.quality # "none"
    PROVE  Good'
<1>1. /\ jobs[j] \in Job /\ jobs[j].status = "RUNNING" /\ jobs[j].run # NoRun
      /\ jobs[j].run \in Times
  BY AtWork
<1>2. PacksTyped(packs) /\ artifacts' \in Pointer /\ jobs \in [Jobs -> Job]
  BY DEF Good, Types, PacksTyped
<1>3. /\ packs'[jobs[j].run] = pack
      /\ \A t \in Times : t # jobs[j].run => packs'[t] = packs[t]
      /\ PacksTyped(packs')
  BY <1>1, <1>2 DEF PacksTyped
<1>4. Apart => Advanced(j) /\ pointer.run # jobs[j].run
  BY Unpublished
<1>5. ASSUME Apart
      PROVE  Advanced(j)'
  <2>1. /\ jobs'[j].at = place /\ jobs'[j].run = jobs[j].run /\ jobs'[j].docs = jobs[j].docs
    BY <1>1, <1>2 DEF Go, Set, Job
  <2> QED BY <1>3, <1>4, <1>5, <2>1 DEF Advanced
<1> QED BY <1>1, <1>2, <1>3, <1>4, <1>5, GoGood

LEMMA OpenIndexGood ==
    ASSUME Good, NEW j \in Jobs, OpenIndex(j)
    PROVE  Good'
<1> DEFINE pack == [packs[jobs[j].run] EXCEPT !.index = NoDocuments]
<1>1. /\ At(j, "open_index") /\ Go(j, "fill_index")
      /\ packs' = [packs EXCEPT ![jobs[j].run] = pack]
      /\ UNCHANGED <<second, began, pointer, artifacts, crashes>>
  BY Afters DEF OpenIndex
<1>2. PacksTyped(packs) /\ jobs[j].run \in Times
  BY <1>1, AtWork DEF Good, Types, PacksTyped
<1>3. /\ DOMAIN pack = {"files", "index", "quality"} /\ pack.quality \in {"none", "PASS", "FAIL"}
      /\ pack.files = packs[jobs[j].run].files
  BY <1>2 DEF PacksTyped
<1> HIDE DEF pack
<1>4. /\ "open_index" \in Beginning /\ "fill_index" \in Beginning /\ "fill_index" \in Places
  BY DEF Beginning, Places
<1> QED BY <1>1, <1>3, <1>4, PackGood

LEMMA FillIndexGood ==
    ASSUME Good, NEW j \in Jobs, FillIndex(j)
    PROVE  Good'
<1> DEFINE index == [whole |-> TRUE, docs |-> jobs[j].docs]
           pack == [packs[jobs[j].run] EXCEPT !.index = index]
<1>1. /\ At(j, "fill_index") /\ Go(j, "validate")
      /\ packs' = [packs EXCEPT ![jobs[j].run] = pack]
      /\ UNCHANGED <<second, began, pointer, artifacts, crashes>>
  BY Afters DEF FillIndex
<1>2. PacksTyped(packs) /\ jobs[j].run \in Times
  BY <1>1, AtWork DEF Good, Types, PacksTyped
<1>3. index.whole /\ index.docs = jobs[j].docs
  OBVIOUS
<1> HIDE DEF index
<1>4. /\ DOMAIN pack = {"files", "index", "quality"} /\ pack.quality \in {"none", "PASS", "FAIL"}
      /\ pack.files = packs[jobs[j].run].files /\ pack.index = index
  BY <1>2 DEF PacksTyped
<1> HIDE DEF pack
<1>5. "fill_index" \in Beginning /\ "validate" \notin Beginning /\ "validate" \in Places
  BY DEF Beginning, Places
<1> QED BY <1>1, <1>3, <1>4, <1>5, PackGood

LEMMA ValidateGood ==
    ASSUME Good, NEW j \in Jobs, validate_raw_pack(j)
    PROVE  Good'
<1>1. /\ At(j, "validate") /\ UNCHANGED <<second, began, pointer, artifacts, crashes>>
  BY DEF validate_raw_pack
<1>2. CASE packs[jobs[j].run].index.whole
  <2> DEFINE quality == Quality(packs[jobs[j].run])
             pack == [packs[jobs[j].run] EXCEPT !.quality = quality]
  <2>1. /\ Go(j, "open_pointer") /\ packs' = [packs EXCEPT ![jobs[j].run] = pack]
    BY <1>2, Afters DEF validate_raw_pack
  <2>2. PacksTyped(packs) /\ jobs[j].run \in Times /\ jobs[j].at = "validate"
    BY <1>1, AtWork DEF Good, Types, PacksTyped
  <2>3. quality \in {"PASS", "FAIL"}
    BY DEF Quality
  <2> HIDE DEF quality
  <2>4. /\ DOMAIN pack = {"files", "index", "quality"} /\ pack.quality = quality
        /\ pack.files = packs[jobs[j].run].files /\ pack.index = packs[jobs[j].run].index
    BY <2>2 DEF PacksTyped
  <2> HIDE DEF pack
  <2>5. "validate" \notin Beginning /\ "open_pointer" \in Places
    BY DEF Beginning, Places
  <2>6. Apart => pack.index.whole /\ pack.index.docs = jobs[j].docs
    BY <1>1, <2>2, <2>4, <2>5, Unpublished DEF Advanced
  <2>7. pack.quality \in {"none", "PASS", "FAIL"} /\ pack.quality # "none"
    BY <2>3, <2>4
  <2> QED BY <1>1, <2>1, <2>4, <2>5, <2>6, <2>7, PackGood
<1>3. CASE ~packs[jobs[j].run].index.whole
  BY <1>1, <1>3, RaisedGood DEF validate_raw_pack
<1> QED BY <1>2, <1>3

\* A pack that has advanced to the pointer is in order.
LEMMA AdvancedInOrder ==
    ASSUME NEW j \in Jobs, Advanced(j), jobs[j].at \notin Beginning, jobs[j].at # "validate"
    PROVE  InOrder(jobs[j].run)
<1> DEFINE pack == packs[jobs[j].run]
<1>1. /\ Lies(jobs[j].docs, pack.files) /\ pack.index.whole /\ pack.index.docs = jobs[j].docs
      /\ pack.quality # "none"
  BY DEF Advanced
<1> QED BY <1>1 DEF Lies, InOrder

LEMMA PointerGood ==
    ASSUME Good, NEW j \in Jobs, NEW from \in {"open_pointer", "fill_pointer"}, At(j, from),
           NEW place \in {"fill_pointer", "read_artifacts"}, Go(j, place),
           UNCHANGED <<second, began, packs, artifacts, crashes>>,
           pointer' \in Pointer,
           \/ pointer'.run = NoRun
           \/ pointer'.run = jobs[j].run /\ place = "read_artifacts"
    PROVE  Good'
<1>1. /\ jobs[j] \in Job /\ jobs[j].status = "RUNNING" /\ jobs[j].at = from
      /\ jobs[j].run # NoRun /\ jobs[j].run \in Times /\ Works(j)
      /\ Len(jobs[j].docs) <= MaxDocs
  BY AtWork
<1>2. Types /\ \A i \in Jobs : Works(i)
  BY DEF Good
<1>3. place \in Places /\ place # "idle" /\ place # "collect" /\ place \notin Beginning
      /\ place # "validate" /\ from \notin Beginning /\ from # "validate"
  BY DEF Places, Beginning
<1> DEFINE job == [jobs[j] EXCEPT !.at = place]
<1>4. /\ job \in Job /\ job.at = place /\ job.status = "RUNNING" /\ job.run = jobs[j].run
      /\ job.docs = jobs[j].docs
  BY <1>1, <1>3 DEF Job
<1>5. jobs' = [jobs EXCEPT ![j] = job]
  BY DEF Go, Set
<1> HIDE DEF job
<1>6. jobs'[j] = job /\ \A i \in Jobs \ {j} : jobs'[i] = jobs[i]
  BY <1>2, <1>5 DEF Types
<1>7. Types'
  BY <1>1, <1>2, <1>4, <1>5, <1>6 DEF Types
<1>8. ASSUME NEW i \in Jobs
      PROVE  Works(i)'
  <2>1. CASE i = j
    BY <1>1, <1>3, <1>4, <1>6, <2>1 DEF Works
  <2>2. CASE i # j
    <3>1. jobs'[i] = jobs[i] /\ Works(i)
      BY <1>2, <1>6, <2>2
    <3> QED BY <3>1 DEF Works
  <2> QED BY <2>1, <2>2
<1>9. pointer'.run # NoRun => began'[pointer'.run] >= 1
  BY <1>1 DEF Works
<1>10. ASSUME Apart
       PROVE  /\ Alone'
              /\ \A i \in Jobs : jobs'[i].run # NoRun => Advanced(i)'
              /\ pointer'.run # NoRun => InOrder(pointer.run)'
  <2>1. Alone /\ \A i \in Jobs : jobs[i].run # NoRun => Advanced(i)
    BY <1>10 DEF Good
  <2>2. Alone'
    BY <1>4, <1>6, <2>1 DEF Alone
  <2>3. ASSUME NEW i \in Jobs, jobs'[i].run # NoRun
        PROVE  Advanced(i)'
    <3>1. CASE i = j
      <4>1. Advanced(j)
        BY <1>1, <2>1
      <4>2. place = "fill_pointer" => pointer'.run # jobs[j].run
        BY <1>1
      <4>3. place # "open_pointer"
        OBVIOUS
      <4> QED BY <1>1, <1>3, <1>4, <1>6, <3>1, <4>1, <4>2, <4>3 DEF Advanced
    <3>2. CASE i # j
      <4>1. jobs'[i] = jobs[i] /\ jobs[i].run # NoRun /\ Advanced(i)
        BY <1>6, <2>1, <2>3, <3>2
      <4>2. jobs[i].run # jobs[j].run
        BY <2>1, <3>2, <4>1 DEF Alone
      <4>3. pointer'.run # jobs[i].run
        BY <4>1, <4>2
      <4> QED BY <4>1, <4>3 DEF Advanced
    <3> QED BY <3>1, <3>2
  <2>4. ASSUME pointer'.run # NoRun
        PROVE  InOrder(pointer.run)'
    <3>1. pointer'.run = jobs[j].run
      BY <2>4
    <3>2. InOrder(jobs[j].run)
      BY <1>1, <1>3, <2>1, AdvancedInOrder
    <3> QED BY <3>1, <3>2 DEF InOrder
  <2> QED BY <2>2, <2>3, <2>4
<1>11. Apart' => Apart
  BY DEF Apart
<1> QED BY <1>7, <1>8, <1>9, <1>10, <1>11 DEF Good

LEMMA OpenPointerGood ==
    ASSUME Good, NEW j \in Jobs, OpenPointer(j)
    PROVE  Good'
<1>1. /\ At(j, "open_pointer") /\ Go(j, "fill_pointer")
      /\ UNCHANGED <<second, began, packs, artifacts, crashes>>
      /\ pointer' = [whole |-> FALSE, run |-> NoRun]
  BY DEF OpenPointer
<1>2. pointer' \in Pointer /\ pointer'.run = NoRun
  BY <1>1 DEF Pointer
<1> QED BY <1>1, <1>2, PointerGood

LEMMA FillPointerGood ==
    ASSUME Good, NEW j \in Jobs, FillPointer(j)
    PROVE  Good'
<1>1. /\ At(j, "fill_pointer") /\ Go(j, "read_artifacts")
      /\ UNCHANGED <<second, began, packs, artifacts, crashes>>
      /\ pointer' = [whole |-> TRUE, run |-> jobs[j].run]
  BY Afters DEF FillPointer
<1>2. pointer' \in Pointer /\ pointer'.run = jobs[j].run
  BY <1>1, AtWork DEF Pointer
<1> QED BY <1>1, <1>2, PointerGood

\* A job past the pointer goes on: its pack stays as it is.
LEMMA PublishedGood ==
    ASSUME Good, NEW j \in Jobs, NEW from \in {"read_artifacts", "open_artifacts"}, At(j, from),
           NEW place \in {"open_artifacts", "fill_artifacts"}, Go(j, place),
           UNCHANGED <<second, began, packs, pointer, crashes>>, artifacts' \in Pointer
    PROVE  Good'
<1>1. /\ jobs[j] \in Job /\ jobs[j].status = "RUNNING" /\ jobs[j].at = from
      /\ jobs[j].run # NoRun
  BY AtWork
<1>2. PacksTyped(packs') /\ jobs \in [Jobs -> Job]
  BY DEF Good, Types, PacksTyped
<1>3. /\ from \notin Beginning \cup {"validate", "open_pointer", "fill_pointer"}
      /\ place \notin Beginning \cup {"validate", "open_pointer", "fill_pointer"}
      /\ place \in Places /\ place # "idle" /\ place # "collect"
  BY DEF Beginning, Places
<1>4. ASSUME Apart
      PROVE  Advanced(j)'
  <2>1. Advanced(j)
    BY <1>1, <1>4 DEF Good
  <2>2. jobs'[j].at = place /\ jobs'[j].run = jobs[j].run /\ jobs'[j].docs = jobs[j].docs
    BY <1>1, <1>2 DEF Go, Set, Job
  <2> QED BY <1>1, <1>3, <2>1, <2>2 DEF Advanced
<1> QED BY <1>1, <1>2, <1>3, <1>4, GoGood

LEMMA ReadArtifactsGood ==
    ASSUME Good, NEW j \in Jobs, ReadArtifacts(j)
    PROVE  Good'
<1>1. CASE artifacts.whole
  BY <1>1, PublishedGood DEF ReadArtifacts, Good, Types
<1>2. CASE ~artifacts.whole
  BY <1>2, RaisedGood DEF ReadArtifacts
<1> QED BY <1>1, <1>2

LEMMA OpenArtifactsGood ==
    ASSUME Good, NEW j \in Jobs, OpenArtifacts(j)
    PROVE  Good'
<1>1. artifacts' \in Pointer
  BY DEF OpenArtifacts, Pointer
<1> QED BY <1>1, PublishedGood DEF OpenArtifacts

LEMMA FillArtifactsGood ==
    ASSUME Good, NEW j \in Jobs, FillArtifacts(j)
    PROVE  Good'
<1> DEFINE job == [jobs[j] EXCEPT !.at = "idle", !.status = "COMPLETED"]
<1>1. At(j, "fill_artifacts") /\ jobs' = [jobs EXCEPT ![j] = job]
      /\ UNCHANGED <<second, began, packs, pointer, crashes>>
      /\ artifacts' = [whole |-> TRUE, run |-> jobs[j].run]
  BY DEF FillArtifacts, Set
<1>2. /\ jobs[j] \in Job /\ jobs[j].at = "fill_artifacts" /\ jobs[j].run # NoRun
      /\ jobs[j].run \in Times /\ Len(jobs[j].docs) <= MaxDocs
  BY <1>1, AtWork
<1>3. /\ job \in Job /\ job.status = "COMPLETED" /\ job.at = "idle"
      /\ job.run = jobs[j].run /\ job.docs = jobs[j].docs
  BY <1>2 DEF Job, Places
<1> HIDE DEF job
<1>4. JobStep(j, job)
  BY <1>1, <1>2, <1>3 DEF JobStep
<1>5. PacksTyped(packs') /\ artifacts' \in Pointer
  BY <1>1, <1>2 DEF Good, Types, PacksTyped, Pointer
<1>6. ASSUME Apart
      PROVE  Advanced(j)'
  <2>1. Advanced(j)
    BY <1>2, <1>6 DEF Good
  <2>2. jobs'[j] = job
    BY <1>1 DEF Good, Types
  <2>3. /\ "fill_artifacts" \notin Beginning /\ "idle" \notin Beginning
    BY DEF Beginning
  <2> QED BY <1>1, <1>2, <1>3, <2>1, <2>2, <2>3 DEF Advanced
<1> QED BY <1>2, <1>3, <1>4, <1>5, <1>6, JobStepGood

LEMMA TickGood ==
    ASSUME Good, Tick
    PROVE  Good'
<1>1. /\ second' = second + 1 /\ second < MaxSeconds
      /\ UNCHANGED <<began, jobs, packs, pointer, artifacts, crashes>>
  BY DEF Tick
<1>2. second' \in Times
  BY <1>1, RawPackAssumption DEF Good, Types, Times
<1>3. Types'
  BY <1>1, <1>2 DEF Good, Types
<1>4. \A j \in Jobs : Works(j)'
  BY <1>1 DEF Good, Works
<1>5. Apart' => /\ Alone' /\ \A j \in Jobs : jobs'[j].run # NoRun => Advanced(j)'
                /\ pointer'.run # NoRun => InOrder(pointer.run)'
  BY <1>1 DEF Good, Apart, Alone, Advanced, InOrder
<1>6. pointer'.run # NoRun => began'[pointer'.run] >= 1
  BY <1>1 DEF Good
<1> QED BY <1>3, <1>4, <1>5, <1>6 DEF Good

LEMMA RestartGood ==
    ASSUME Good, Restart
    PROVE  Good'
<1>1. /\ crashes < MaxCrashes /\ crashes' = crashes + 1 /\ jobs' = [j \in Jobs |-> NoJob]
      /\ UNCHANGED <<second, began, packs, pointer, artifacts>>
  BY DEF Restart
<1>2. \A j \in Jobs : jobs'[j] = NoJob
  BY <1>1
<1>3. /\ NoJob \in Job /\ NoJob.run = NoRun /\ NoJob.docs = <<>> /\ NoJob.status = "none"
      /\ NoJob.at = "idle"
  BY NoJobIsJob DEF NoJob
<1>4. Len(NoJob.docs) <= MaxDocs
  BY <1>3, RawPackAssumption
<1>5. crashes' \in 0..MaxCrashes
  BY <1>1, RawPackAssumption DEF Good, Types
<1>6. Types'
  BY <1>1, <1>2, <1>3, <1>4, <1>5 DEF Good, Types
<1>7. \A j \in Jobs : Works(j)'
  BY <1>2, <1>3 DEF Works
<1>8. Apart' => /\ Alone' /\ \A j \in Jobs : jobs'[j].run # NoRun => Advanced(j)'
                /\ pointer'.run # NoRun => InOrder(pointer.run)'
  <2>1. Alone' /\ \A j \in Jobs : jobs'[j].run # NoRun => Advanced(j)'
    BY <1>2, <1>3 DEF Alone
  <2>2. Apart' => (pointer'.run # NoRun => InOrder(pointer.run)')
    BY <1>1 DEF Good, Apart, InOrder
  <2> QED BY <2>1, <2>2
<1>9. pointer'.run # NoRun => began'[pointer'.run] >= 1
  BY <1>1 DEF Good
<1> QED BY <1>6, <1>7, <1>8, <1>9 DEF Good

-----------------------------------------------------------------------------
\* The theorems.

LEMMA GoodInit == Init => Good
<1> SUFFICES ASSUME Init
             PROVE  Good
  OBVIOUS
<1>1. /\ second = 0 /\ crashes = 0 /\ began = [t \in Times |-> 0]
      /\ jobs = [j \in Jobs |-> NoJob] /\ packs = [t \in Times |-> NoPack]
      /\ pointer = [whole |-> TRUE, run |-> NoRun] /\ artifacts = [whole |-> TRUE, run |-> NoRun]
  BY DEF Init, Times
<1>2. second \in Times /\ crashes \in 0..MaxCrashes /\ began \in [Times -> Nat]
  BY <1>1, RawPackAssumption DEF Times
<1>3. /\ NoJob \in Job /\ NoJob.run = NoRun /\ NoJob.docs = <<>> /\ NoJob.status = "none"
      /\ NoJob.at = "idle" /\ Len(NoJob.docs) <= MaxDocs
  BY NoJobIsJob, RawPackAssumption DEF NoJob
<1>4. \A j \in Jobs : jobs[j] = NoJob
  BY <1>1
<1>5. /\ DOMAIN NoPack = {"files", "index", "quality"} /\ NoPack.quality = "none"
  BY DEF NoPack
<1>6. pointer \in Pointer /\ artifacts \in Pointer /\ pointer.run = NoRun
  BY <1>1 DEF Pointer
<1>7. Types
  BY <1>1, <1>2, <1>3, <1>4, <1>5, <1>6 DEF Types
<1>8. \A j \in Jobs : Works(j)
  BY <1>3, <1>4 DEF Works
<1> QED BY <1>3, <1>4, <1>6, <1>7, <1>8 DEF Good, Alone

LEMMA GoodStep == Good /\ [Next]_vars => Good'
<1> SUFFICES ASSUME Good, [Next]_vars
             PROVE  Good'
  OBVIOUS
<1>1. ASSUME NEW j \in Jobs, Create(j)
      PROVE  Good'
  BY <1>1, CreateGood
<1>2. ASSUME NEW j \in Jobs, Thread(j)
      PROVE  Good'
  <2>1. CASE CollectRaises(j)
    BY <2>1, RaisedGood DEF CollectRaises
  <2> QED BY <1>2, <2>1, BeginGood, CollectGood, CollectedGood, OpenIndexGood, FillIndexGood,
             ValidateGood, OpenPointerGood, FillPointerGood, ReadArtifactsGood,
             OpenArtifactsGood, FillArtifactsGood DEF Thread
<1>3. CASE UNCHANGED vars
  <2>1. Types' /\ \A j \in Jobs : Works(j)'
    BY <1>3 DEF Good, Types, Works, vars
  <2>2. Apart' => /\ Alone' /\ \A j \in Jobs : jobs'[j].run # NoRun => Advanced(j)'
                  /\ pointer'.run # NoRun => InOrder(pointer.run)'
    BY <1>3 DEF Good, Apart, Alone, Advanced, InOrder, vars
  <2> QED BY <1>3, <2>1, <2>2 DEF Good, vars
<1> QED BY <1>1, <1>2, <1>3, TickGood, RestartGood DEF Next

\* The invariant holds of every reachable state.
THEOREM GoodHolds == Spec => []Good
BY GoodInit, GoodStep, PTL DEF Spec

\* Every state has its types, and no job keeps more documents than it was asked for.
THEOREM TypeHolds == Spec => []TypeOK
<1>1. Good => TypeOK
  <2> SUFFICES ASSUME Good
               PROVE  TypeOK
    OBVIOUS
  <2>1. Types
    BY DEF Good
  <2> QED BY <2>1 DEF Types, TypeOK, Job, Pointer, Times
<1> QED BY <1>1, GoodHolds, PTL

\* For any number of jobs, any manifest whose ids are distinct and any answers of its pages:
\* while no two runs begin in one second, what latest.json names and what a COMPLETED job
\* reports is a pack in order.
THEOREM PacksHold == Spec => []PacksInOrder
<1>1. Good => PacksInOrder
  <2> SUFFICES ASSUME Good, Apart
               PROVE  /\ pointer.run # NoRun => InOrder(pointer.run)
                      /\ \A j \in Jobs :
                             jobs[j].status = "COMPLETED" =>
                                 /\ InOrder(jobs[j].run)
                                 /\ packs[jobs[j].run].index.docs = jobs[j].docs
    BY DEF PacksInOrder
  <2>1. ASSUME NEW j \in Jobs, jobs[j].status = "COMPLETED"
        PROVE  InOrder(jobs[j].run) /\ packs[jobs[j].run].index.docs = jobs[j].docs
    <3>1. jobs[j].at = "idle" /\ jobs[j].run # NoRun
      BY <2>1 DEF Good, Works
    <3>2. "idle" \notin Beginning /\ Advanced(j)
      BY <3>1 DEF Good, Beginning
    <3> QED BY <3>1, <3>2, AdvancedInOrder DEF Advanced
  <2> QED BY <2>1 DEF Good
<1> QED BY <1>1, GoodHolds, PTL

=============================================================================
