---------------------------- MODULE ResearchPack ----------------------------
(***************************************************************************)
(* The research pack of a stock (research_pack/runner.py), built from the  *)
(* facts of a validation and the database it registered, by the command or *)
(* by the job of the API that validates first (api/research_pack.py).  The *)
(* stages keep their results in a cache and their names in a checkpoint,   *)
(* so that a run resumes where an earlier one with the same inputs ended.  *)
(***************************************************************************)
EXTENDS CrossValidation

VARIABLES
    note,     \* checkpoint.json of a pack directory
    cache,    \* the result kept for each stage: the inputs it was made from
    package,  \* the inputs each part of the exported package was made from
    pointer,  \* latest.json: the directory and the cutoff it names
    pack      \* the pack run of each worker

packVars == <<note, cache, package, pointer, pack>>
vars == <<cvVars, packVars>>

-----------------------------------------------------------------------------
Stages == {"MAP_CANONICAL", "EXTRACT_SECTIONS", "BUILD_EVIDENCE"}
Before(s) == CASE s = "MAP_CANONICAL" -> {}
               [] s = "EXTRACT_SECTIONS" -> {"MAP_CANONICAL"}
               [] s = "BUILD_EVIDENCE" -> {"MAP_CANONICAL", "EXTRACT_SECTIONS"}

NoInputs == [cutoff |-> 0, official |-> {}, database |-> 0]
NoTables == [s \in Stages |-> NoInputs]
NoNote == [status |-> "none", inputs |-> NoInputs, stages |-> {}]
NoPack == [note |-> NoNote, loaded |-> NoInputs, tables |-> NoTables, saved |-> {}]
NoPointer == [dir |-> "none", cutoff |-> 0]

\* _input_paths: the facts in the default directory come before those of the
\* validation that is registered.
Official ==
    CASE direct["default"] # {} -> direct["default"]
      [] direct["default"] = {} /\ registered # "none" -> exported[registered].facts
      [] OTHER -> exported["default"].facts

\* _fingerprint: the cutoff and the hashes of the files.
Inputs(cutoff) ==
    [cutoff |-> cutoff, official |-> Official,
     database |-> exported[IF registered = "none" THEN "default" ELSE registered].run]

\* ResearchMapper leaves out the facts of a document later than the cutoff.
Used(inputs) == {f \in inputs.official : f.as.available <= inputs.cutoff}

-----------------------------------------------------------------------------
Init ==
    /\ CVInit
    /\ note = [d \in Dirs |-> NoNote]
    /\ cache = [d \in Dirs |-> NoTables]
    /\ package = [d \in Dirs |-> NoTables]
    /\ pointer = NoPointer
    /\ pack = [w \in Workers |-> NoPack]

Then(w, l) == Set(w, [run[w] EXCEPT !.at = l])
OnlyPack == UNCHANGED <<day, security, kind, fileVars, done, boundVars>>
DirOf(w) == run[w].dir

\* The research-pack command.
Command(w) ==
    /\ run[w] = Idle /\ runs < MaxRuns
    /\ runs' = runs + 1
    /\ \E cutoff \in Days :
          Set(w, [Idle EXCEPT !.at = "open", !.job = "pack", !.cutoff = cutoff,
                              !.serial = runs + 1])
    /\ UNCHANGED <<day, security, kind, fileVars, done, crashes, packVars>>

\* _completed_cache_hit: a completed pack of the same inputs is the answer.
CacheHit(w) ==
    /\ At(w, "open")
    /\ note[DirOf(w)].status = "COMPLETED"
    /\ note[DirOf(w)].inputs = Inputs(run[w].cutoff)
    /\ Then(w, "publish")
    /\ UNCHANGED packVars /\ OnlyPack

\* Variant: a checkpoint of other inputs keeps its stages.
OpenedKeeping(old, inputs, force) == [old EXCEPT !.inputs = inputs]

\* A checkpoint of other inputs starts again.
Opened(old, inputs, force) ==
    IF old.inputs # inputs \/ force
    THEN [status |-> "RUNNING", inputs |-> inputs, stages |-> {}]
    ELSE old

\* A pack is also made again when it is forced, or its files do not pass.
Open(w) ==
    LET d == DirOf(w)
        inputs == Inputs(run[w].cutoff)
    IN  /\ At(w, "open")
        /\ \E force \in BOOLEAN :
              LET opened == Opened(note[d], inputs, force)
              IN  /\ note' = [note EXCEPT ![d] = opened]
                  /\ pack' = [pack EXCEPT ![w] = [NoPack EXCEPT !.note = opened]]
        /\ Then(w, "load")
        /\ UNCHANGED <<cache, package, pointer>> /\ OnlyPack

\* _save_checkpoint writes what the run has in memory, RUNNING again.
Save(w, stages) ==
    LET saved == [pack[w].note EXCEPT !.status = "RUNNING", !.stages = @ \cup stages]
    IN  /\ note' = [note EXCEPT ![DirOf(w)] = saved]
        /\ pack' = [pack EXCEPT ![w].note = saved, ![w].saved = @ \cup stages]

\* _load_inputs reads the files the fingerprint was taken of.
Load(w) ==
    LET loaded == Inputs(run[w].cutoff)
        saved == [pack[w].note EXCEPT !.status = "RUNNING"]
    IN  /\ At(w, "load") /\ loaded.database # -1
        /\ note' = [note EXCEPT ![DirOf(w)] = saved]
        /\ pack' = [pack EXCEPT ![w].note = saved, ![w].loaded = loaded]
        /\ Then(w, "stages")
        /\ UNCHANGED <<cache, package, pointer>> /\ OnlyPack

\* A stage takes its result from the cache if the checkpoint has its name, else
\* it makes it of the stage before and keeps it.
Stage(w, s) ==
    LET d == DirOf(w)
        kept == s \in pack[w].note.stages /\ cache[d][s] # NoInputs
        table == CASE kept -> cache[d][s]
                   [] ~kept /\ s = "MAP_CANONICAL" -> pack[w].loaded
                   [] OTHER -> pack[w].tables["MAP_CANONICAL"]
    IN  /\ At(w, "stages") /\ Before(s) \subseteq pack[w].saved
        /\ s \notin pack[w].saved /\ pack[w].tables[s] = NoInputs
        /\ cache' = [cache EXCEPT ![d][s] = table]
        /\ pack' = [pack EXCEPT ![w].tables[s] = table]
        /\ UNCHANGED <<run, note, package, pointer>> /\ OnlyPack

SaveStage(w, s) ==
    /\ At(w, "stages") /\ s \notin pack[w].saved /\ pack[w].tables[s] # NoInputs
    /\ Save(w, {s})
    /\ UNCHANGED <<run, cache, package, pointer>> /\ OnlyPack

\* ResearchPackExporter.write, over the files of the earlier package.
Package(w) ==
    /\ At(w, "stages") /\ pack[w].saved = Stages
    /\ package' = [package EXCEPT ![DirOf(w)] = pack[w].tables]
    /\ Then(w, "validate")
    /\ UNCHANGED <<note, cache, pointer, pack>> /\ OnlyPack

\* The quality of the package: it passes, or the run fails.
Validate(w) ==
    /\ At(w, "validate")
    /\ \E quality \in {"COMPLETED", "FAILED"} :
        /\ note' = [note EXCEPT ![DirOf(w)] = [pack[w].note EXCEPT !.status = quality]]
        /\ IF quality = "COMPLETED" THEN Then(w, "publish") ELSE Set(w, Idle)
    /\ pack' = [pack EXCEPT ![w] = NoPack]
    /\ UNCHANGED <<cache, package, pointer>> /\ OnlyPack

\* The keys of artifacts.json, and the pointer of a research job.
Publish(w) ==
    /\ At(w, "publish")
    /\ pointer' = IF run[w].job = "research"
                  THEN [dir |-> DirOf(w), cutoff |-> run[w].cutoff] ELSE pointer
    /\ Set(w, Idle)
    /\ UNCHANGED <<note, cache, package, pack>> /\ OnlyPack

\* A database that cannot be opened, or a stage that raises.
Abandon(w) ==
    /\ \/ At(w, "load")
       \/ At(w, "stages") /\ \E s \in Stages \ pack[w].saved : pack[w].tables[s] = NoInputs
    /\ Set(w, Idle)
    /\ pack' = [pack EXCEPT ![w] = NoPack]
    /\ UNCHANGED <<note, cache, package, pointer>> /\ OnlyPack

\* A kill while the package is written leaves some of its files of each.
Stop(w) ==
    /\ Kill(w)
    /\ package' \in {package} \cup
          (IF At(w, "stages") /\ pack[w].saved = Stages
           THEN {[package EXCEPT ![DirOf(w)] = [s \in Stages |->
                    IF s \in new THEN pack[w].tables[s] ELSE @[s]]] : new \in SUBSET Stages}
           ELSE {})
    /\ pack' = [pack EXCEPT ![w] = NoPack]
    /\ UNCHANGED <<note, cache, pointer>>

Pack(w) ==
    \/ Command(w) \/ CacheHit(w) \/ Open(w) \/ Load(w)
    \/ \E s \in Stages : Stage(w, s) \/ SaveStage(w, s)
    \/ Package(w) \/ Validate(w) \/ Publish(w) \/ Abandon(w) \/ Stop(w)

\* When nothing runs and no job may start, all that is left is a killed worker's
\* files.
Rest == (\A w \in Workers : run[w] = Idle) /\ UNCHANGED vars

Next ==
    \/ Tomorrow /\ UNCHANGED packVars
    \/ \E w \in Workers : Validation(w) /\ UNCHANGED packVars
    \/ \E w \in Workers : Pack(w)
    \/ Rest

Spec == Init /\ [][Next]_vars

-----------------------------------------------------------------------------
\* Properties.

\* Every variable keeps to its values, and a run downloads what it selected.
TypeOK ==
    /\ day \in Days /\ runs \in 0..MaxRuns /\ crashes \in 0..MaxCrashes
    /\ \A c \in Contents : kind[c] \in Kinds \cup {"unread"}
    /\ \A d \in Dirs :
        /\ \A r \in DOMAIN pdfs[d] : pdfs[d][r] \in Contents \cup {NoPdf}
        /\ check[d] \in {"none", "RUNNING", "COMPLETED"}
        /\ result[d].cutoff \in {0} \cup Days
        /\ exported[d].run \in -1..MaxRuns
        /\ note[d].status \in {"none", "RUNNING", "COMPLETED", "FAILED"}
        /\ note[d].stages \subseteq Stages
    /\ registered \in Dirs \cup {"none"}
    /\ \A w \in Workers :
        /\ run[w].acceptance \in Acceptances \cup {"none"}
        /\ run[w].docs \subseteq Docs /\ run[w].got \subseteq run[w].docs
        /\ pack[w].saved \subseteq Stages

\* A completed pack holds nothing but what its fingerprint names: no part is
\* left of an earlier cutoff, of other facts, or of a run that was killed.
PackOfInputs ==
    \A d \in Dirs : note[d].status = "COMPLETED" =>
        \A s \in Stages : package[d][s] = note[d].inputs

\* No completed pack uses what came out after its cutoff.
PackWithinCutoff ==
    \A d \in Dirs : note[d].status = "COMPLETED" =>
        \A f \in Used(note[d].inputs) : f.content.of.available <= note[d].inputs.cutoff

\* The pack of a research job is made from the facts of its own validation.
PackUsesItsValidation ==
    \A w \in Workers : run[w].job = "research" /\ At(w, "validate") =>
        pack[w].loaded.official = result["mode"].facts

\* The directory the pointer names holds a pack of the pointer's cutoff.
PointerMatchesPack ==
    pointer.dir # "none" => note[pointer.dir].status = "COMPLETED"
                            /\ note[pointer.dir].inputs.cutoff = pointer.cutoff

=============================================================================
