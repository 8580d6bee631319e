--------------------------- MODULE PanxBenchmark ----------------------------
(***************************************************************************)
(* The PAN-X benchmark: python -m scripts.panx_benchmark scores models on  *)
(* languages one by one and leaves a checkpoint after each.  A command     *)
(* that was stopped is given again and resumes.  Nothing keeps two of them *)
(* from working on one checkpoint directory.                               *)
(*                                                                         *)
(* A file is opened, written at its close and renamed; each is a step.  An *)
(* open file follows its inode: a rename takes it along.  Two writers of   *)
(* one inode both write from its start: the shorter leaves the tail of the *)
(* longer.                                                                 *)
(***************************************************************************)
EXTENDS PanxScores

CONSTANTS
  Runners,    \* processes
  Commits,    \* clean revisions of the repository
  Dirty,      \* a work tree that no commit identifies
  Commands,   \* the command lines given: [models, transfer, limit]
  Languages,  \* the eligible languages, in order
  RowsOf,     \* the test rows of each
  Raw,        \* what a revision's model reports on each row of a language
  Documented, \* the languages each model documents, or None for a claim of all
  BatchSize,  \* of each model
  Absent, None,
  Empty,      \* a file of no bytes, or cut short
  Mixed,      \* a file with the bytes of two writers: no JSON, as an end follows an end
  MaxEdits, MaxStops, MaxOverlaps  \* bounds

ASSUME CommandsAssumption ==
  \A c \in Commands : /\ c.limit \in Nat \ {0} /\ c.transfer \in BOOLEAN
                      /\ c.models \in Seq(DOMAIN BatchSize) /\ c.models # <<>>
ASSUME ModelsAssumption ==
  /\ Dirty \notin Commits
  /\ DOMAIN BatchSize \subseteq DOMAIN LocationLabels
  /\ \A m \in DOMAIN BatchSize : BatchSize[m] \in Nat \ {0}
ASSUME BoundsAssumption == MaxEdits \in Nat /\ MaxStops \in Nat /\ MaxOverlaps \in Nat

LanguageSet == {Languages[i] : i \in DOMAIN Languages}

\* Tags and tokens have been counted (data.py:137); a report may have any offsets.
ASSUME RowsAssumption ==
  /\ Languages \in Seq(LanguageSet) /\ Languages # <<>>
  /\ \A lang \in LanguageSet :
       /\ RowsOf[lang] \in Seq([tokens : Seq(Nat), tags : Seq(Tag)])
       /\ \A i \in DOMAIN RowsOf[lang] : Len(RowsOf[lang][i].tokens) = Len(RowsOf[lang][i].tags)
       /\ \A commit \in Commits, m \in DOMAIN BatchSize, i \in DOMAIN RowsOf[lang] :
            /\ IsFiniteSet(Raw[commit][m][lang][i])
            /\ \A x \in Raw[commit][m][lang][i] : x.span \in (Int \X Int) \cup {NoSpan}

VARIABLES
  tree,     \* the state of the work tree
  disk,     \* the files of each checkpoint directory, with their temporaries
  report,   \* report.json and report.md in the output directory
  pc, job,  \* where each runner is, and the identity it runs under
  model, language, \* positions in job.models and Languages
  offset, counts,  \* rows of the language scored so far
  results,  \* the results of the languages that are done
  file,     \* the file being written: its name and value, and where its inode is
  shared,   \* runners with a file open that another opened meanwhile, or had open
  edits, stops, overlaps,
  reported, \* history: identities whose report was written
  marred    \* history: directories that two runners shared, or where the writer
            \* of the manifest was stopped

positionVars == <<model, language, offset, counts>>
counters == <<edits, stops, overlaps>>
runVars == <<pc, job, positionVars, results, file>>
vars == <<tree, disk, report, runVars, counters, reported, marred, shared>>

Manifest == <<"snapshot", "json">>
Pairs == (DOMAIN BatchSize) \X LanguageSet
Names == {Manifest} \cup Pairs

\* Mutant: the commit is not part of the identity.
IdentityWithoutCommit(commit, command) ==
  [commit |-> Dirty, models |-> command.models, limit |-> command.limit,
   transfer |-> command.transfer]

\* _checkpoint_identity; its hash names the directory.
Identity(commit, command) ==
  [commit |-> commit, models |-> command.models, limit |-> command.limit,
   transfer |-> command.transfer]

Jobs == [commit : Commits, command : Commands]
Key(j) == Identity(j.commit, j.command)
Keys == {Key(j) : j \in Jobs}

SupportStatuses ==
  {"documented", "not_evaluated_english_only", "evaluated_multilingual_claim",
   "fine_tuned_language", "cross_lingual_transfer"}
Results == [support : SupportStatuses, evaluated : Nat, counts : Counts \cup {None}]

\* No file is taken for one that is missing or cut short, and no counts for none.
ASSUME ValuesAssumption ==
  /\ Absent # Empty /\ Mixed \notin {Absent, Empty} /\ None \notin Counts
  /\ \A x \in {Absent, Empty, Mixed} : x \notin Keys /\ x \notin Results

NoFile == [name |-> None, value |-> Absent, at |-> "closed"]

Init ==
  /\ tree \in Commits
  /\ disk = [k \in Keys |-> [n \in Names |-> [path |-> Absent, temporary |-> Absent]]]
  /\ report = [json |-> Absent, markdown |-> Absent]
  /\ pc = [r \in Runners |-> "idle"]
  /\ job = [r \in Runners |-> None]
  /\ model = [r \in Runners |-> 1] /\ language = [r \in Runners |-> 1]
  /\ offset = [r \in Runners |-> 0] /\ counts = [r \in Runners |-> NoCounts]
  /\ results = [r \in Runners |-> <<>>]
  /\ file = [r \in Runners |-> NoFile]
  /\ edits = 0 /\ stops = 0 /\ overlaps = 0
  /\ reported = {} /\ marred = {} /\ shared = {}

Goto(r, step) == pc' = [pc EXCEPT ![r] = step]
DirectoryOf(r) == Key(job[r])
Pair(r) == <<job[r].command.models[model[r]], Languages[language[r]]>>

\* The process is over, and what it held in memory with it.
Finish(r) ==
  /\ Goto(r, "idle")
  /\ job' = [job EXCEPT ![r] = None]
  /\ model' = [model EXCEPT ![r] = 1] /\ language' = [language EXCEPT ![r] = 1]
  /\ offset' = [offset EXCEPT ![r] = 0] /\ counts' = [counts EXCEPT ![r] = NoCounts]
  /\ results' = [results EXCEPT ![r] = <<>>]
  /\ file' = [file EXCEPT ![r] = NoFile]

-----------------------------------------------------------------------------
(***************************************************************************)
(* write_json_atomic.                                                      *)
(***************************************************************************)

\* r opens what these runners have open.
Share(r, others) ==
  shared' = IF others = {} THEN shared ELSE shared \cup others \cup {r}

\* What r leaves of a file when it closes it.
Left(r, value) == IF r \in shared THEN {value, Mixed} ELSE {value}

StartWrite(r, name, value) ==
  /\ file' = [file EXCEPT ![r] = [name |-> name, value |-> value, at |-> "closed"]]
  /\ Goto(r, "open")

\* Mutant: the file itself is opened, not a temporary.
OpenInPlace(r) ==
  /\ pc[r] = "open"
  /\ disk' = [disk EXCEPT ![DirectoryOf(r)][file[r].name].path = Empty]
  /\ file' = [file EXCEPT ![r].at = "path"]
  /\ Goto(r, "close")
  /\ UNCHANGED <<tree, report, job, positionVars, results, counters, reported, marred, shared>>

\* Opening for writing truncates what is there, another writer's file as well.  A
\* directory's manifests are alike, byte for byte; results differ in their timings.
OpenTemporary(r) ==
  /\ pc[r] = "open"
  /\ disk' = [disk EXCEPT ![DirectoryOf(r)][file[r].name].temporary = Empty]
  /\ file' = [file EXCEPT ![r].at = "temporary"]
  /\ Share(r, {b \in Runners \ {r} : /\ pc[b] = "close" /\ DirectoryOf(b) = DirectoryOf(r)
                                    /\ file[b].name = file[r].name /\ file[b].at = "temporary"
                                    /\ file[r].name # Manifest})
  /\ Goto(r, "close")
  /\ UNCHANGED <<tree, report, job, positionVars, results, counters, reported, marred>>

\* The file that r has open, under whatever name, comes to hold this.
Put(r, value) ==
  disk' = CASE file[r].at = "temporary" ->
                 [disk EXCEPT ![DirectoryOf(r)][file[r].name].temporary = value]
            [] file[r].at = "path" ->
                 [disk EXCEPT ![DirectoryOf(r)][file[r].name].path = value]
            [] OTHER -> disk

\* What was written reaches the file when it is closed.
CloseTemporary(r) ==
  /\ pc[r] = "close"
  /\ \E value \in Left(r, file[r].value) : Put(r, value)
  /\ shared' = shared \ {r}
  /\ Goto(r, "replace")
  /\ UNCHANGED <<tree, report, job, positionVars, results, file, counters, reported, marred>>

\* The file that another runner has open under the temporary name moves too, and
\* one that is open under the name itself loses it.
Carried(r) ==
  [b \in Runners |->
     IF /\ b # r /\ pc[b] # "idle" /\ DirectoryOf(b) = DirectoryOf(r)
        /\ file[b].name = file[r].name /\ file[b].at # "closed"
       THEN [file[b] EXCEPT !.at = IF file[b].at = "temporary" THEN "path" ELSE "gone"]
       ELSE file[b]]

\* Mutant: goes on to a model after the last one.
NextPositionPastEnd(r) ==
  IF language[r] < Len(Languages)
    THEN /\ language' = [language EXCEPT ![r] = @ + 1]
         /\ Goto(r, "language")
         /\ UNCHANGED model
    ELSE /\ language' = [language EXCEPT ![r] = 1]
         /\ model' = [model EXCEPT ![r] = @ + 1]
         /\ Goto(r, IF model[r] <= Len(job[r].command.models) THEN "model" ELSE "json")

NextPosition(r) ==
  IF language[r] < Len(Languages)
    THEN /\ language' = [language EXCEPT ![r] = @ + 1]
         /\ Goto(r, "language")
         /\ UNCHANGED model
    ELSE /\ language' = [language EXCEPT ![r] = 1]
         /\ model' = [model EXCEPT ![r] = @ + 1]
         /\ Goto(r, IF model[r] < Len(job[r].command.models) THEN "model" ELSE "json")

\* _language_results goes on to the next language, or the caller to a new model.
Advance(r, result) ==
  /\ results' = [results EXCEPT ![r] =
       [x \in (DOMAIN results[r]) \cup {Pair(r)} |-> IF x = Pair(r) THEN result ELSE results[r][x]]]
  /\ NextPosition(r)

\* Renames whatever has the temporary name; nothing there is an error.
Replace(r) ==
  LET here == disk[DirectoryOf(r)][file[r].name] IN
  /\ pc[r] = "replace"
  /\ IF here.temporary = Absent
       THEN Finish(r) /\ UNCHANGED disk
       ELSE /\ disk' = [disk EXCEPT ![DirectoryOf(r)][file[r].name] =
                          [path |-> here.temporary, temporary |-> Absent]]
            /\ file' = [Carried(r) EXCEPT ![r] = NoFile]
            /\ IF file[r].name = Manifest
                 THEN Goto(r, "model") /\ UNCHANGED <<model, language, results>>
                 ELSE Advance(r, file[r].value)
            /\ UNCHANGED <<job, offset, counts>>
  /\ UNCHANGED <<tree, report, counters, reported, marred, shared>>

-----------------------------------------------------------------------------
(***************************************************************************)
(* One run of the command.                                                 *)
(***************************************************************************)

Clash(command) ==
  command.transfer /\ \A i \in DOMAIN command.models : command.models[i] # "spacy_en"

\* main refuses a command line that asks for spaCy's transfer without spaCy, and
\* a commit that is none; then it loads the test rows.  A command whose report is
\* there is not given again.  Which idle process takes it makes no difference.
Invoke(r, command) ==
  LET j == [commit |-> tree, command |-> command]
      others == {b \in Runners : pc[b] # "idle"}
  IN
  /\ pc[r] = "idle" /\ r = CHOOSE b \in Runners : pc[b] = "idle"
  /\ others = {} \/ overlaps < MaxOverlaps
  /\ overlaps' = IF others = {} THEN overlaps ELSE overlaps + 1
  /\ ~Clash(command) /\ tree # Dirty
  /\ j \notin reported
  /\ job' = [job EXCEPT ![r] = j]
  /\ marred' = marred \cup ({Key(j)} \cap {DirectoryOf(b) : b \in others})
  /\ Goto(r, "checkpoints")
  /\ UNCHANGED <<tree, disk, report, positionVars, results, file, edits, stops, reported, shared>>

\* Mutant: the directory must be empty whatever its manifest says.
OpenNewOnly(r) ==
  LET here == disk[DirectoryOf(r)] IN
  /\ pc[r] = "checkpoints"
  /\ IF \A n \in Names : here[n] = [path |-> Absent, temporary |-> Absent]
       THEN /\ StartWrite(r, Manifest, DirectoryOf(r))
            /\ UNCHANGED <<job, positionVars, results>>
       ELSE Finish(r)
  /\ UNCHANGED <<tree, disk, report, counters, reported, marred, shared>>

\* ModelLanguageCheckpoints.__init__: a manifest must be the run's own, and
\* without one the directory must be empty.
OpenCheckpoints(r) ==
  LET here == disk[DirectoryOf(r)] IN
  /\ pc[r] = "checkpoints"
  /\ \/ /\ here[Manifest].path = DirectoryOf(r)
        /\ Goto(r, "model")
        /\ UNCHANGED <<job, positionVars, results, file>>
     \/ /\ \A n \in Names : here[n] = [path |-> Absent, temporary |-> Absent]
        /\ StartWrite(r, Manifest, DirectoryOf(r))
        /\ UNCHANGED <<job, positionVars, results>>
     \/ /\ here[Manifest].path # DirectoryOf(r)
        /\ \E n \in Names : here[n] # [path |-> Absent, temporary |-> Absent]
        /\ Finish(r)
  /\ UNCHANGED <<tree, disk, report, counters, reported, marred, shared>>

\* load_model and the warm-up: the model's weights, and one batch for nothing.
LoadModel(r) ==
  /\ pc[r] = "model"
  /\ Goto(r, "language")
  /\ UNCHANGED <<tree, disk, report, job, positionVars, results, file, counters,
                 reported, marred, shared>>

SupportStatus(m, lang, transfer) ==
  CASE m = "spacy_en" /\ lang = "en" -> "documented"
    [] m = "spacy_en" /\ lang # "en" /\ ~transfer -> "not_evaluated_english_only"
    [] m # "spacy_en" /\ Documented[m] = None -> "evaluated_multilingual_claim"
    [] m # "spacy_en" /\ Documented[m] # None /\ lang \in Documented[m] -> "fine_tuned_language"
    [] OTHER -> "cross_lingual_transfer"

Smaller(a, b) == IF a < b THEN a ELSE b

\* load_test_examples: the rows of each language, of which a command takes the
\* first, up to its limit.
AllExamples ==
  UNION {{[language |-> lang, index |-> i, example |-> ExampleFromRow(RowsOf[lang][i])]
            : i \in DOMAIN RowsOf[lang]} : lang \in LanguageSet}
ExampleCount(command, lang) == Smaller(command.limit, Len(RowsOf[lang]))
Example(lang, i) == (CHOOSE e \in AllExamples : e.language = lang /\ e.index = i).example

NotEvaluated == [support |-> "not_evaluated_english_only", evaluated |-> 0, counts |-> None]

\* load_language: the stored result, an error if it is no JSON, and otherwise a
\* result that says why there is none, or the scoring.
LoadLanguage(r) ==
  LET stored == disk[DirectoryOf(r)][Pair(r)].path
      support == SupportStatus(Pair(r)[1], Pair(r)[2], job[r].command.transfer)
  IN
  /\ pc[r] = "language"
  /\ \/ /\ stored \notin {Absent, Empty, Mixed}
        /\ Advance(r, stored)
        /\ UNCHANGED <<job, offset, counts, file>>
     \/ stored \in {Empty, Mixed} /\ Finish(r)
     \/ /\ stored = Absent
        /\ support = "not_evaluated_english_only"
        /\ StartWrite(r, Pair(r), NotEvaluated)
        /\ UNCHANGED <<job, positionVars, results>>
     \/ /\ stored = Absent
        /\ support # "not_evaluated_english_only"
        /\ Goto(r, "score")
        /\ UNCHANGED <<job, positionVars, results, file>>
  /\ UNCHANGED <<tree, disk, report, counters, reported, marred, shared>>

\* A result's ratios follow from its counts.
Result(command, pair, total) ==
  [support |-> SupportStatus(pair[1], pair[2], command.transfer),
   evaluated |-> ExampleCount(command, pair[2]), counts |-> total]

\* What a model reports on the rows of a batch, beside the example of each.
Scored(m, revision, lang, rows) ==
  {[index |-> i, example |-> Example(lang, i),
    predicted |-> PredictedSpans(m, Raw[revision][m][lang][i])] : i \in rows}

\* One batch.
ScoreBatch(r) ==
  LET m == Pair(r)[1]
      lang == Pair(r)[2]
      size == ExampleCount(job[r].command, lang)
      last == Smaller(offset[r] + BatchSize[m], size)
      total == AddCounts(counts[r],
                         Scored(m, job[r].commit, lang, offset[r] + 1 .. last))
  IN
  /\ pc[r] = "score"
  /\ IF last < size
       THEN /\ counts' = [counts EXCEPT ![r] = total]
            /\ offset' = [offset EXCEPT ![r] = last]
            /\ UNCHANGED <<pc, file>>
       ELSE /\ counts' = [counts EXCEPT ![r] = NoCounts]
            /\ offset' = [offset EXCEPT ![r] = 0]
            /\ StartWrite(r, Pair(r), Result(job[r].command, Pair(r), total))
  /\ UNCHANGED <<tree, disk, report, job, model, language, results, counters,
                 reported, marred, shared>>

\* write_reports: two files, each written in place; runs may be given one output
\* directory.  What the files say follows from the job and the rows (ReportOf).
CloseOf == [json |-> "json_close", markdown |-> "markdown_close"]

OpenReport(r) ==
  /\ pc[r] \in DOMAIN CloseOf
  /\ report' = [report EXCEPT ![pc[r]] = Empty]
  /\ Share(r, {b \in Runners \ {r} : pc[b] = CloseOf[pc[r]]})
  /\ Goto(r, CloseOf[pc[r]])
  /\ UNCHANGED <<tree, disk, job, positionVars, results, file, counters, reported, marred>>

CloseJson(r) ==
  /\ pc[r] = "json_close"
  /\ \E value \in Left(r, [job |-> job[r], rows |-> results[r]]) :
       report' = [report EXCEPT !.json = value]
  /\ shared' = shared \ {r}
  /\ Goto(r, "markdown")
  /\ UNCHANGED <<tree, disk, job, positionVars, results, file, counters, reported, marred>>

CloseMarkdown(r) ==
  /\ pc[r] = "markdown_close"
  /\ \E value \in Left(r, [job |-> job[r], rows |-> results[r]]) :
       report' = [report EXCEPT !.markdown = value]
  /\ shared' = shared \ {r}
  /\ reported' = reported \cup {job[r]}
  /\ Finish(r)
  /\ UNCHANGED <<tree, disk, counters, marred>>

\* The process is killed, or raises: a model does not load, or answers with the
\* wrong number of predictions.  A file it was writing is cut short, or mixed.
Stop(r) ==
  /\ pc[r] # "idle" /\ stops < MaxStops
  /\ stops' = stops + 1
  /\ \/ UNCHANGED <<disk, report>>
     \/ /\ r \in shared /\ pc[r] = "close"
        /\ Put(r, Mixed) /\ UNCHANGED report
     \/ /\ r \in shared /\ pc[r] = "json_close"
        /\ report' = [report EXCEPT !.json = Mixed] /\ UNCHANGED disk
     \/ /\ r \in shared /\ pc[r] = "markdown_close"
        /\ report' = [report EXCEPT !.markdown = Mixed] /\ UNCHANGED disk
  /\ shared' = shared \ {r}
  /\ marred' = marred \cup {k \in {DirectoryOf(r)} :
                              file[r].name = Manifest /\ file[r].at # "closed"}
  /\ Finish(r)
  /\ UNCHANGED <<tree, edits, overlaps, reported>>

Edit ==
  /\ edits < MaxEdits
  /\ edits' = edits + 1
  /\ tree' \in (Commits \cup {Dirty}) \ {tree}
  /\ UNCHANGED <<disk, report, runVars, stops, overlaps, reported, marred, shared>>

-----------------------------------------------------------------------------
RunStep(r) ==
  \/ OpenCheckpoints(r)
  \/ LoadModel(r)
  \/ LoadLanguage(r)
  \/ ScoreBatch(r)
  \/ OpenTemporary(r)
  \/ CloseTemporary(r)
  \/ Replace(r)
  \/ OpenReport(r)
  \/ CloseJson(r)
  \/ CloseMarkdown(r)

Next ==
  \/ \E r \in Runners, c \in Commands : Invoke(r, c)
  \/ \E r \in Runners : RunStep(r)
  \/ \E r \in Runners : Stop(r)
  \/ Edit

\* Processes that are not stopped go on, and a command is given until its report
\* is there.
Spec ==
  /\ Init /\ [][Next]_vars
  /\ WF_vars(\E r \in Runners : RunStep(r) \/ \E c \in Commands : Invoke(r, c))

-----------------------------------------------------------------------------
(***************************************************************************)
(* Properties.                                                             *)
(***************************************************************************)

\* Every variable holds what it is for.
TypeOK ==
  /\ tree \in Commits \cup {Dirty}
  /\ pc \in [Runners -> {"idle", "checkpoints", "open", "close", "replace", "model",
                         "language", "score", "json", "json_close", "markdown", "markdown_close"}]
  /\ \A r \in Runners :
       /\ pc[r] # "idle" => job[r] \in Jobs
       /\ pc[r] \in {"language", "score"} => model[r] \in DOMAIN job[r].command.models
       /\ pc[r] \in {"open", "close", "replace"} => file[r].name \in Names
       /\ DOMAIN results[r] \subseteq Pairs
  /\ \A k \in Keys : disk[k][Manifest].path \in {Absent, Empty, k}
  /\ reported \subseteq Jobs /\ marred \subseteq Keys /\ shared \subseteq Runners

\* What a run that is never stopped finds in some languages, from the tags and
\* the reports of all their rows at once.
FreshCounts(j, m, langs) ==
  LET rows == UNION {{lang} \X (1 .. ExampleCount(j.command, lang)) : lang \in langs}
      gold == UNION {{x} \X GoldSpans(RowsOf[x[1]][x[2]]) : x \in rows}
      found == UNION {{x} \X PredictedSpans(m, Raw[j.commit][m][x[1]][x[2]]) : x \in rows}
      orphans == UNION {{x} \X GoldOrphans(RowsOf[x[1]][x[2]]) : x \in rows}
      length(tokens) == StartOf(tokens, Len(tokens) + 1) - 1
  IN [tp |-> Cardinality(gold \cap found), fp |-> Cardinality(found \ gold),
      fn |-> Cardinality(gold \ found), sentences |-> Cardinality(rows),
      malformed |-> Cardinality(orphans),
      invalid |-> Cardinality({f \in found :
                                 Invalid(f[2], length(RowsOf[f[1][1]][f[1][2]].tokens))})]

Fresh(j, pair) ==
  IF pair[1] = "spacy_en" /\ pair[2] # "en" /\ ~j.command.transfer
    THEN NotEvaluated
    ELSE Result(j.command, pair, FreshCounts(j, pair[1], {pair[2]}))

Selected(command) == {command.models[i] : i \in DOMAIN command.models}

\* What the report says of each model: its languages and its totals.
ReportOf(j, rows) ==
  [m \in Selected(j.command) |->
     LET metrics == [lang \in {x \in LanguageSet : rows[<<m, x>>].counts # None} |->
                       Scores(rows[<<m, lang>>].counts)]
         matrix == IF m = "spacy_en" /\ ~j.command.transfer THEN {"en"} ELSE LanguageSet
     IN  [languages |-> {<<lang, rows[<<m, lang>>].support>> : lang \in LanguageSet},
          evaluated |-> Sum([lang \in LanguageSet |-> rows[<<m, lang>>].evaluated]),
          matrix |-> Sum([lang \in matrix \cap LanguageSet |-> Len(RowsOf[lang])]),
          micro |-> MicroScores(metrics), macro |-> MacroScores(metrics)]]

FreshResults == {[key |-> Key(j), pair |-> x, result |-> Fresh(j, x)] : j \in Jobs, x \in Pairs}
FreshRows(j) == [x \in Selected(j.command) \X LanguageSet |-> Fresh(j, x)]
FreshReports == {[job |-> j, rows |-> FreshRows(j)] : j \in Jobs}

\* Whatever was stopped, resumed, edited or run side by side, a checkpoint and a
\* report that can be read hold what one uninterrupted run of that commit and
\* command computes (checkpoint.py:26).  One with the bytes of two writers is left
\* only in a directory that two runs shared, and in a report only where runs
\* overlapped; it is never taken for a result.
ResumedLikeFresh ==
  /\ \A fresh \in FreshResults :
       disk[fresh.key][fresh.pair].path \in
         {Absent, Empty, fresh.result} \cup {x \in {Mixed} : fresh.key \in marred}
  /\ {report.json, report.markdown} \subseteq
       {Absent, Empty} \cup FreshReports \cup {x \in {Mixed} : overlaps > 0}

\* The totals of a report are those of all its sentences taken as one, and count
\* no language that a model was not run on: micro scores weigh sentences.
TotalsOfAllSentences ==
  \A written \in {report.json, report.markdown} \ {Absent, Empty, Mixed} :
    LET j == written.job IN
    \A m \in Selected(j.command) :
      LET all == ReportOf(j, written.rows)[m]
          ran == {lang \in LanguageSet : written.rows[<<m, lang>>].counts # None}
          whole == FreshCounts(j, m, ran)
      IN  /\ all.micro = Scores(whole)
          /\ all.evaluated = whole.sentences /\ whole.sentences <= all.matrix

\* A directory that no run is at work on is empty or can be resumed, unless two
\* runs shared it or the writer of its manifest was stopped: then what is left
\* refuses every later run (checkpoint.py:41).
Resumable ==
  \A k \in Keys \ marred : (\A r \in Runners : pc[r] # "idle" => DirectoryOf(r) # k) =>
    \/ \A n \in Names : disk[k][n] = [path |-> Absent, temporary |-> Absent]
    \/ /\ disk[k][Manifest] = [path |-> k, temporary |-> Absent]
       /\ \A x \in Pairs : disk[k][x].path \notin {Empty, Mixed}

\* Once the work tree stays at a commit, every command that is accepted gets its
\* report, however often its runs were stopped before.
Finishes ==
  \A c \in Commits :
    <>[](tree = c /\ marred = {}) =>
      <>(\A x \in Commands : ~Clash(x) => [commit |-> c, command |-> x] \in reported)
=============================================================================
