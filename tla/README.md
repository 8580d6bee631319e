# A TLA+ verification project for the geoparser

The geoparser finds place names in texts (a *recognizer*) and links them to
entries of a *gazetteer* (a *resolver*).  Results are rows of an SQLite
database that several threads, processes and tools may use at once; gazetteers
are SQLite files that a build pipeline produces and a running process caches;
an annotator serves a second database over HTTP; and scripts measure the whole
on benchmarks that run for hours and are resumed.  Each of these keeps state
over many calls, and most of what can go wrong lies between two of their steps.

This directory holds the TLA+ modules of those parts, the TLC configurations
that check them on small instances, and the TLAPS proofs of what matters most
for every value of the constants.

## 1. Inventory

Paths are relative to `src/geoparser/`, those of the scripts to `src/`.

| Part | State | Operations | Interacts through | Hard behaviour |
|---|---|---|---|---|
| Project store: `project/project.py`, `services/`, `context/`, `db/` | project, document, reference, referent, recognizer and resolver rows; *markers* (recognition, resolution) of what a module has processed; *contexts* that say which modules a tag shows | create and delete a project, create documents, `run_recognizer`, `run_resolver`, `get_documents`, load annotations, train | the SQLite file; every query or update is a session of its own | interleaved runs, deletion during a run, interruption between two commits, races of look-up and insert |
| Pipeline: `geoparser/geoparser.py` | none of its own | `parse`: a private project, both modules, the documents back, the project deleted | the project store | exceptions and process end between the stages |
| Modules: `modules/` | configuration, hence an identifier (`module.py`) | `predict`, `fit` | called by the services; resolvers search a gazetteer | `None` and short prediction lists, order of predictions |
| Gazetteer reader: `gazetteer/artifact.py`, `gazetteer/gazetteer.py`, `gazetteer/feature.py` | process-wide cache of open gazetteers keyed by the file's inode and time; one lazily opened read-only connection per thread | `get_gazetteer`, `find`, `search` (exact, phrase, partial, fuzzy) | the artifact file | a file replaced under open readers, tiers and limits of a search |
| Gazetteer build: `gazetteer/build/` | staging directory, downloads with sidecar metadata, extracted files, the installed artifact | acquire, load, compile, emit; install, uninstall | file system, HTTP | interruption at any file operation, fresh or stale copies, concurrent builds, memory budget arithmetic |
| Annotator server: `annotator/` | sessions, documents with a running index, toponyms | REST handlers for sessions, documents, annotations; legacy import | its own SQLite file; handlers run in a thread pool and every repository call commits | check-then-insert and read-then-write races, reindexing, partial failure of a batch |
| Annotator client: `annotator/static/annotate.js` | page state, browser storage | browser events | HTTP to the server | outdated positions and indices |
| Command line: `cli/` | none | install, list, uninstall, parse, annotator | the parts above | thin over the parts above |
| Evaluation: `evaluation.py` | none | spans, places and distances of a prediction scored against a gold standard | called on annotations that were read back | arithmetic on empty sets, spans of many documents, unplaced spans |
| Fuzzy matching: `db/functions/` | none | edit distance, phonetic code | registered in SQLite | bounds and early exits |
| Pilot: `scripts/pilot.py` | a database and a report in its output directory | run both modules on a fixed corpus, read back, delete, report | pipeline, evaluation | exceptions between the stages, the report after the deletion |
| PAN-X benchmark: `scripts/panx_benchmark/` | a manifest and a checkpoint per model and language; two report files | load, score, checkpoint, resume, report | file system, git | stops between any two file operations, another commit or command line, two commands in one directory |
| Other benchmarks: `scripts/` (`publish_*`, `recognizer_evaluation.py`, ...), `benchmark-evidence/` | checkpoints like those of PAN-X | run, publish | file system, git | as above |
| Quality tools: `scripts/` (`check_architecture.py`, `quality_gauntlet.py`, ...) | none | gates over the source tree | git, test runner | none at run time |

What makes each part correct:

* **Project store.**  No row outlives its owner; results and markers are written
  together; nothing is processed twice unless two runs overlap on it; a tag
  never shows a module whose run left items unanswered; updates of the two
  halves of a tag do not undo each other; results persist.  What was loaded into a
  project under its name is found there again and shown whole.
* **Pipeline.**  A call that does not save leaves nothing behind unless it
  raised; it answers for its own texts only; the answer is complete.
* **Resolvers.**  A reference is resolved as if it were alone and the resolver were
  new; its context is centred on it and fills the encoder.
* **Gazetteer reader.**  A query is answered by one artifact, never by a mixture
  of an old one and its replacement; a limit keeps the best-ranked candidates.
* **Gazetteer build.**  A reader sees the old artifact or the new, whole one;
  what an interrupted acquisition leaves is never taken for a complete source.
* **Annotator.**  Toponyms of a document do not overlap; the indices of a
  session's documents are 0, 1, 2, ...; annotations are not lost; a session left by
  an older version is imported once and whole before its file goes.
* **Evaluation and pilot.**  The metrics of a corpus are those of its documents
  together; answering less never improves a score.
* **PAN-X benchmark.**  A report that can be read is that of one uninterrupted run of its
  commit and command, however often it was stopped; what is left can be resumed; a command
  that is given again gets its report at last.  Only commands that overlap can leave a file
  with the bytes of two, and no run takes it for a result.

## 2. The modules

| Module | Models | Composed with |
|---|---|---|
| `ProjectStore` | the project database and the calls that fill it | – |
| `ProjectAnnotations` | scripts that open one project by name, load annotation files and read results | extends `ProjectStore` |
| `ProjectAnnotationsProofs` | theorems about it | extends `ProjectAnnotations`, `TLAPS` |
| `StatelessParse` | what `Geoparser.parse` promises, in three actions | abstract |
| `Geoparser` | `Geoparser.parse` of several clients | extends `ProjectStore`; refines `StatelessParse` |
| `Evaluation` | the metrics | operators |
| `Pilot` | the pilot, beside parses on its database | extends `Geoparser`, `Evaluation` |
| `GeoparserProofs` | theorems about the store, parses and pilots, and the refinement | extends `Pilot`, `TLAPS` |
| `AnnotatorDocuments` | uploads, imports, removals and deletion of one annotator session | – |
| `AnnotatorDocumentsProofs` | theorems about it | extends `AnnotatorDocuments`, `TLAPS` |
| `AnnotatorToponyms` | parsing and editing the toponyms of one document | – |
| `AnnotatorToponymsProofs` | theorems about it | extends `AnnotatorToponyms`, `TLAPS` |
| `Acquire` | downloads, sidecars and extraction of a gazetteer's sources | – |
| `AcquireProofs` | theorems about it | extends `Acquire`, `TLAPS` |
| `Gazetteers` | installation of a gazetteer, and the process that reads it | – |
| `GazetteersProofs` | theorems about it | extends `Gazetteers`, `TLAPS` |
| `ContextWindow` | the text a reference is embedded with | operators |
| `Resolver` | the passes, caches and training of three resolvers | extends `ContextWindow` |
| `ResolverProofs` | theorems about its caches and contexts | extends `Resolver`, `TLAPS` |
| `PanxScores` | sentences, spans and counts of the PAN-X benchmark | operators |
| `PanxBenchmark` | its commands, checkpoints and reports | extends `PanxScores` |
| `PanxBenchmarkProofs` | theorems about both | extends `PanxBenchmark`, `TLAPS` |
| `MC...` | the instances TLC checks | extend their component |

### Plan

Done, in this order: the project store and its first proofs; the pipeline with
its refinement; the two halves of the annotator; acquisition; installation and
reading; the resolver; then named projects and loaded annotations, the evaluation
under the pilot, the PAN-X benchmark with its liveness, contexts and training of
resolvers, and the imports of the annotator; then the proofs of every safety property of
the store, the pipeline, loaded annotations, the annotator, acquisition and gazetteers, and
of the resolver's caches; then those of the benchmark, its files as well as its numbers, of
the contexts of references and of the pilot's report.
What is left, most important first:

1. *More proofs.*  That `Errors` of `Evaluation` only grow when a prediction is left out.
2. *More of the system.*  Two builders at once and local sources in `Acquire`; edit
   distance and phonetic code (`db/functions/`) under the resolver's fuzzy search; the
   memory budget (`gazetteer/build/builder.py:252-430`); the engine singleton (`db/db.py`);
   settings and candidate look-up of the annotator; the alignment of a recognizer's
   spans with the text.

## 3. How the modules correspond to the code

**Steps.**  A step of a model is what no other actor can see the middle of.  For
the two databases that is one committed transaction or one `SELECT`: Python's
`sqlite3` opens a transaction at the first statement that writes, so a read
before it sees the committed state of that moment and holds nothing.  For files it is
one rename, removal or creation.  In the resolver it is the work on one reference or
one pass over all.  Where the code may raise or the process may end, there is an
action for it, which leaves what was committed or renamed before.

**`ProjectStore`.**  `projects`, `documents`, ... are the tables; `modules` stands
for the recognizer and resolver tables; `contexts` for the tag rows.  A client is
a thread or a process.  `RunRecognizer` and `RunResolver` start a call of
`Project.run_recognizer` and `run_resolver`; the steps `open` ... `tag_write` in
`pc` are its sessions: look up or insert the project, load the documents under
the tag `latest`, look up or insert the module, filter what it has processed
(`services/recognition.py:76`), predict, commit results and markers
in one transaction, and move the tag, by insert or by load and write of one
column.  A row's identifier is the run that wrote it, since a `uuid4` is not met
twice.  What a module answers is chosen from the constants `Spotted` and
`Located`, where `Unavailable` is `None` or a prediction list that is too short:
both leave no marker.

**`Geoparser`, `StatelessParse`.**  A parse runs the calls of `ProjectStore` on a
project of its own, and adds what comes before and after: the project's creation,
the texts, reading back, and `project.delete()` in the `finally` block.  Its names are
random and taken to be fresh.  The abstract parse starts, and then answers
correctly, raises, or dies; only a parse that was asked to save, or died, leaves
a project.  The refinement mapping hides the stages: an ending counts once the
parse is over.

**`ProjectAnnotations`.**  A script opens the project by its name and then does one
thing.  `LookUp` and `InsertProject` are two sessions, and nothing makes names
unique, so two scripts may create two rows (`raced` is the history of that), and a
look-up then takes either.  A load is `AddTexts`, a run of the manual recognizer and a
run of the manual resolver, which answer what the file says of a text (`GivenSpans`,
`GivenPlace`) and nothing for a text it does not have.  A document stores its text with
line ends normalised (`Normalized`, `db/models/validators.py:1`), but the manual
modules look that up among the texts as the file has them.  `view_recognizer`,
`view_resolver` and `view_documents` are the three reads of `get_documents`.  `handed`
is what the recognizer of a load was given, `loads` the loads that ended well.

**`Evaluation`, `Pilot`.**  An annotation is its document, span and place; distances are a
table, ratios pairs.  Some clients run the pilot: a parse of all its cases whose
answer becomes the report only after the project is deleted, as in the script.  The
others parse.  The metrics are computed inside the run, on whatever the interleaved calls
predicted.

**`AnnotatorDocuments`.**  A tab is a page with the documents it was loaded with.
A request takes the stored index from the page and the document at that *position*
from the server (`dependencies.py:22`).  Adding reads the highest index and inserts
in another transaction; removing deletes, then reads all documents and writes
their numbers in another.  An import writes its session, its settings, and each
document and then its toponyms, in one commit each.  A session left by an older version
keeps its identifier, so that a second import of it fails at the session row; its file is
unlinked last.  `disorder` and `raced` are history: whether a
request was overtaken between its read and its write or cut off before the
renumbering.  So are `dropped`, the imported documents a user removed, and `severed`, whether the
session was deleted during its import.

**`AnnotatorToponyms`.**  A sender has one request on its way; a page has several at once,
since it parses in the background (`annotate.js:157`) and a request goes on after the page
is left, so one page is a sender for its user, one for its parses, one for what an
earlier load of it began.  `validate_overlap` and the insert or update are
two transactions; a parse adds its mentions one transaction each and sets
`spacy_applied` last; linking under one sense per discourse copies the place
to each repeat that is not annotated, one transaction each.  A commit expires the loaded rows
and an `UPDATE` writes only the columns that changed, so two moves may mix.  A `loc_id` is a
place, the empty string of a mention not annotated (`Unlinked`), or the null that the page
sends for "No suitable location" (`NoSuitable`), which is never copied nor copied over.
The page shows edits only once a document is parsed.  `removed`, `written` and `crossed` are
history: the spans users removed, and the rows that others wrote since a request last read
them, or since it began.

**`Acquire`.**  `server` holds the version of each file; `local` and `sidecar` the
download and its `.meta`; `extracted` the members next to
the archive.  Modification times appear as the one comparison the code makes:
whether a member is newer than the archive that is there now.  A `.part` file is never
read and so is no state.  A truncated archive is no ZIP and raises.  `pins` are the
digests in the configuration; `torn` is history: archives one of whose
extractions was cut off.  A build that raises goes on to its cleanup (`leave`), which may
be cut off as well, anywhere.

**`Gazetteers`.**  A file is named by the build that created it, as its inode and
time are; `installed` is the one at the artifact's path, `temp` the one in
the build directory, which two builders share.  A reader's call is the `stat`, the
look into `_OPEN`, the opening, the store into the cache, and two queries, each of
which may open the thread's connection (`artifact.py:228`).  An open file outlives its
name.  `window` is history: what was installed during a call.

**`ContextWindow`, `Resolver`.**  A document is its cost and its sentences, and the
loop that extends a window on both sides is a recursive function.  A batch is the sequence
of its references, as each loop of the code visits them.  `method` and `tiers` are the
pass, `searched`, `contextEmbedded` and `candidateEmbedded` the caches.  An embedding is
a function of its text and of the model's `version`, so only the keys and versions of its
cache matter; what the model thinks of a context and a feature is a number chosen once.
`Fit` trains a new version and leaves the caches alone.  A search sorts by score and id,
cuts at the limit, and keeps the best tiers.  `kind` is the class: `PriorResolver` is
`Prior` and `Trimmed`, `JinaResolver` has a shortlist that a reranker orders.

**`PanxScores`, `PanxBenchmark`.**  A token is its length, a tag and a report of a
model are data, and the spans and counts are computed as in the code.  A file is opened,
closed and renamed in steps of their own; an open file is its inode, so that a rename by
another process takes it along (`Carried`).  Reports are opened and closed too, but in
place: two commands may be given one output directory.  `shared` names the runs that have a
file open which another opened meanwhile.  Each writes from the file's start, so what they
leave may be `Mixed`: results and reports hold timings, differ in length, and the shorter
text leaves the tail of the longer.  That is no JSON, as an end follows an end, so
`load_language` raises on it.  Manifests of one directory are the same bytes and do not mix.
A run stopped beside another may leave a mixed file as well.  That a file is renamed over
while it is open (`gone`) takes three processes: the proofs cover it, the run has two.
`disk` holds each directory, named by the identity of its run, `report` the two files in
the output directory, `tree` the commit of the work tree or `Dirty`.  `reported` and `marred` are history: the reports
that were written, and the directories that two processes shared or where the
writer of the manifest was stopped.

## 4. The runs

All runs have `CHECK_DEADLOCK FALSE`: every actor stops for good at its bound
(a number of calls, builds, uploads or rows) or with its last report, as users do.

| Run | Shows | Bounds, and why they are enough | States |
|---|---|---|---|
| `ProjectStoreRuns` | `TypeOK`, `RowsAnchored`, `ReferencesMarked`, `ProcessedOnce`, `ProcessedBeforeTagging` | two clients of two runs each, one project of two documents, one module of each kind: a run can overlap another, follow one that failed, and lose its project; two documents let a batch be half answered | 0.5 M |
| `ProjectStoreNoLocation` | refutes `EveryAttemptMarked` | one client | – |
| `ProjectAnnotations` | `ReferentsMarked`, `LoadsShown`, `LoadsFound`, `ColumnsIndependent` | two scripts; two rows for one name; two texts, one of them also with carriage returns, and three files of one label that have the other in common; another recognizer under the same label: loads overlap, follow each other, differ on a text, and miss one for its line ends | 1.6 M |
| `Pilot` | `ParsesDisjoint`, `AggregateOfDocuments`, `SilenceNeverPays`, `ImplementsStatelessParse`, `ResultsPersist` | a pilot of two cases that share a span, and a parse of one text, in two projects; two places half the largest distance apart: a span found or missed, every found one placed rightly, wrongly or not at all | 0.2 M |
| `AnnotatorDocuments` | `TypeOK`, `OrderlyIndices`, `LegacyImportedOnce`, `OrderKept` | two tabs; either an upload of three and one of one, or a file of two documents that is imported at most twice, or once beside an upload: removals from the middle, a retry after every failure, and an upload beside each | 1.2 M |
| `AnnotatorDocumentsTabs` | refutes `RemovesIntended` | two tabs | – |
| `AnnotatorToponyms` | `TypeOK`, `OverlapsOnlyToRaces`, `RemovalsHold`, `ParseComplete`, `LinksSurvive`, `OneSenseCompletes` | either one request at a time on a name three times, a longer span over two of them and every `loc_id`, or two at once in four small scenes: parses beside removals of the same name, edits beside those of an overlapping span, edits beside links, and links with repeats | 1.7 M |
| `Acquire` | `TypeOK`, `LoadsCurrent`, `LoadsWhole` | three builds, so that one can follow two that were cut off; an archive with two members, as directory and as file, and a plain file; two versions of one size | 5.0 M |
| `AcquireInterrupted` | refutes `ExtractionsWhole` | an archive with one target | – |
| `Gazetteers` | `TypeOK`, `InstalledWhole`, `AnswersCurrent`, `OneArtifactPerCall` | two builders and two threads; two artifacts, an old and a new one; three opened gazetteers | 1.3 M |
| `Resolver` | `TypeOK`, `ContextsCentred`, `NothingMissing`, `ResultsAlone` | two calls, batches of one or two references, one training; three spellings of which one is trimmed to another and one normalised to it, three features, two tiers, a limit that cuts a search with a tie; a document that fits the encoder and longer ones | 0.5 M |
| `PanxBenchmark` | `TypeOK`, `ResumedLikeFresh`, `TotalsOfAllSentences`, `Resumable`, `Finishes` | two processes, two commits and two command lines, one of which is refused; one edit of the work tree, one stop, one overlap; two models with batches of one and of all, two languages of which one is not every model's | 0.1 M |

Each property of a passing run has a mutant in `PROJECT.json`: a change of one
mapped definition, as a mistake in that code would be, under which TLC
finds the property violated.

**What the properties leave open on purpose.**  Some guarantees hold only without
a race or a stop at one place, and the models say which.

* Overlapping runs of one module process a document twice; `ProcessedOnce` names the
  pairs, and `LoadsShown` excuses the documents two loads processed at once.
* A file entry with carriage returns in its text annotates nothing: a load that creates the
  documents from the file ends well and leaves that one without annotations, which
  `create_documents=True` (`project.py:412`) does not let its caller expect.  An export of the annotator has
  none, as its documents are normalised too.  `LoadsShown` says that such a document shows
  nothing and stays to be processed, so that a file with the text as it is stored
  can still annotate it.
* Two scripts that create a project of one name at the same time make two
  (`LoadsFound`, `~raced`).
* Two requests on their way at once can create toponyms that overlap, and one sense per
  discourse can overwrite a link the other has just made, or miss a mention it has just
  written (`OverlapsOnlyToRaces`, `LinksSurvive`, `OneSenseCompletes`).  These may be two
  requests of one page.
* A parse that is still on its way when a user removes a mention, and has that mention still
  to store, brings it up again: the page parses a document in the background, is reloaded,
  parses it once more and is edited while the first parse goes on.  `removed` leaves out
  spans that such a parse awaits (`AwaitsStoring`), and `RemovalsHold` is about the rest.
* If the session is deleted during its import, the rest of the file arrives without
  it, and the next import brings the documents again (`~severed`; with one tab it cannot
  happen).  An import that was cut off after the session's row is refused for ever after,
  with an integrity error: nothing is lost, as the file stays, but
  `LegacyImportedOnce` says only that it is not imported twice.
* Two commands in one checkpoint directory, or a stop during the writing of its
  manifest, can leave a directory that every later run refuses (`Resumable`, `marred`), and
  two in one checkpoint or output directory a file with the bytes of both
  (`ResumedLikeFresh`, `Mixed`).  The output directory is named by the time unless
  `--output-dir` names it.
* What was embedded before a training is compared with what was embedded after
  it (`ResultsAlone`, `Fresh`), until the caches are cleared.
* Two builds of one gazetteer can install a file that the other is still
  writing, which stays half a file if that one is then killed: `InstalledWhole` has the
  condition `~overlapped`, and without it TLC finds the behaviour in ten
  steps.  The documentation promises nothing for overlapping builds.

**Findings.**

* `ProjectStoreNoLocation`: a resolver that finds no location leaves no marker
  (`services/resolution.py:258`), although the docstring of the marker says
  it tracks processed references "even if no locations were found".
* `AnnotatorDocumentsTabs`: a page that was loaded before another tab changed the
  session removes a document it did not show (`annotator/dependencies.py:22`).
* `AcquireInterrupted`: an extraction that was cut off in its target leaves half a file
  that is newer than the archive, and the next build loads it
  (`gazetteer/build/stages/acquire.py:404`).

**Fairness.**  `PanxBenchmark` assumes weak fairness of one action: that a process takes
its next step, or that a command is given.  The first half is what an operating system
does for a process that is not stopped, as no step of a command waits for anything;
the second is the user, for whom a run is kept resumable (`checkpoint.py:26`), and who
gives the command again until the report is there.  Stops are not fair, and bounded: a command that
is stopped for ever is promised nothing.  `Finishes` then says that what stops leave behind
never keeps a later run from its end, except in a directory that is `marred`.  The other
models assume no fairness.  Nothing in those parts loops until something
happens or waits for another: a call ends after a bounded number of steps or
raises, and what it leaves undone waits for a user to ask again.  Their properties are
about what steps do, none about what must come.

## 5. What is proved

TLC checks small instances; the theorems below hold for every value of the constants that
meets the named assumptions of the modules, so for any number of clients, tabs, requests, builders,
threads, documents and calls.  Each safety theorem follows one line: the property is part
of an inductive invariant, which TLC has checked on the run's instance, `Init`
implies it, every action preserves it, and the last step is temporal.

**`GeoparserProofs`** extends `Pilot`, and so speaks of the store, of parses, of pilots and of
all of them at once.  Of the store it assumes that no identifier is both a recognizer's and a
resolver's, that a document has one home, and that `Unavailable` is no prediction.

| Theorem | Establishes |
|---|---|
| `TypeCorrect` | `TypeOK` |
| `ReferencesAlwaysMarked`, `ReferentsAlwaysMarked` | results and markers appear together |
| `AlwaysAnchored` | no row outlives its owner |
| `AlwaysProcessedOnce` | two markers of one pair come from two runs that had it in their batches at once |
| `LoneClientProcessesOnce` | a lone client never processes anything twice, however it repeats and interrupts its runs |
| `AlwaysProcessedBeforeTagging` | a tag moves to a module once the module has answered for every item it loaded that is still there |
| `ResultsAlwaysPersist` | nothing but the deletion of its own project removes a result |
| `ColumnsAlwaysIndependent` | a run moves its own column of its own tag, and no other |

*Markers.*  Four lemmas sort the steps by what they do to result rows: nothing, a
recognizer's commit, a resolver's commit, a deletion (`StepKinds`).  The markers are
then preserved by each kind.
*Anchors.*  `RowsAnchored` is not inductive: a commit inserts rows with the module of
its call, and nothing in the rows says that the module has a row.  `AnchorInv`
adds `CallsRegistered`: a call past `ensure_module_record` has its module's row,
and module rows are never deleted.  That the project is still there is checked by the
commit itself, by its foreign keys.
*Once.*  `ProcessedOnce` is not inductive either: a commit would write a second
marker if its batch held an item that was marked meanwhile.  `OnceInv` adds
`BatchesGuarded`: an item in the batch of a call that is about to commit, and that
has a marker or is in the batch of a rival, is contended.  The filter step
establishes it, since it drops marked items and records what it shares with rivals
(`FilterGuards`), and a commit preserves it for the others (`CommitGuarded`).
*Tagging.*  What a call has loaded stays stored, or its project is deleted for good
(`Spared`); so an item the filter dropped keeps its marker, and at the commit the rest of
the items is in the batch (`WorkAnswered`).

Of parses it assumes further that `None` is no job.

| Theorem | Establishes |
|---|---|
| `ParsesAlwaysDisjoint` | parses never have an item in common, and nothing is contended for |
| `ParseKeepsItsPromise` | `ParseSpec` implements `StatelessParse` |
| `ParsesKeepResults` | no step of a parse takes a result of another project |
| `PilotsAreParses` | all of these hold under `PilotSpec` |
| `AggregatesAlwaysAdd` | `AggregateOfDocuments` |

*Refinement.*  The mapping hides the stages, so a step must map to a start, an end or a stutter
of the abstract parse.  That an answer is right is established by the read back, long after
the rows were written, and must survive the other parses.  `ParseInv` says of
each parse that its project is live and nobody else's (`Holds`, `Apart`), that its
calls work on all of its texts (`Loads`), that the project's rows are one complete
prediction of its modules as soon as the commit is done, and nothing before (`Stores`), and that the tag
shows the modules that have run (`Names`).  One group of lemmas shows that a step of another
client leaves all rows of the project alone (`CallConfined`, `DeletionConfined`,
`OthersSpared`), the other that each stage hands the next what it needs.  That nothing is
contended for (`StoreInv`) makes the store's `OnceInv` yield a single marker.
*Reports.*  The metrics are over sets of spans, the corpus total over all documents.  `Reported`
says that a report was built of finitely many predictions on the pilot's cases: that is
what the refinement's `Correct` says of a parse that is about to return, whose texts are the cases
(`PilotJobs`).  Each span then counts in the case it is qualified by and in no other
(`CountedByCase`).  The cases, the gold standard and every prediction are assumed finite, since
they are lists in the code.

**`ProjectAnnotationsProofs`** assumes that labels are tags with manual modules of their own,
that a file is a sequence of texts with toponyms, and that a script that runs a
recognizer runs none of a label's (only `load_annotations` constructs those).

| Theorem | Establishes |
|---|---|
| `LoadsAlwaysFound` | `LoadsFound` |
| `LoadsAlwaysShown` | `LoadsShown`: a label shows one file's annotations of a document whole, or none if no file has the text that is stored |
| `ReferentsAlwaysMarked`, `ColumnsAlwaysIndependent` | the store's promises, with named projects and repeated loads |

*Shown whole.*  What a view shows was written by two runs of one load, between which others
may have loaded the same text under the same label.  `WholeInv`: the rows that a label's
recognizer has left of a document are those of one file, unless two runs held it at once,
because a run that finds the marker does not take the document up again (`GuardInv`).
`MarkingInv` and `LinkingInv` carry what a load has achieved from step to step: its documents
are all marked when the recognizer is through, so its resolver gets every reference that
should be linked.  The lemma `Lasting` is the heart of it: a reference that comes to a
marked document later means that two runs held the document.  `CreationInv` says that at
most one script is creating the project as long as none have raced.

**`AnnotatorDocumentsProofs`** assumes that documents are distinct, and that no upload
is an import.

| Theorem | Establishes |
|---|---|
| `TypeCorrect` | `TypeOK` |
| `AlwaysOrderly` | `OrderlyIndices` |
| `OrderAlwaysKept` | `OrderKept` |
| `LegacyAlwaysImportedOnce` | `LegacyImportedOnce` |

*Order.*  A request writes what it read a step before, so `ReadingInv` says that the highest
index, or the ranks, it has read are still those of the rows unless it was overtaken.
*Imports.*  `ApartInv`: no document is stored twice or on its way twice.  `ProgressInv`: what an
import is through with is stored whole or was dropped.  `ImportInv`: while the session was never
deleted under it, at most one import fills it.  The attempt to prove this with three tabs
corrected the model (`Accepts`): the session's row is refused to a legacy import while the
row is there, and a file that a user sends makes a session of its own, which is this one only
if it is the first.

**`AnnotatorToponymsProofs`** assumes finitely many senders, that a mention is not empty, that
spaCy's mentions do not overlap, and that neither loc_id without a place is one.

| Theorem | Establishes |
|---|---|
| `TypeCorrect` | `TypeOK`, and that an identifier is of one row |
| `OverlapsAlwaysRaces`, `LinksAlwaysSurvive` | overlaps and overwritten choices come from rows that another request wrote since this one read them |
| `RemovalsAlwaysHold`, `ParsesAlwaysComplete`, `OneSenseAlwaysCompletes` | whatever requests are on their way, removed spans stay out, a parse that is marked as done is complete, and a link reaches every repeat that nobody else wrote |

*Races.*  `RaceInv`: what a request has read of the rows still holds, of the rows that no
other request has written since.  *Parses.*  `ParsesInv`: no row and no mention that a parse
has yet to store has a removed span; a mention the parse found is stored or in its
queue until the document counts as parsed, as nothing is edited before.  *Copies.*
`CopiesInv`: every repeat that is not annotated, and that no other request wrote, is in the
list or about to be written, and the row it is copied from is the one that was read.

**`AcquireProofs`** assumes that versions are numbered, that an archive's members are
distinct, and that a source in an archive names something in it.

| Theorem | Establishes |
|---|---|
| `TypeCorrect` | `TypeOK` |
| `AlwaysLoadsCurrent` | `LoadsCurrent` |
| `AlwaysLoadsWhole` | `LoadsWhole` |

*The cache.*  The properties are about what is loaded at the end of a build; what earlier
builds have left is described by `CacheInv`: a sidecar never names a later version than the
copy next to it, what is newer than an archive was extracted from it, and a directory is
complete unless an extraction was cut off.  `CopyInv` says that from its publication on the
copy at hand is the pinned one, or one the server had during this build.

**`GazetteersProofs`** assumes nothing but the bounds.

| Theorem | Establishes |
|---|---|
| `TypeCorrect` | `TypeOK` |
| `AlwaysInstalledWhole` | while no two builds overlap, only finished artifacts are installed |
| `AnswersAlwaysCurrent` | every answer of a call was installed at some moment of the call |
| `AlwaysOneArtifactPerCall` | all answers of a call come from one artifact |

*Installed whole.*  `Install` moves whatever file has the temporary name, so
`InstalledWhole` is not inductive.  `InstallInv` adds, for as long as no builds have
overlapped, that at most one builder is at work (`AtWork`), that the file at the
temporary name is its own while it writes, and that it is finished when it is about to be moved
(`OwnFile`).  The readers change none of this.
*Answers.*  Files are created, renamed and installed in one order, even if builds overlap
(`FilesOrdered`), so nothing a reader remembers is newer than the installed artifact
(`RememberedOld`).  A connection of a cached object is not older than the object's stamp, since
the stamp was read first (`StampsFirst`), so a connection that a call finds in an object of its own
stamp is that artifact (`CallSound`).

**`ResolverProofs`** assumes only the types of the search's constants, and that each sentence
has its span and what it costs.

| Theorem | Establishes |
|---|---|
| `NothingEverMissing` | `NothingMissing` |
| `SearchesAlwaysAlone` | what a search finds through the cache is what `FoundAlone`, the reference definition of `ResultsAlone`, finds without one |
| `ContextsAlwaysCentred` | `ContextsCentred` |

*Caches.*  `EmbeddedInv`: from the gathering on, the contexts of the batch are in the cache;
candidates are added for every reference that has no result, and only those are
compared.  `SearchedInv`: whatever is cached under a key is what the gazetteer answers to it, so the
first spelling that finds something is the same with and without the cache.
*Contexts.*  `expand_window` is proved for every document by an induction on its rounds
(`Round`, `WindowExpands`).  The loop keeps the window `Around` its sentence, with what is left
of the limit, and `Even`: a side is shorter only where its next sentence did not fit while
the sides were even.  It stays so because a wider window never costs less (`WiderCosts`), so a
sentence that did not fit once never will.  A round that takes nothing leaves a window that
is `Stuck`; else the window has as many sentences as there were rounds, so after as many
rounds as the document has sentences it must be stuck, as the comment at `context.py:119`
claims.  The cost of a window is the number of its tokens, a set that grows with it, which
spares a second recursive definition.

**`PanxBenchmarkProofs`** assumes that batches and limits are positive, that tokens and tags
of a row are counted (`data.py:137`), that a report is a finite set of labelled spans, that a
dirty work tree is no commit, and that no result and no identity is taken for a missing
file, one cut short or a mixed one (`ValuesAssumption`).

| Theorem | Establishes |
|---|---|
| `TypesHold` | `TypeOK` |
| `RowExample` | the loop over the tags of a row finds the runs of location tags, well formed or not, with their offsets |
| `BatchMore` | a batch adds the counts of its rows, whatever the batch size and the report |
| `TotalIsFresh` | the sums over languages are the counts of all sentences together |
| `DataSafe` | the inductive invariant of the files, of what runs have in memory and of the runs that share a file |
| `DirectorySafe` | the inductive invariant of directories that were not shared |
| `ResumesRight` | `ResumedLikeFresh` |
| `TotalsRight` | `TotalsOfAllSentences` |
| `Resumes` | `Resumable` |

*Loops.*  TLAPS cannot use the induction rules of its library, whose parameter is an
operator, nor unfold a recursive function.  Both are proved here once, for what the module needs:
`LeastNumber` (a set of numbers has a least one) gives `Induct`, induction over the set of
numbers at which something holds, and `Recursion` builds the function that follows a step, so
that the `CHOOSE` behind a recursive definition has a value.  `ConsumeTag` is then the loop
invariant of `_span_from_tags`: after `i` tags the state holds the runs that ended and the
one that is open.
*Sums.*  Counts are numbers of members of disjoint families (`FamilySplit`, `SumCounts`): every
match or miss belongs to one row of one language.  Rows before and in a batch share
nothing, so a batch adds its part, and languages share nothing, so totals are those of
one corpus.
*Files.*  Two commands in one directory open the same temporary, and a rename takes away what the
other is still writing.  So no runner can be said to own a file.  `FilesRight` says of
every file, under its own name or its temporary one, that it is missing, empty, the right
value of that name, or mixed if it is no manifest, and `RunnerRight` of every run that its counts are those of the rows it
has passed and its results those of the pairs it has passed.  A step of one run keeps
the others right because they are about their own job alone (`SteadyRight`), and the
files because whoever writes under a name writes the one right value (`WholeFiles`), or
mixes it with another's.  A mixed file is never taken into memory, as it cannot be read.
`ShareInv` says that runs have a file open together only where they overlapped, and a
checkpoint only in a directory that is marred.
*Directories.*  `DirectoryInv` says of a directory that was never shared and whose manifest was not
cut off: at most one run is in it (`Alone`), the directory fits what this run is doing (`AtWork`),
and without a run it is blank or ready (`AtRest`).  A stop may come between any two steps;
`StopSettles` shows that what it leaves is blank or ready all the same.  `ResumesRight` needs
both invariants: `FilesRight` leaves a checkpoint the choice between right and mixed, and
`DirectoryInv` excludes mixed ones where no two runs met (`NeverMixed`).

**Only model-checked.**

* `TypeOK` of `Resolver` and the rest of `ResultsAlone` (the order of candidates and the
  choice among them): they rest on `SelectSeq` and sorting, which the provers do not know.
* `SilenceNeverPays`: the metrics are order statistics of sorted errors, for which the
  same holds.
* `Finishes`: liveness under fairness is out of the prover's reach.

## 6. What is not modelled

* *Neural models, tokenizers, spaCy*: their answers are constants, or choices.
* *SQL inside DuckDB and SQLite*: loading, projecting and emitting rows; how the
  full-text index matches a name.  The order, tiers and limit around a match are in
  `Resolver`.
* *Recognizers*: adapters of spaCy, GLiNER2 and Otter, a pure function each over what a
  neural model returns; the services see an answer, `None` or no answer, which
  `ProjectStore` has.  Training them, and `train_recognizer` and `train_resolver`, which
  read results and write nothing to the store.
* *Progress display, command line, templates, quality tools*: no state that others
  share, or not part of the running program.
* *Other benchmarks*: they keep checkpoints as PAN-X does, with other data.  Of
  PAN-X and the pilot, hardware facts, timings and the rendering of reports are left out.
* *Timeouts and locks of SQLite*: a transaction that cannot get its lock raises,
  which every model allows at each step.
* *Power loss*: renames and commits are taken to survive.  A server that goes back to
  an old version of a file is not modelled either; `Acquire` has it move forward only.
* In `Acquire`, two builders at once, local source paths, and a
  plain file that nothing vouches for (no declared size, no digest).  In
  `AnnotatorToponyms`, changes of the settings and candidate look-up.  In
  `Gazetteers`, the staging database, whose loss only makes a build raise, and the names of
  a feature that are read after the call (`feature.py:94-102`).  In `Resolver`, an encoder
  that answers with fewer vectors than it was given texts
  (`sentencetransformer.py:605` pairs what there is).
