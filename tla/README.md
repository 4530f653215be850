# vmgather: a TLA+ development of its exports and imports

vmgather collects metrics from a VictoriaMetrics backend into a support bundle (an *export*), and its companion vmimporter
streams such a bundle into another backend (an *import*). Both are a Go server with a browser client. This directory models
what is stateful and hard to test in them, checks the models with TLC on small instances, and proves the properties that
matter most with TLAPS for all instances. Every definition of a model is translated from the code; `PROJECT.json` names the
lines (`map`), what can go wrong where (`hazards`), the runs with the properties they check, and for each property a mutated
definition, kept beside the original, under which it fails.

## Inventory

| Component | Code | State | Operations | Modelled in |
|---|---|---|---|---|
| Export job manager | `internal/server/export_jobs.go`, handlers in `internal/server/server.go` | map of jobs (status, resume index, bases, cancel function), counter of slots | start, resume, cancel, evict; goroutine `runJob` with progress callbacks | `ExportLifecycle`, `ExportJobs` |
| Export pipeline | `services/export_service.go` (`ExecuteExport`), `archive/writer.go` | staging file, metrics count, archive | initialize, append a batch, make the archive | `ExportStaging` (on top of `ExportJobs`) |
| Adaptive window export | `services/export_service.go` (`exportWindowAdaptive`), `export_defaults.go` | attempt under way, nested split files, sampling record | succeed, fall back to `query_range`, split by job or time, coarser step, give up | `AdaptiveExport` |
| Batch windows | `services/batching.go`, `exportViaQueryRange` | list of windows, cursors | cut a window, query a chunk | `BatchWindows` |
| Obfuscation | `obfuscation/obfuscator.go`, its use in `ExecuteExport` | alias maps and counters | rename the labels of a metric; new obfuscator per run | `Obfuscation` |
| Bundle import | `internal/importer/server/server.go` | job, offsets, chunk, temporary files | upload, resume, extract, scan, post a chunk, fail, complete, clean up | `ImportJobs` |
| Preflight, retention, verification | importer `server.go` (`analyzeBundle`, `streamImport`, `verifyImport`, ...) | request in progress, summaries, temporary files | analyze, upload, trim, normalize, shift, count, verify | `ImportPoints`, `ImportPreflight`, `Importer` |
| Recent profiles | importer `server.go` (`saveRecentProfile`, ...) | list of ten per process, one file for all | save, persist, load at the start | `RecentProfiles`, `Importer` |
| Export ids and names | `generateExportID`, `CreateArchive` | names of files | name, create | not modelled |
| Browser clients | `internal/server/static/app.js`, `internal/importer/server/static/app.js` | job shown, timer, buttons | start, poll, cancel, resume | not modelled; their requests are, in any order |
| Backend client, error kinds | `internal/infrastructure/vm` | none | requests | not modelled; their outcomes are the environment's choices in `AdaptiveExport` |
| Discovery, samples, other handlers | `vm_service.go`, `server.go` | none | stateless requests | not modelled |
| Command line, build, test environment | `cmd`, `build`, `local-test-env` | none | start-up and tooling | not modelled |

How they interact: a handler calls `StartJob` or `ResumeJob`, which take a slot and start the goroutine `runJob`. It calls
`ExecuteExport`, which cuts the range into windows, exports each window through `exportWindowAdaptive` (with one obfuscator for
the whole run) into an attempt file, appends that to the job's staging file, and reports the batch back into the job by a
callback. A cancel only cancels the goroutine's context. A job that failed or was canceled keeps its staging file; a resume
starts another goroutine at the first batch that is not complete. The importer has the same shape, with byte offsets for
batches; its preflight reads a bundle with the same functions as an import, in another order, and each of its requests saves
its connection settings first. All shared state is behind one mutex per server, so handlers and callbacks are atomic and
everything between two of them interleaves. Several importer processes of one user share the file of recent profiles.

What is hard, and what makes each part correct:

* *Job manager.* Starts, resumes, cancels, ends and evictions in any order. Correct if slots are accounted for, a job has at
  most one goroutine, nothing is written into a job by an earlier run, progress is never lost, and every job ends.
* *Pipeline.* Failures and cancels between appending a batch and the next, failures within an append, a failure of the archive
  alone. Correct if a resume skips exactly what the file holds, and the archive has every batch once.
* *Adaptive export.* Recursion over the backend's refusals. Correct if it ends, if a window is appended as a whole or not at
  all, and if the metadata owns up to sampling.
* *Windows.* Boundaries, clamps, empty and inverted ranges. Correct if windows tile the range and samples leave no gap.
* *Obfuscation.* One obfuscator for a run, several runs for an archive, attempts that are thrown away. Correct if aliases are
  distinct and stable in what a file shows.
* *Import.* Requests that fail after they were taken in, line breaks whose length is not known, two resumes at once, files
  removed by deferred calls. Correct if nothing is lost, nothing is delivered twice where that can be known, one goroutine
  works at a time, and its files are there.
* *Preflight.* Units that are guessed, cutoffs that move with the clock, durations that wrap around. Correct if the preflight
  predicts the import, what is sent is in milliseconds and not too old, the verification looks where the points went, and no
  temporary file outlives its request or job.
* *Recent profiles.* Torn writes, crashes, two processes and one temporary file. Correct if the file is one complete list
  whenever the last save was alone, whatever others have made of it, and the settings of a request survive what becomes of it.

## The modules

A module extends standard modules only (and `SequencesExt`, in `ImportPoints`). An `MC<module>` gives small values to its
constants; a `.cfg` is a run; `<module>Proofs` has its theorems.

**ExportLifecycle** is the contract of the manager towards its clients: a job is absent, active or over; only a job that
failed or was canceled becomes active again; an active job ends. **ExportJobs** implements it. `job` is the map
(`resumeFrom`, `baseMetrics`, `cancel` as in `exportJob`; `timed` stands for `durationTotal`: how many batches it is the sum of),
`activeJobs` the slot counter, and `run` the goroutines, with where they are (`at`) and the values they copied. Handlers are
one action each since they hold the lock; a goroutine takes one step per critical section or call: `ReadBase` is the copy
under the read lock, `MarkRunning`, `ReportBatch` (the callback, `updateBatch`) and `MarkFinished` are the later sections.
The number of batches of a job is a constant (`Windows`), and each counts for one metric. `Age` lets the retention period of a
job pass; the eviction itself happens, as in the code, in the next `StartJob`.

**ExportStaging** extends the actions of ExportJobs that touch a file, and leaves files unchanged in the others. A staging
file is a sequence of entries, one per appended batch, with whether it is whole or what a failed append left of it. Whether the
disk may fail is chosen initially and then fixed (`diskFaults`).

**AdaptiveExport** is one call of `exportWindowAdaptive`. The recursion is a stack of frames, each a call of
`runSplitAttemptsAtomically`: the attempt it was split from (`split`), the attempts still to do (`todo`), and the split file
so far (`file`). What an attempt writes is represented by the attempt: its jobs, its range, and the step it was sampled at
(`Written`). That is the step asked for, raised to `MinStep` (30 seconds in the code, `determineQueryRangeStep`); what is noted
for the metadata is the step asked for. The backend chooses every outcome.

**BatchWindows** has the two loops that cut time: windows of batches, and the chunks of `query_range`. Each iteration is a step.

**Obfuscation** has the maps and counters of the obfuscator. Aliases are kept as what their formats are made of; the digest
of an instance without a port is taken to be unique. The comment at `obfuscator.go:56` says that the modulo is there "to cycle
through 777.777.1.1-777.777.255.255"; only the fourth octet cycles, the third counts on beyond 255, and so does `Address`:
addresses do not wrap around, and do not collide. It records which labels the attempt and the staging file show, and as what.

**ImportJobs** is one job of the importer (jobs share nothing but the lock of the map). The bundle is a sequence of lines with
their lengths and line breaks, offsets are in bytes and counted as `streamImport` counts them (the length of the line without
its break, plus one), so that with CR LF a resume seeks into the middle of a line. `delivered` counts for the target how often
it took in each line. Whether answers may be lost is chosen initially (`lossy`); `resumed` remembers whether there was a resume,
which decides what is left of a zip.

**ImportPoints** has the pure functions of a line of a bundle, with its labels as a function from names to values: the unit of its timestamps is guessed from the one in the middle
(`Normalize`), points older than a cutoff and labels are dropped, timestamps are shifted. `ImportLine` and `AnalyzeLine` put
them together in the orders of `streamImport` and `analyzeBundle`. **ImportPreflight** is the requests about one bundle built
on them: `handleAnalyze` with its sample or full pass, `handleUpload`, the import as one step with its range, its counts and
its verification, the cutoff computed from what the target says of its retention (with the overflow of a `time.Duration`),
and the temporary files each of them makes and removes. The verification looks for the name of the first line sent that has
one (`MetricName`), with labels of the first line sent (`FirstSubsets`, any three if none is a preferred one), and for nothing
if no line has a name; the target is taken to have what it was sent and nothing else (`Seen`). Values that need escaping in a
selector are left out: there the query is an error, which `VerifyImport` has among its outcomes. All lines of a bundle are in one chunk here (`ImportJobs` has the
chunks). Timestamps are those of dates: what is computed with them fits into 64 bits (`WidthAssumption`); Go would wrap around,
and the model does not. The clock advances between steps, so that a preflight and the import
after it may see different cutoffs.

**RecentProfiles** is the list of each importer process and the file they share, at the level of the file system: two paths
that name inodes, so that a process that has opened the temporary file writes on into a file that another one has renamed.
The file found at first may be another version's: longer than the
limit, with repeats, and with entries without an ID, which get one when they are loaded (`Rebuilt`). `whole` remembers whether
the save that was renamed last had the temporary file to itself. Saves fail and processes crash at any point. **Importer** composes both: the process that serves the requests about the bundle
(`Here`) saves their settings on the way, holding the handler up; it serves other requests too, and other processes save what
they like. `since` remembers which profiles this process has saved after those of the request. When the process ends its
requests and jobs are gone, but not their temporary files: only deferred calls remove those, so they move to `left`, where
nothing ever removes them.

## Runs

| Run | What it asks | Bounds |
|---|---|---|
| `exportjobs` | `TypeOK`, `SlotAccounting`, `BoundedRuns`, `RunOwnsItsJob`, `BaseNotStale`, `ResumeCountsOnce`, `ProgressKept`, `JobEnds`, and `ImplementsLifecycle` (refinement, with its fairness) | two jobs of two batches and one, two slots, three goroutine identities, `MetricsBound` 2, no symmetry |
| `exportjobs_doublecount` | violated: `NoDoubleCount` | the same on one slot |
| `staging` | `StagingTypeOK`, `StagingIsProgress`, `NoBatchSkipped` | a job of three batches next to one of one; disks with and without faults; `FileBound` 2 |
| `staging_torn` | violated: `RetriesLeaveNoTrace` | one job |
| `staging_total` | violated: `TotalMetricsIsTotal` | one job |
| `adaptive` | `TypeOK`, `WindowIsAtomic`, `SamplingIsRecorded`, `WindowEnds` | a window of five units, two jobs, four configurations, steps of one to three with `MinStep` 2 |
| `batchwindows` | `TypeOK`, `WindowsTile`, `WindowsBounded`, `DuplicatesNotGaps`, `Ends` | ranges of -1 to 14 units with five intervals and five steps |
| `obfuscation` | `TypeOK`, `AliasesDistinct`, `AliasesStable` | four instances, octets of two values, one resume |
| `obfuscation_resumed` | violated: `ArchiveCorrelates` | the same |
| `import` | `TypeOK`, `NothingLost`, `OffsetNotAhead`, `DeliveredOnce`, `OneWorks`, `BundleKept`, `CleanedUp`, `JobSettles` | seven bundles of up to six lines in chunks of two, zipped or not; `DeliveryBound` 1 |
| `importer` | `TypeOK`, `ListIsRecent`, `FileIsLastSave`, `SettingsRetained`, `PreflightPredicts`, `SentIsTrimmed`, `WindowCoversImport`, `FilesHaveOwners` | sixteen combinations of a bundle, settings and a target; two processes, three profiles, lists of two; `SaveBound` 3, `CrashBound` 1, a clock of two values; `Bounded` |
| `importer_shift` | violated: `ShiftIntoRetention` | one bundle from before the retention |

Why the bounds are enough. The manager's actions involve one job and at most one other that competes for its slot or is
evicted; with one goroutine identity more than slots a run too many would be seen. `MetricsBound` stops resumes once a job has
counted more metrics than that, which only the double count below reaches. In `staging` three batches give a first, a middle
and a last one, and `FileBound` stops appends from failing (not from succeeding) once the file has more entries. A window of
five units splits unevenly, and twice. In `import` two lines make a chunk, so that bundles have full chunks, a rest, and lines
between two chunks that are skipped; `DeliveryBound` stops resumes once a line was delivered more often than that.
`ResumeBound` allows for one resume: all it takes to have output of two runs in one file.

In `importer` a second has ten milliseconds (`Thousand`), and the thresholds of the units are scaled with it, so that times
from 100 to 999 are milliseconds. The clock stands at 600 or 601, a retention of a day is 100, and the bundles have points
on either side of the cutoff and on it, in every unit, in several at once, below the smallest (and shifted to before 1970),
without labels, with values that do not parse, and with values and timestamps that do not pair up; the targets announce retentions in one unit or
several, too long for a `time.Duration`, or by the other of two endpoints. Lines come with and without a name, with preferred
labels, with four others of which three are chosen, and after lines of other names. Three saves and a crash are enough for a
list of two to fill, to overflow and to lose a profile (the file a process finds, `Legacy`, is longer, repeats a profile and has
one without an ID), for two processes to have the temporary file open at once, for one to die with it, and for a third save to
heal what they left; `MaxRecentProfiles` is 2 for the code's 10. What a bundle holds and who saves profiles have little to do
with each other, so the constraint `Bounded` keeps them apart: in the scenario whose endpoint does not resolve (`Lost`) both
processes run and save anything, at one time of the clock; in the others only `Here` runs, and saves the profile of the requests
about the bundle do. The three inodes are interchangeable; symmetry
is used there and for the goroutines of `staging` only, where nothing but safety is checked.

Deadlock is checked in the runs about the manager. The other models are of one job, window, export or bundle, which may be
over.

Fairness. `RunStep` of each goroutine is weakly fair: no lock is held across I/O, every request of an export has a
per-batch timeout (`export_service.go:512`), and every request of an import has the timeout of the client
(`importerHTTPTimeout`). Starts, resumes, cancels, the passing of the retention period and failures are never fair: clients
may stop. In `AdaptiveExport` and `BatchWindows` the one goroutine is fair. `Importer` states safety only.

## What the runs show

Slots never leak and are never freed twice, and at most `MaxConcurrent` goroutines run, whatever order clients and goroutines
act in. A job is written only by its own goroutine. What a resume skips is what the staging file holds. A window is appended as
a whole, and splits, fallbacks and steps come to an end. Offsets of an import never run ahead of what was delivered. For a
bundle in milliseconds a full preflight counts what the import with the same cutoff then sends, drops and skips; in other units
it errs, to the side `PreflightPredicts` says. The verification of an import finds what was sent if the first line sent has a
name. The file of recent profiles is a complete list if its last save was alone with the temporary file: two processes that save
at once may leave it torn (it then loads as no list), and the next save that is alone puts it right.

Nine statements of the repository are not what the code does (`findings`). Five were found as violations:

* *Resume with no batch left.* If the archive fails after the last batch, `ResumeFromBatch` equals the number of windows,
  which `ExecuteExport` takes for out of range: every batch is exported again, `MetricsProcessed` counts it twice, and, since the
  staging file is preserved, so does the archive. The changelog says that resumed exports do not double-count.
* *A failed append.* What `appendFile` has copied before it fails stays in the staging file, and a resume appends the batch again
  behind it. The changelog says that staging output is not corrupted or duplicated after retries.
* *Obfuscation over a resume.* Every run has an obfuscator of its own, but the archive has the output of all runs. The
  architecture document says that one input maps to one output.
* *Total metrics.* The metadata and the README of a resumed job's archive count the batches of the last run only.
* *Shift into the retention.* The importer drops what is older than the retention before it adds the shift, in the preflight
  and in the import: a bundle from before the retention loses every point. The README and the user guide recommend the shift
  for just that.

The other four show in a property that holds only with an exception, which its comment names:

* *The step on record* (`SamplingIsRecorded`). A step below 30 seconds is raised to 30 when `query_range` is called, but the one
  asked for is recorded. The changelog says that the metadata has the sampled step.
* *The upload of a resumed zip* (`CleanedUp`). A resume removes the file it reads, which is the one extracted from the zip;
  nothing removes the upload.
* *Temporary files without an owner* (`FilesHaveOwners`, `CrashImporter`). An upload whose endpoint does not resolve leaves its file, and
  a process that ends leaves all of them. The README says that no temporary archives persist after the process ends.
* *Preflights in other units* (`PreflightPredicts`). The preflight trims before it normalizes, the import after: it reports
  every point of a bundle in seconds as dropped, which the import sends, and counts points in microseconds which the import
  drops. The user guide says that it estimates them.

Weaker properties do hold, and are checked: `StagingIsProgress` for `RetriesLeaveNoTrace` (as long as the disk works),
`AliasesStable` for `ArchiveCorrelates` (as long as there is no resume). `ResumeCountsOnce` and `StagingIsProgress` leave out a
resume with no batch left. `FileIsLastSave`, and `SettingsRetained` for the file, leave out a save that shared the temporary
file with another: nothing orders their writes, and the repository promises nothing to several processes, each of which also
overwrites the profiles that another has saved since it started.

## Proofs

They hold for all values of the constants that satisfy the modules' assumptions (`NAssumption` and so on, which TLC evaluates
in every run). Each property was checked by TLC before it was proved, and each theorem names the property of a run that it
generalizes. Seven say something that no run checks: three are about refinement (`ImplementsLifecycleSteps`,
`StagingRefinesJobs`, `ServesProfiles`), and the others are `ComputedInvariant`, `NeverTooMany` and `EveryStepProgresses` (of two
modules), below.

*ExportJobsProofs.* `SlotAccounting` alone is not inductive: that the slot a goroutine frees is one that its job holds needs
`RunOwnsItsJob`; and that needs `JobHasRun`, its converse, so that a resume cannot find a goroutine of the job still there.
`SlotsHeld` bounds the counter, since `jobFinishedLocked` does nothing at 0. `IInv` is their conjunction with `TypeOK`.
`RunsBounded` follows from it by an injection of goroutines into live jobs. `CInv` adds what each goroutine knows of its
job's counts at each point of its loop; `BaseNeverStale`, `ResumesCountOnce` and `ProgressAlwaysKept` follow from it.
`ImplementsLifecycleSteps` is the refinement: every step is one of the life cycle or a stutter (`StepsAreLifecycleSteps`).

*ExportStagingProofs* extends them: `StagingRefinesJobs` shows that the pipeline is a manager with files, so that `IInv` and
`CInv` hold of it; `SInv` adds for each job that its file holds the batches it has reached, whole or glued to the rest of a
failed append, and on a disk that works exactly those in order. From it `NoBatchEverSkipped` and `StagingAlwaysProgress`.

*AdaptiveExportProofs.* `TInv` bounds the depth and step of every attempt still to be made, and says that what is written is on
record (`SamplingAlwaysRecorded`). For `WindowAlwaysAtomic`, `CInv` says of each frame on the stack that its file, the output
of the frame inside it, and what it still has to do together complete the attempt it was split from. The key lemma is a
substitution: where a piece is replaced by a file that covers as much, what tiled the window still does (`TilesReplaced`).
`EveryStepProgresses` shows that a window ends whatever the backend answers. An attempt has a rank: how many rungs of the ladder
are coarser than its step, then how deep it is, then which query it makes. Every attempt that follows from another, by a split, a
coarser step (which starts again at depth 0) or the fallback to `query_range`, has a lower one, and `RInv` says so of
everything that waits on the stack. `StepsLeft` adds up what the attempt and the waiting ones may still take (`Effort`, which
multiplies with each rank by the most parts that a split has), and each step lowers it.

*BatchWindowsProofs.* For the windows, `CursorReached`: while they are cut, the cursor is where the last one ends, and there is
something to cut; `WindowsInside` and `IndexInside` carry the types through the second loop. For the samples (`NeverGaps`),
`LastSample`: how far behind the cursor the last two are. That a sequence whose points are a step apart may be put behind
samples that are not ahead of it (`SamplesExtended`) does the rest. Two more theorems are about how much the loops do.
`EveryStepProgresses` has the number of steps that may remain (`StepsLeft`) and shows that each step lowers it, for every range:
what is left of `Ends` is that the loop is scheduled. `NeverTooMany` bounds the windows by the smallest interval.

*ObfuscationProofs.* `TypeOK` is the strengthening: every alias in use has a number that its counter has passed. That a
number is determined by its two octets (`QuotientRemainder`, `AddressInjective`) does the rest.

*ImportJobsProofs.* `IInv` has the types, the bounds of offsets (`Bounds`), who may exist in which state of the job
(`LifeInv`), which files (`FileInv`), and that each good line is delivered, in the chunk, or not behind the offset
(`LineInv`); `ExactInv` says that offsets are exact without CR. Where lines start is a recursive function; what it computes for
every bundle is proved from the least number of lines for which it would fail (`LeastNumber`, from the library's theorem that
the order of the naturals is well-founded).

*ImporterProofs.* `FileInv` says who has the temporary file open, and that a process which opened it alone is alone until it
renames it; `OwnersInv` which files a request or a job has at each of its points; `ListInv` that lists in memory, in a file or
about to be written repeat nothing but what the first file did, with the loop of `saveRecentProfile` again by the least
counterexample; `SettingsInv` that the profile of a request stands behind no more others than were saved since.
`ServesProfiles` shows that serving a bundle does nothing else to the profiles.

About points, the invariant is `Computed`: what a preflight has answered, and what an import has sent, stays what the bundle
gives with the cutoff in its summary. It is proved together with the types of all that is computed (`ComputedInvariant`; with
the profiles', `Typing`), among them that a retention that wraps around never puts the cutoff into the future. What is then left
is about the functions of a line. `NormalizeFacts` (the unit of a line is one power of a thousand for all of its points, so
that their order is kept), `NormalizeMakesMillis`, `ShiftFacts` and `AtFacts` (what stays of a line, and in which order) give
`ImportLineFacts` and with it `SentAlwaysTrimmed`. For `PreflightAlwaysPredicts`, a line is compared with itself: in milliseconds
normalizing before or after trimming leaves it alone (`SameCounts`), in seconds nothing is left after trimming (`SecondsVanish`),
in between one of the two drops more (`DropsMore`) or sends less (`SendsLess`), and the sums over the lines follow (`SumsGrow`,
`SummaryCounts`). For `WindowAlwaysCovers`, the first and the last time of a chunk bound those of its lines (`FirstTimeFacts`,
`LastTimeFacts`, `EndsOfLine`); and the first line sent, if it has a name, matches its own name and any of its labels
(`SubsetsAreOwn`, `FirstMatches`), so that it is found there (`FirstIsSeen`). Recursive functions (`At`, `Total`, `DurationSum`,
`FirstTime`) are handled as tables, which exist by `LeastNumber`'s `Recursion`, and what holds of all their entries is proved
upwards from 0 (`Upward`).

What is only model-checked: liveness (`JobEnds`, `WindowEnds`, `Ends`, `JobSettles`) and with it the fairness part of
`ImplementsLifecycle`, which the prover cannot do; of `WindowEnds` and `Ends` only that a step can be taken until the end, and
is, since their steps are proved to run out. Every invariant and every action property that a run checks is also a theorem.

## How it was planned

The order was: the manager and its contract; what its runs leave in files; the loops below a batch (windows, adaptive export,
obfuscation); the importer's job; its preflight; its profiles, and the composition of the last two; the proofs in the same order.
Each module was written so that it can be proved about: constants with named assumptions, one action per operation,
functions and folds for recursion.

## What is not modelled

* The browser clients: code of one page each, over which the server has no control. What they ask, in any order and as
  often as they like, is the environment of the models; their timers and buttons are not part of it.
* Export ids and file names: ids of one second's resolution meet only for exports without a job, which the user interface
  never starts; a job's staging file has a name of its own.
* The backend client and the kinds of errors: an answer's kind is the backend's choice, in `AdaptiveExport`.
* Discovery, samples, validation, file-system browsing and download: they keep no state.
* Start-up, the probe of a port, build tooling and the test environment.
* The contents of requests and metrics, JSON and wording; authentication and tenants; the message about adaptive retries in
  a job's status; the progress shown of an import; the digest of the archive; the text of the preflight's warnings and the
  shift it suggests; the hiding of secrets in profiles.

Restarts of the export server lose all jobs by design (they are held in memory), and so do those of the importer, so there is
nothing to recover but the profiles, which are modelled. A configuration that sets `resume_from_batch` or `staging_file`
itself, which the client never does, is left out.
