--------------------------- MODULE ExportStaging ---------------------------
(***************************************************************************)
(* What the export goroutines of ExportJobs do to the disk: ExecuteExport  *)
(* (export_service.go) appends each finished batch to the job's staging    *)
(* file, keeps the file over a failure or a cancel so that a resume can go *)
(* on from it, and turns it into the archive once every batch is in.       *)
(* Every action of ExportJobs that touches a file is extended here; the    *)
(* others leave the files alone.                                           *)
(*                                                                         *)
(* A batch's output is one entry of the file.  It is whole; or, when       *)
(* writing it failed half way (appendFile, io.Copy), partial if it ends    *)
(* between two lines and torn if it ends within one; or glued, if it       *)
(* follows a torn entry and lost its first line to it.  A missing file is  *)
(* empty.                                                                  *)
(***************************************************************************)
EXTENDS ExportJobs, Sequences

CONSTANT
    FileBound    \* bound: no append fails on a file with more entries

VARIABLES
    staging,   \* staging[j]: the entries of job j's staging file
    archive,   \* archive[j]: metrics.jsonl of the archive made last, or <<>>
    counted,   \* counted[j]: the metrics_count in that archive's metadata
    diskFaults \* whether appending to a staging file can fail, fixed

files == <<staging, archive, counted>>
allVars == <<vars, files, diskFaults>>

Kinds == {"whole", "partial", "torn", "glued"}
Entry == [batch : Nat \ {0}, kind : Kinds]
Whole(b) == [batch |-> b, kind |-> "whole"]

\* O_APPEND of batch b's output, of which everything is written if it is whole.
Appended(file, b, kind) ==
    LET glue == kind = "whole" /\ file # <<>> /\ file[Len(file)].kind = "torn"
    IN  Append(file, [batch |-> b, kind |-> IF glue THEN "glued" ELSE kind])

\* The file an export without any mishap leaves after n batches.
Clean(n) == [b \in 1..n |-> Whole(b)]

StagingTypeOK ==
    /\ staging \in [JobId -> Seq(Entry)]
    /\ archive \in [JobId -> Seq(Entry)]
    /\ counted \in [JobId -> Nat]
    /\ diskFaults \in BOOLEAN

StagingInit ==
    /\ Init
    /\ staging = [j \in JobId |-> <<>>]
    /\ archive = [j \in JobId |-> <<>>]
    /\ counted = [j \in JobId |-> 0]
    /\ diskFaults \in BOOLEAN

----------------------------------------------------------------------------
\* handleExportStart names the staging file after the new job.
StartExport(j, r) ==
    /\ StartJob(j, r)
    /\ staging' = [staging EXCEPT ![j] = <<>>]
    /\ archive' = [archive EXCEPT ![j] = <<>>]
    /\ counted' = [counted EXCEPT ![j] = 0]

\* Mutant: truncated for every run.
InitializeStagingFileAlways(r) ==
    /\ OpenStaging(r)
    /\ staging' = [staging EXCEPT ![run[r].job] = <<>>]
    /\ UNCHANGED <<archive, counted>>

\* initializeStagingFile: truncated, unless batches of an earlier run count.
InitializeStagingFile(r) ==
    LET j == run[r].job IN
    /\ OpenStaging(r)
    /\ staging' = IF run[r].base > 0 THEN staging
                  ELSE [staging EXCEPT ![j] = <<>>]
    /\ UNCHANGED <<archive, counted>>

\* Mutant: the batch before is appended.
AppendBatchZeroBased(r) ==
    LET j == run[r].job IN
    /\ BatchAppended(r)
    /\ staging' = [staging EXCEPT ![j] = Appended(@, run[r].next, "whole")]
    /\ UNCHANGED <<archive, counted>>

\* appendFile, as the last thing exportWindowAdaptive does for the window.
AppendBatch(r) ==
    LET j == run[r].job IN
    /\ BatchAppended(r)
    /\ staging' = [staging EXCEPT ![j] = Appended(@, run[r].next + 1, "whole")]
    /\ UNCHANGED <<archive, counted>>

\* The window's attempts failed: only their own files were written.
AttemptsFail(r) ==
    /\ BatchFails(r) \/ BatchCanceled(r)
    /\ UNCHANGED files

\* Mutant: the error of the append is dropped.
AppendFailsUnnoticed(r) ==
    LET j == run[r].job IN
    /\ diskFaults
    /\ BatchAppended(r)
    /\ Len(staging[j]) <= FileBound
    /\ \E kind \in {"partial", "torn", "whole"} :
          staging' = [staging EXCEPT ![j] = Appended(@, run[r].next + 1, kind)]
    /\ UNCHANGED <<archive, counted>>

\* appendFile failed in io.Copy or in Close: part of the attempt's output, or
\* all of it, stays in the staging file.
AppendFails(r) ==
    LET j == run[r].job IN
    /\ diskFaults
    /\ BatchFails(r)
    /\ Len(staging[j]) <= FileBound
    /\ \E kind \in {"partial", "torn", "whole"} :
          staging' = [staging EXCEPT ![j] = Appended(@, run[r].next + 1, kind)]
    /\ UNCHANGED <<archive, counted>>

\* metricsCount: only the batches this run has exported.
MetricsCount(r) == run[r].next - StartIndex(r)

\* CreateArchive from the staging file, which goes unless the run was resumed.
ArchiveStaging(r) ==
    LET j == run[r].job IN
    /\ CreateArchive(r)
    /\ archive' = [archive EXCEPT ![j] = staging[j]]
    /\ counted' = [counted EXCEPT ![j] = MetricsCount(r)]
    /\ staging' = IF run[r].base = 0 THEN [staging EXCEPT ![j] = <<>>]
                  ELSE staging

NoFileTouched(r) ==
    /\ \/ ReadBase(r)
       \/ MarkRunning(r)
       \/ OpenFails(r)
       \/ BeginBatch(r)
       \/ ReportBatch(r)
       \/ EndLoop(r)
       \/ ArchiveFails(r)
       \/ MarkFinished(r)
    /\ UNCHANGED files

StagingRunStep(r) ==
    \/ InitializeStagingFile(r)
    \/ AppendBatch(r)
    \/ AttemptsFail(r)
    \/ AppendFails(r)
    \/ ArchiveStaging(r)
    \/ NoFileTouched(r)

ManagerStep ==
    /\ \/ StartRejected
       \/ \E j \in JobId : CancelJob(j) \/ Age(j)
       \/ \E j \in JobId, r \in RunId : ResumeJob(j, r)
    /\ UNCHANGED files

StagingNext ==
    /\ \/ \E j \in JobId, r \in RunId : StartExport(j, r)
       \/ ManagerStep
       \/ \E r \in RunId : StagingRunStep(r)
    /\ UNCHANGED diskFaults

StagingSpec == StagingInit /\ [][StagingNext]_allVars

----------------------------------------------------------------------------
AfterOpening == {"looping", "exporting", "reporting", "archiving"}

\* A completed job's archive holds every batch of its range, however often
\* the export failed, was canceled and was resumed, and whatever failed
\* appends left behind: a resume skips only what was appended to the end.
\* (A line may still be lost where a failed append stopped within one.)
NoBatchSkipped ==
    \A j \in JobId : job[j].state = "completed" =>
        \A b \in 1..Windows[j] : \E i \in DOMAIN archive[j] :
            archive[j][i].batch = b /\ archive[j][i].kind \in {"whole", "glued"}

\* While the disk works, the staging file is at any moment exactly the
\* completed batches in order, the one still to be reported included: what
\* CompletedBatches tells a resume to skip is what the file holds.
StagingIsProgress == ~diskFaults =>
    \A r \in LiveRuns :
        LET j == run[r].job IN
        /\ run[r].at \in AfterOpening
        /\ run[r].base < Windows[j]
        => staging[j] = Clean(IF run[r].at = "reporting"
                                THEN job[j].completed + 1
                                ELSE job[j].completed)

ArchiveIsClean(j) ==
    /\ job[j].state = "completed"
    /\ job[j].resumeFrom < Windows[j]
    => archive[j] = Clean(Windows[j])

\* On any disk, the archive of a job that is resumed with batches left holds
\* every batch once, in order: a batch is appended "to the main staging file only
\* after the full attempt succeeds, preventing corrupted or duplicated
\* staging output after retries" (CHANGELOG.md).
RetriesLeaveNoTrace == \A j \in JobId : ArchiveIsClean(j)

\* "Total Metrics: %d" (generateReadme, the README.txt of the archive) and
\* metrics_count in metadata.json say how much the archive holds.
TotalMetricsIsTotal ==
    \A j \in JobId :
        /\ job[j].state = "completed"
        /\ archive[j] = Clean(Windows[j])
        => counted[j] = Windows[j]
=============================================================================
