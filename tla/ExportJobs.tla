----------------------------- MODULE ExportJobs -----------------------------
(***************************************************************************)
(* ExportJobManager (internal/server/export_jobs.go): the map of export    *)
(* jobs, the counter of concurrency slots, and the goroutines, one per     *)
(* accepted start or resume, that run ExecuteExport and write their        *)
(* progress and their outcome back into the map.  Every section that holds *)
(* the manager's mutex is one action; goroutines interleave between them.  *)
(*                                                                         *)
(* ExecuteExport (export_service.go) is here the sequence of its calls and *)
(* results: one step per batch, each able to fail, then the archive.       *)
(* ExportStaging refines its effect on the staging file.                   *)
(***************************************************************************)
EXTENDS Integers, FiniteSets

CONSTANTS
    JobId,          \* job identifiers (one per /api/export/start)
    RunId,          \* goroutines, each with its context; reused after it ends
    NoRun,          \* the nil CancelFunc
    MaxConcurrent,  \* maxConcurrentJobs
    Windows,        \* Windows[j]: how many batch windows job j's range has
    MetricsBound    \* bound: jobs with more processed metrics are not resumed

ASSUME RunAssumption     == NoRun \notin RunId
ASSUME LimitAssumption   == MaxConcurrent \in Nat
ASSUME WindowsAssumption == Windows \in [JobId -> Nat \ {0}]
ASSUME BoundAssumption   == MetricsBound \in Nat

VARIABLES
    job,         \* the map `jobs`; job[j].state = "absent" where it has no entry
    activeJobs,  \* the slot counter
    run          \* the goroutines started by `go m.runJob(...)`

vars == <<job, activeJobs, run>>

Live     == {"pending", "running"}
Terminal == {"completed", "failed", "canceled"}
States   == {"absent"} \union Live \union Terminal

\* aged: CompletedAt is set and lies further back than the retention.
\* metrics counts one unit per exported batch, timed the batch durations
\* summed in durationTotal.
Job == [state : States, completed : Nat, metrics : Nat, timed : Nat,
        resumeFrom : Nat, baseMetrics : Nat, aged : BOOLEAN,
        cancel : RunId \union {NoRun}]

Absent == [state |-> "absent", completed |-> 0, metrics |-> 0, timed |-> 0,
           resumeFrom |-> 0, baseMetrics |-> 0, aged |-> FALSE,
           cancel |-> NoRun]

Stages == {"spawned", "based", "opening", "looping", "exporting",
           "reporting", "archiving", "returned"}

\* base and baseMetrics: the reporter's copies of job.resumeFrom and
\* job.baseMetrics; next: batchIndex; canceled: ctx.Done() is closed;
\* result: what ExecuteExport returned.
Run == [at : Stages, job : JobId, base : Nat, baseMetrics : Nat, next : Nat,
        canceled : BOOLEAN, result : Terminal]
NoRunYet == [at |-> "none"]

Jobs     == {j \in JobId : job[j].state # "absent"}
LiveJobs == {j \in JobId : job[j].state \in Live}
LiveRuns == {r \in RunId : run[r].at # "none"}

TypeOK ==
    /\ job \in [JobId -> Job]
    /\ activeJobs \in Nat
    /\ run \in [RunId -> Run \union {NoRunYet}]

Init ==
    /\ job = [j \in JobId |-> Absent]
    /\ activeJobs = 0
    /\ run = [r \in RunId |-> NoRunYet]

----------------------------------------------------------------------------
(* The manager's operations, called by the HTTP handlers.                  *)

\* cleanupLocked: the map without the jobs whose retention has passed.
Cleanup(jobs) ==
    [j \in JobId |-> IF jobs[j].state \in Terminal /\ jobs[j].aged
                       THEN Absent ELSE jobs[j]]

\* go m.runJob(jobCtx, jobID, cfg)
Spawned(j) ==
    [at |-> "spawned", job |-> j, base |-> 0, baseMetrics |-> 0, next |-> 0,
     canceled |-> FALSE, result |-> "failed"]

StartJob(j, r) ==
    /\ job[j].state = "absent"
    /\ run[r].at = "none"
    /\ activeJobs < MaxConcurrent
    /\ job' = [Cleanup(job) EXCEPT
                 ![j] = [Absent EXCEPT !.state = "pending", !.cancel = r]]
    /\ activeJobs' = activeJobs + 1
    /\ run' = [run EXCEPT ![r] = Spawned(j)]

\* StartJob that finds every slot taken: only its cleanup stays.
StartRejected ==
    /\ activeJobs >= MaxConcurrent
    /\ job' = Cleanup(job)
    /\ UNCHANGED <<activeJobs, run>>

\* Mutant: durationTotal is not reset.
ResumedKeepingDuration(old, r) ==
    [old EXCEPT !.state = "pending", !.resumeFrom = old.completed,
                !.baseMetrics = old.metrics, !.aged = FALSE, !.cancel = r]

Resumed(old, r) ==
    [old EXCEPT !.state = "pending", !.resumeFrom = old.completed,
                !.baseMetrics = old.metrics, !.timed = 0, !.aged = FALSE,
                !.cancel = r]

\* Mutant: a job that is still running can be resumed.
ResumeJobRunning(j, r) ==
    /\ job[j].state \in {"canceled", "failed", "running"}
    /\ run[r].at = "none"
    /\ activeJobs < MaxConcurrent
    /\ job[j].metrics <= MetricsBound
    /\ job' = [job EXCEPT ![j] = Resumed(job[j], r)]
    /\ activeJobs' = activeJobs + 1
    /\ run' = [run EXCEPT ![r] = Spawned(j)]

ResumeJob(j, r) ==
    /\ job[j].state \in {"canceled", "failed"}
    /\ run[r].at = "none"
    /\ activeJobs < MaxConcurrent
    /\ job[j].metrics <= MetricsBound
    /\ job' = [job EXCEPT ![j] = Resumed(job[j], r)]
    /\ activeJobs' = activeJobs + 1
    /\ run' = [run EXCEPT ![r] = Spawned(j)]

\* Mutant: the job is declared canceled at once, its goroutine still running.
CancelJobAtOnce(j) ==
    /\ job[j].state \in Live
    /\ job[j].cancel # NoRun
    /\ job' = [job EXCEPT ![j].state = "canceled"]
    /\ run' = [run EXCEPT ![job[j].cancel].canceled = TRUE]
    /\ UNCHANGED activeJobs

\* Mutant: and its slot is free at once.
CancelJobFreeing(j) ==
    /\ job[j].state \in Live
    /\ job[j].cancel # NoRun
    /\ job' = [job EXCEPT ![j].state = "canceled"]
    /\ run' = [run EXCEPT ![job[j].cancel].canceled = TRUE]
    /\ activeJobs' = activeJobs - 1

\* CancelJob on a job that is not over; the goroutine finds out by itself.
CancelJob(j) ==
    /\ job[j].state \in Live
    /\ job[j].cancel # NoRun
    /\ run' = [run EXCEPT ![job[j].cancel].canceled = TRUE]
    /\ UNCHANGED <<job, activeJobs>>

\* Time passes: job j's CompletedAt is now older than the retention.
Age(j) ==
    /\ job[j].state \in Terminal
    /\ job' = [job EXCEPT ![j].aged = TRUE]
    /\ UNCHANGED <<activeJobs, run>>

----------------------------------------------------------------------------
(* The goroutine: runJob, and ExecuteExport inside it.                     *)

\* runJob's read of resumeFrom and baseMetrics, the latter two after RUnlock.
ReadBase(r) ==
    LET j == run[r].job IN
    /\ run[r].at = "spawned"
    /\ run' = [run EXCEPT ![r] =
                 IF job[j].state = "absent"
                   THEN [@ EXCEPT !.at = "based"]
                   ELSE [@ EXCEPT !.at = "based",
                                  !.base = job[j].resumeFrom,
                                  !.baseMetrics = job[j].baseMetrics]]
    /\ UNCHANGED <<job, activeJobs>>

MarkRunning(r) ==
    LET j == run[r].job IN
    /\ run[r].at = "based"
    /\ run' = [run EXCEPT ![r].at = "opening"]
    /\ job' = IF job[j].state = "absent" THEN job
              ELSE [job EXCEPT ![j].state = "running"]
    /\ UNCHANGED activeJobs

Return(r, result) ==
    /\ run' = [run EXCEPT ![r] = [@ EXCEPT !.at = "returned", !.result = result]]
    /\ UNCHANGED <<job, activeJobs>>

Goto(r, stage) ==
    /\ run' = [run EXCEPT ![r].at = stage]
    /\ UNCHANGED <<job, activeJobs>>

\* startIdx: ResumeFromBatch, but 0 when no batch is left.
StartIndex(r) ==
    IF run[r].base >= Windows[run[r].job] THEN 0 ELSE run[r].base

\* The staging directory and file are prepared.
OpenStaging(r) ==
    /\ run[r].at = "opening"
    /\ run' = [run EXCEPT ![r] = [@ EXCEPT !.at = "looping",
                                           !.next = StartIndex(r)]]
    /\ UNCHANGED <<job, activeJobs>>

OpenFails(r) == run[r].at = "opening" /\ Return(r, "failed")

\* The loop's head, with its look at ctx.Done().
BeginBatch(r) ==
    /\ run[r].at = "looping"
    /\ run[r].next < Windows[run[r].job]
    /\ IF run[r].canceled THEN Return(r, "canceled") ELSE Goto(r, "exporting")

\* exportWindowAdaptive has appended the whole window to the staging file.
BatchAppended(r) == run[r].at = "exporting" /\ Goto(r, "reporting")

\* exportWindowAdaptive returned an error: of the backend or the disk, or
\* the context's, wrapped so that errors.Is still finds context.Canceled.
BatchFails(r) == run[r].at = "exporting" /\ Return(r, "failed")

BatchCanceled(r) ==
    /\ run[r].at = "exporting"
    /\ run[r].canceled
    /\ Return(r, "canceled")

Maximum(a, b) == IF a >= b THEN a ELSE b

\* Mutant: the last reported index wins.
UpdatedBatchLast(old, b, baseMetrics) ==
    [old EXCEPT !.completed = b,
                !.metrics   = Maximum(old.metrics, baseMetrics) + 1,
                !.timed     = old.timed + 1]

\* updateBatch for batch index b (counted from 1).
UpdatedBatch(old, b, baseMetrics) ==
    [old EXCEPT !.completed = Maximum(old.completed, b),
                !.metrics   = Maximum(old.metrics, baseMetrics) + 1,
                !.timed     = old.timed + 1]

\* ReportBatchProgress, then the loop's increment.
ReportBatch(r) ==
    LET j == run[r].job IN
    /\ run[r].at = "reporting"
    /\ job' = IF job[j].state = "absent" THEN job
              ELSE [job EXCEPT ![j] = UpdatedBatch(job[j], run[r].next + 1,
                                                   run[r].baseMetrics)]
    /\ run' = [run EXCEPT ![r] = [@ EXCEPT !.at = "looping",
                                           !.next = run[r].next + 1]]
    /\ UNCHANGED activeJobs

\* Mutant: the loop's end is missed by one.
EndLoopLate(r) ==
    /\ run[r].at = "looping"
    /\ run[r].next > Windows[run[r].job]
    /\ Goto(r, "archiving")

\* The loop is over; from here on the context is not looked at any more.
EndLoop(r) ==
    /\ run[r].at = "looping"
    /\ run[r].next >= Windows[run[r].job]
    /\ Goto(r, "archiving")

CreateArchive(r) == run[r].at = "archiving" /\ Return(r, "completed")
ArchiveFails(r)  == run[r].at = "archiving" /\ Return(r, "failed")

\* job.cancel() of job j, and the end of goroutine r.
EndRun(r, j) ==
    [x \in RunId |-> IF x = r THEN NoRunYet
                     ELSE IF x = job[j].cancel
                            THEN [run[x] EXCEPT !.canceled = TRUE]
                            ELSE run[x]]

\* Mutants: the slot is not given back; it is given back twice.
JobFinishedLeaking == activeJobs
JobFinishedTwice   == activeJobs - 2

JobFinished == IF activeJobs > 0 THEN activeJobs - 1 ELSE activeJobs

\* markCompleted, markFailed or markCanceled, as the result says.
MarkFinished(r) ==
    LET j == run[r].job IN
    /\ run[r].at = "returned"
    /\ IF job[j].state = "absent"
         THEN /\ run' = [run EXCEPT ![r] = NoRunYet]
              /\ UNCHANGED <<job, activeJobs>>
         ELSE /\ run' = EndRun(r, j)
              /\ job' = Cleanup([job EXCEPT ![j] =
                          [job[j] EXCEPT !.state = run[r].result,
                                         !.aged = FALSE,
                                         !.cancel = NoRun]])
              /\ activeJobs' = JobFinished

----------------------------------------------------------------------------
Batch(r) ==
    \/ BeginBatch(r)
    \/ BatchAppended(r)
    \/ BatchFails(r)
    \/ BatchCanceled(r)
    \/ ReportBatch(r)

RunStep(r) ==
    \/ ReadBase(r)
    \/ MarkRunning(r)
    \/ OpenStaging(r)
    \/ OpenFails(r)
    \/ Batch(r)
    \/ EndLoop(r)
    \/ CreateArchive(r)
    \/ ArchiveFails(r)
    \/ MarkFinished(r)

Client ==
    \/ \E j \in JobId, r \in RunId : StartJob(j, r) \/ ResumeJob(j, r)
    \/ StartRejected
    \/ \E j \in JobId : CancelJob(j)

Next ==
    \/ Client
    \/ \E j \in JobId : Age(j)
    \/ \E r \in RunId : RunStep(r)

Spec == Init /\ [][Next]_vars

\* A goroutine keeps running: every batch has its own timeout, and nothing
\* in runJob waits for a client.
Fairness == \A r \in RunId : WF_vars(RunStep(r))
FairSpec == Spec /\ Fairness

----------------------------------------------------------------------------
(* Safety.                                                                 *)

\* The slot counter is the number of jobs that are not over: no slot leaks
\* and none is freed twice, whatever order starts, resumes, cancels,
\* failures and evictions come in (activeJobs in StartJob, ResumeJob,
\* jobFinishedLocked).
SlotAccounting == activeJobs = Cardinality(LiveJobs)

\* No more than maxConcurrentJobs goroutines are ever inside runJob: the
\* bound is on the work itself, not only on the counter that stands for it.
BoundedRuns == Cardinality(LiveRuns) <= MaxConcurrent

\* A goroutine's job is in the map, is not over, and holds this goroutine's
\* cancel function: a live job is never evicted under its goroutine, no job
\* has two goroutines, and a cancel always reaches the one that runs.
RunOwnsItsJob ==
    \A r \in LiveRuns : /\ job[run[r].job].state \in Live
                        /\ job[run[r].job].cancel = r

\* The values runJob reads after it has released the lock are still those of
\* the job as long as the goroutine uses them (in ExecuteExport and in the
\* progress reporter): no resume can change them under it.
BaseNotStale ==
    \A r \in LiveRuns : run[r].at # "spawned" =>
        /\ run[r].base = job[run[r].job].resumeFrom
        /\ run[r].baseMetrics = job[run[r].job].baseMetrics

\* Unless a job was resumed with no batch left, CompletedBatches is the batch
\* the loop stands at, MetricsProcessed counts every completed batch once,
\* and durationTotal holds the durations of exactly the batches the average
\* and the ETA divide by (updateBatch, ResumeJob).
ResumeCountsOnce ==
    /\ \A j \in Jobs : job[j].resumeFrom < Windows[j] =>
          job[j].metrics = job[j].completed
    /\ \A r \in LiveRuns :
          LET j == run[r].job IN
          run[r].at \notin {"spawned", "based", "opening"}
            /\ job[j].resumeFrom < Windows[j] =>
          /\ run[r].at # "returned" => job[j].completed = run[r].next
          /\ job[j].timed = job[j].completed - job[j].resumeFrom

\* "Resumed exports no longer double-count completed batches; progress and
\* ETA remain correct after resume" (CHANGELOG.md): MetricsProcessed is never
\* more than what the windows hold.
NoDoubleCount == \A j \in Jobs : job[j].metrics <= Windows[j]

(* Steps.                                                                  *)

\* Completed work is never lost while the job is known: neither a resume nor
\* a batch reported by a later run moves CompletedBatches backwards.
ProgressKept ==
    [][\A j \in Jobs : job'[j].state # "absent" =>
         job'[j].completed >= job[j].completed]_vars

(* Liveness.                                                               *)

\* Every job that was started or resumed is over eventually, canceled or not.
JobEnds == \A j \in JobId : job[j].state \in Live ~> job[j].state \notin Live

(* Refinement.                                                             *)

\* The manager implements the life cycle it promises its clients.
PhaseOf(j) == IF job[j].state \in Live THEN "active" ELSE job[j].state
Lifecycle == INSTANCE ExportLifecycle
               WITH phase <- [j \in JobId |-> PhaseOf(j)]

\* Every step of the manager and its goroutines is a step of the life cycle
\* (or none), and every active job of the life cycle ends.
ImplementsLifecycle == Lifecycle!FairSpec
=============================================================================
