-------------------------- MODULE ExportJobsProofs --------------------------
(***************************************************************************)
(* Proofs about ExportJobs, for any set of jobs and goroutines, any limit  *)
(* and any number of batch windows.  The inductive invariant ties the      *)
(* three pieces of state together: a goroutine exists exactly for the jobs *)
(* that are not over, each such job holds the cancel function of its       *)
(* goroutine, and the counter counts them.                                 *)
(***************************************************************************)
EXTENDS ExportJobs, FiniteSetTheorems, TLAPS

\* A job that is not over has a goroutine, reached by its cancel function.
JobHasRun ==
    \A j \in LiveJobs : /\ job[j].cancel \in RunId
                        /\ run[job[j].cancel].at # "none"
                        /\ run[job[j].cancel].job = j

SlotsHeld == IsFiniteSet(LiveJobs) /\ activeJobs <= MaxConcurrent

IInv ==
    /\ TypeOK
    /\ SlotAccounting
    /\ SlotsHeld
    /\ RunOwnsItsJob
    /\ JobHasRun

----------------------------------------------------------------------------
\* What Cleanup keeps and what it drops.
LEMMA CleanupFacts ==
    ASSUME NEW jobs \in [JobId -> Job]
    PROVE  /\ Cleanup(jobs) \in [JobId -> Job]
           /\ \A j \in JobId :
                 /\ jobs[j].state \notin Terminal => Cleanup(jobs)[j] = jobs[j]
                 /\ jobs[j].state \in Terminal =>
                       Cleanup(jobs)[j] \in {jobs[j], Absent}
  <1>1. Absent \in Job
    BY DEF Absent, Job, States
  <1>2. QED
    BY <1>1 DEF Cleanup

\* A goroutine that exists has all the fields of a run.
LEMMA LiveRunTyped ==
    ASSUME TypeOK, NEW r \in RunId, run[r].at # "none"
    PROVE  run[r] \in Run
  BY DEF TypeOK, NoRunYet

\* Steps that neither start nor end a goroutine, nor a job's activity.
LEMMA QuietStep ==
    ASSUME IInv, TypeOK',
           activeJobs' = activeJobs,
           \A j \in JobId : job'[j].state \in Live <=> job[j].state \in Live,
           \A j \in LiveJobs : job'[j].cancel = job[j].cancel,
           \A r \in RunId : run'[r].at = "none" <=> run[r].at = "none",
           \A r \in LiveRuns : run'[r].job = run[r].job
    PROVE  IInv'
  <1>1. LiveJobs' = LiveJobs
    BY DEF LiveJobs
  <1>2. LiveRuns' = LiveRuns
    BY DEF LiveRuns
  <1>3. SlotAccounting'
    BY <1>1 DEF IInv, SlotAccounting
  <1>4. SlotsHeld'
    BY <1>1 DEF IInv, SlotsHeld
  <1>5. \A r \in LiveRuns : run[r].job \in JobId
    BY LiveRunTyped DEF IInv, LiveRuns, Run
  <1>6. RunOwnsItsJob'
    BY <1>2, <1>5 DEF IInv, RunOwnsItsJob, LiveJobs
  <1>7. JobHasRun'
    BY <1>1 DEF IInv, JobHasRun, LiveRuns
  <1>8. QED
    BY <1>3, <1>4, <1>6, <1>7 DEF IInv

\* Starting and resuming: one more job, one more goroutine, one more slot.
LEMMA AdmitStep ==
    ASSUME IInv, NEW j \in JobId, NEW r \in RunId,
           job[j].state \notin Live, run[r].at = "none",
           activeJobs < MaxConcurrent,
           job' \in [JobId -> Job],
           job'[j].state = "pending", job'[j].cancel = r,
           \A k \in JobId \ {j} :
              /\ job'[k].state \in Live <=> job[k].state \in Live
              /\ job[k].state \in Live => job'[k].cancel = job[k].cancel,
           activeJobs' = activeJobs + 1,
           run' = [run EXCEPT ![r] = Spawned(j)]
    PROVE  IInv'
  <1>1. Spawned(j) \in Run
    BY DEF Spawned, Run, Stages, Terminal
  <1>2. TypeOK'
    BY <1>1 DEF IInv, TypeOK
  <1>3. LiveJobs' = LiveJobs \union {j} /\ j \notin LiveJobs
    BY DEF LiveJobs, Live
  <1>4. SlotAccounting' /\ SlotsHeld'
    BY <1>3, FS_AddElement, LimitAssumption
    DEF IInv, TypeOK, SlotAccounting, SlotsHeld
  <1>5. /\ run'[r].at = "spawned" /\ run'[r].job = j
        /\ \A x \in RunId \ {r} : run'[x] = run[x]
    BY DEF IInv, TypeOK, Spawned
  <1>6. \A x \in LiveRuns : run[x].job \in JobId \ {j}
    BY LiveRunTyped DEF IInv, RunOwnsItsJob, LiveRuns, Run
  <1>7. RunOwnsItsJob'
    BY <1>5, <1>6 DEF IInv, RunOwnsItsJob, LiveRuns, Live
  <1>8. JobHasRun'
    BY <1>3, <1>5 DEF IInv, JobHasRun, LiveJobs
  <1>9. QED
    BY <1>2, <1>4, <1>7, <1>8 DEF IInv

----------------------------------------------------------------------------
\* StartJob keeps the invariant.
LEMMA StartJobKeeps ==
    ASSUME IInv, NEW j \in JobId, NEW r \in RunId, StartJob(j, r)
    PROVE  IInv'
  <1> DEFINE new == [Absent EXCEPT !.state = "pending", !.cancel = r]
  <1>1. new \in Job /\ new.state = "pending" /\ new.cancel = r
    BY DEF Absent, Job, States, Live
  <1>2. Cleanup(job) \in [JobId -> Job]
    BY CleanupFacts DEF IInv, TypeOK
  <1>3. job' = [Cleanup(job) EXCEPT ![j] = new]
    BY DEF StartJob
  <1>4. job' \in [JobId -> Job] /\ job'[j] = new
    BY <1>1, <1>2, <1>3
  <1>5. ASSUME NEW k \in JobId \ {j}
        PROVE  /\ job'[k].state \in Live <=> job[k].state \in Live
               /\ job[k].state \in Live => job'[k].cancel = job[k].cancel
    <2>1. job'[k] = Cleanup(job)[k]
      BY <1>2, <1>3
    <2>2. \/ job'[k] = job[k]
          \/ job[k].state \in Terminal /\ job'[k] = Absent
      BY <2>1, CleanupFacts DEF IInv, TypeOK
    <2>3. QED
      BY <2>2 DEF Terminal, Live, Absent
  <1>6. job[j].state \notin Live
    BY DEF StartJob, Live
  <1>7. QED
    BY <1>1, <1>4, <1>5, <1>6, AdmitStep DEF StartJob

\* ResumeJob keeps the invariant.
LEMMA ResumeJobKeeps ==
    ASSUME IInv, NEW j \in JobId, NEW r \in RunId, ResumeJob(j, r)
    PROVE  IInv'
  <1> DEFINE new == Resumed(job[j], r)
  <1>1. job[j] \in Job
    BY DEF IInv, TypeOK
  <1>2. new \in Job /\ new.state = "pending" /\ new.cancel = r
    BY <1>1 DEF Resumed, Job, States, Live
  <1>3. /\ job' \in [JobId -> Job] /\ job'[j] = new
        /\ \A k \in JobId \ {j} : job'[k] = job[k]
    BY <1>2 DEF ResumeJob, IInv, TypeOK
  <1>4. job[j].state \notin Live
    BY DEF ResumeJob, Live
  <1>5. QED
    BY <1>2, <1>3, <1>4, AdmitStep DEF ResumeJob

\* Cleanup alone changes no job that is not over.
LEMMA StartRejectedKeeps ==
    ASSUME IInv, StartRejected
    PROVE  IInv'
  <1>1. job' \in [JobId -> Job]
    BY CleanupFacts DEF StartRejected, IInv, TypeOK
  <1>2. TypeOK'
    BY <1>1 DEF StartRejected, IInv, TypeOK
  <1>3. ASSUME NEW k \in JobId
        PROVE  \/ job'[k] = job[k]
               \/ job[k].state \in Terminal /\ job'[k] = Absent
    BY CleanupFacts DEF StartRejected, IInv, TypeOK
  <1>4. \A k \in JobId : job'[k].state \in Live <=> job[k].state \in Live
    BY <1>3 DEF Absent, Live, Terminal
  <1>5. \A k \in LiveJobs : job'[k].cancel = job[k].cancel
    BY <1>3 DEF LiveJobs, Live, Terminal
  <1>6. QED
    BY <1>2, <1>4, <1>5, QuietStep DEF StartRejected

\* CancelJob keeps the invariant.
LEMMA CancelJobKeeps ==
    ASSUME IInv, NEW j \in JobId, CancelJob(j)
    PROVE  IInv'
  <1> DEFINE r == job[j].cancel
  <1>1. r \in RunId /\ run[r].at # "none" /\ j \in LiveJobs
    BY DEF CancelJob, IInv, JobHasRun, LiveJobs
  <1>2. run[r] \in Run
    BY <1>1, LiveRunTyped DEF IInv
  <1>3. run' = [run EXCEPT ![r].canceled = TRUE]
    BY DEF CancelJob
  <1>4. /\ run'[r] \in Run /\ run'[r].at = run[r].at
        /\ run'[r].job = run[r].job
        /\ \A x \in RunId \ {r} : run'[x] = run[x]
        /\ run' \in [RunId -> Run \union {NoRunYet}]
    BY <1>1, <1>2, <1>3 DEF IInv, TypeOK, Run
  <1>5. TypeOK'
    BY <1>4 DEF CancelJob, IInv, TypeOK
  <1>6. \A x \in RunId : /\ run'[x].at = "none" <=> run[x].at = "none"
                         /\ run[x].at # "none" => run'[x].job = run[x].job
    BY <1>4
  <1>7. QED
    BY <1>5, <1>6, QuietStep DEF CancelJob, LiveRuns

\* Age keeps the invariant.
LEMMA AgeKeeps ==
    ASSUME IInv, NEW j \in JobId, Age(j)
    PROVE  IInv'
  <1>1. job[j] \in Job
    BY DEF IInv, TypeOK
  <1>2. /\ job'[j] \in Job /\ job'[j].state = job[j].state
        /\ job'[j].cancel = job[j].cancel
        /\ \A k \in JobId \ {j} : job'[k] = job[k]
        /\ job' \in [JobId -> Job]
    BY <1>1 DEF Age, IInv, TypeOK, Job
  <1>3. TypeOK'
    BY <1>2 DEF Age, IInv, TypeOK
  <1>4. QED
    BY <1>2, <1>3, QuietStep DEF Age, LiveJobs

----------------------------------------------------------------------------
\* A goroutine's own step between its start and its end: it changes its own
\* record, and its job's progress or state but not whether the job is live.
LEMMA RunQuietStep ==
    ASSUME IInv, NEW r \in RunId, run[r].at # "none",
           activeJobs' = activeJobs,
           run' \in [RunId -> Run \union {NoRunYet}],
           run'[r].at # "none", run'[r].job = run[r].job,
           \A x \in RunId \ {r} : run'[x] = run[x],
           job' \in [JobId -> Job],
           \A k \in JobId \ {run[r].job} : job'[k] = job[k],
           job'[run[r].job].state \in Live,
           job'[run[r].job].cancel = job[run[r].job].cancel
    PROVE  IInv'
  <1>1. run[r].job \in JobId /\ job[run[r].job].state \in Live
    BY LiveRunTyped DEF IInv, RunOwnsItsJob, LiveRuns, Run
  <1>2. TypeOK'
    BY DEF IInv, TypeOK
  <1>3. \A k \in JobId : /\ job'[k].state \in Live <=> job[k].state \in Live
                         /\ job'[k].cancel = job[k].cancel
    BY <1>1
  <1>4. QED
    BY <1>2, <1>3, QuietStep DEF LiveJobs, LiveRuns

\* The same, for steps that touch only the goroutine's own record.
LEMMA RunLocalStep ==
    ASSUME IInv, NEW r \in RunId, run[r].at # "none",
           UNCHANGED <<job, activeJobs>>,
           NEW new \in Run, new.at # "none", new.job = run[r].job,
           run' = [run EXCEPT ![r] = new]
    PROVE  IInv'
  <1>1. run[r].job \in JobId /\ job[run[r].job].state \in Live
    BY LiveRunTyped DEF IInv, RunOwnsItsJob, LiveRuns, Run
  <1>2. QED
    BY <1>1, RunQuietStep DEF IInv, TypeOK

\* Return keeps the invariant.
LEMMA ReturnKeeps ==
    ASSUME IInv, NEW r \in RunId, run[r].at # "none",
           NEW result \in Terminal, Return(r, result)
    PROVE  IInv'
  <1> DEFINE new == [run[r] EXCEPT !.at = "returned", !.result = result]
  <1>1. run[r] \in Run
    BY LiveRunTyped DEF IInv
  <1>2. new \in Run /\ new.at = "returned" /\ new.job = run[r].job
    BY <1>1 DEF Run, Stages
  <1>3. QED
    BY <1>2, RunLocalStep DEF Return

\* Goto keeps the invariant.
LEMMA GotoKeeps ==
    ASSUME IInv, NEW r \in RunId, run[r].at # "none",
           NEW stage \in Stages, Goto(r, stage)
    PROVE  IInv'
  <1> DEFINE new == [run[r] EXCEPT !.at = stage]
  <1>1. run[r] \in Run
    BY LiveRunTyped DEF IInv
  <1>2. new \in Run /\ new.at # "none" /\ new.job = run[r].job
    BY <1>1 DEF Run, Stages
  <1>3. QED
    BY <1>2, RunLocalStep DEF Goto

\* ReadBase keeps the invariant.
LEMMA ReadBaseKeeps ==
    ASSUME IInv, NEW r \in RunId, ReadBase(r)
    PROVE  IInv'
  <1> DEFINE j == run[r].job
             new == IF job[j].state = "absent"
                      THEN [run[r] EXCEPT !.at = "based"]
                      ELSE [run[r] EXCEPT !.at = "based",
                                          !.base = job[j].resumeFrom,
                                          !.baseMetrics = job[j].baseMetrics]
  <1>1. run[r].at # "none"
    BY DEF ReadBase
  <1>2. run[r] \in Run
    BY <1>1, LiveRunTyped DEF IInv
  <1>3. job[j] \in Job
    BY <1>2 DEF IInv, TypeOK, Run
  <1>4. new \in Run /\ new.at = "based" /\ new.job = j
    BY <1>2, <1>3 DEF Run, Stages, Job
  <1>5. run' = [run EXCEPT ![r] = new]
    BY DEF ReadBase
  <1>6. QED
    BY <1>1, <1>4, <1>5, RunLocalStep DEF ReadBase

\* MarkRunning keeps the invariant.
LEMMA MarkRunningKeeps ==
    ASSUME IInv, NEW r \in RunId, MarkRunning(r)
    PROVE  IInv'
  <1> DEFINE j == run[r].job
             new == [run[r] EXCEPT !.at = "opening"]
             newJob == [job[j] EXCEPT !.state = "running"]
  <1>1. run[r].at # "none"
    BY DEF MarkRunning
  <1>2. run[r] \in Run /\ job[j].state \in Live /\ j \in JobId
    BY <1>1, LiveRunTyped DEF IInv, RunOwnsItsJob, LiveRuns, Run
  <1>3. job[j] \in Job
    BY <1>2 DEF IInv, TypeOK
  <1>4. new \in Run /\ new.at = "opening" /\ new.job = j
    BY <1>2 DEF Run, Stages
  <1>5. newJob \in Job /\ newJob.state = "running" /\ newJob.cancel = job[j].cancel
    BY <1>3 DEF Job, States, Live
  <1>6. job' = [job EXCEPT ![j] = newJob]
    BY <1>2 DEF MarkRunning, Live
  <1>7. run' = [run EXCEPT ![r] = new]
    BY DEF MarkRunning
  <1>8. /\ run' \in [RunId -> Run \union {NoRunYet}] /\ run'[r] = new
        /\ \A x \in RunId \ {r} : run'[x] = run[x]
    BY <1>4, <1>7 DEF IInv, TypeOK
  <1>9. /\ job' \in [JobId -> Job] /\ job'[j] = newJob
        /\ \A k \in JobId \ {j} : job'[k] = job[k]
    BY <1>2, <1>5, <1>6 DEF IInv, TypeOK
  <1>10. QED
    BY <1>1, <1>4, <1>5, <1>8, <1>9, RunQuietStep DEF MarkRunning, Live

\* OpenStaging keeps the invariant.
LEMMA OpenStagingKeeps ==
    ASSUME IInv, NEW r \in RunId, OpenStaging(r)
    PROVE  IInv'
  <1> DEFINE new == [run[r] EXCEPT !.at = "looping", !.next = StartIndex(r)]
  <1>1. run[r].at # "none"
    BY DEF OpenStaging
  <1>2. run[r] \in Run
    BY <1>1, LiveRunTyped DEF IInv
  <1>3. StartIndex(r) \in Nat
    BY <1>2 DEF StartIndex, Run
  <1>4. new \in Run /\ new.at = "looping" /\ new.job = run[r].job
    BY <1>2, <1>3 DEF Run, Stages
  <1>5. run' = [run EXCEPT ![r] = new]
    BY DEF OpenStaging
  <1>6. QED
    BY <1>1, <1>4, <1>5, RunLocalStep DEF OpenStaging

\* ReportBatch keeps the invariant.
LEMMA ReportBatchKeeps ==
    ASSUME IInv, NEW r \in RunId, ReportBatch(r)
    PROVE  IInv'
  <1> DEFINE j == run[r].job
             new == [run[r] EXCEPT !.at = "looping", !.next = run[r].next + 1]
             newJob == UpdatedBatch(job[j], run[r].next + 1, run[r].baseMetrics)
  <1>1. run[r].at # "none"
    BY DEF ReportBatch
  <1>2. run[r] \in Run /\ job[j].state \in Live /\ j \in JobId
    BY <1>1, LiveRunTyped DEF IInv, RunOwnsItsJob, LiveRuns, Run
  <1>3. job[j] \in Job /\ run[r].next + 1 \in Nat /\ run[r].baseMetrics \in Nat
    BY <1>2 DEF IInv, TypeOK, Run
  <1>4. new \in Run /\ new.at = "looping" /\ new.job = j
    BY <1>2, <1>3 DEF Run, Stages
  <1>5. /\ Maximum(job[j].completed, run[r].next + 1) \in Nat
        /\ Maximum(job[j].metrics, run[r].baseMetrics) + 1 \in Nat
        /\ job[j].timed + 1 \in Nat
    BY <1>3 DEF Job, Maximum
  <1>6. /\ newJob \in Job /\ newJob.state = job[j].state
        /\ newJob.cancel = job[j].cancel
    BY <1>3, <1>5 DEF Job, UpdatedBatch
  <1>7. job' = [job EXCEPT ![j] = newJob]
    BY <1>2 DEF ReportBatch, Live
  <1>8. run' = [run EXCEPT ![r] = new]
    BY DEF ReportBatch
  <1>9. /\ run' \in [RunId -> Run \union {NoRunYet}] /\ run'[r] = new
        /\ \A x \in RunId \ {r} : run'[x] = run[x]
    BY <1>4, <1>8 DEF IInv, TypeOK
  <1>10. /\ job' \in [JobId -> Job] /\ job'[j] = newJob
         /\ \A k \in JobId \ {j} : job'[k] = job[k]
    BY <1>2, <1>6, <1>7 DEF IInv, TypeOK
  <1>11. QED
    BY <1>1, <1>2, <1>4, <1>6, <1>9, <1>10, RunQuietStep DEF ReportBatch

\* The end of a goroutine takes its job, its slot and nobody else's.
LEMMA MarkFinishedKeeps ==
    ASSUME IInv, NEW r \in RunId, MarkFinished(r)
    PROVE  IInv'
  <1> DEFINE j == run[r].job
             newJob == [job[j] EXCEPT !.state = run[r].result,
                                      !.aged = FALSE, !.cancel = NoRun]
             marked == [job EXCEPT ![j] = newJob]
  <1>1. run[r].at # "none"
    BY DEF MarkFinished
  <1>2. /\ run[r] \in Run /\ j \in JobId
        /\ job[j].state \in Live /\ job[j].cancel = r
    BY <1>1, LiveRunTyped DEF IInv, RunOwnsItsJob, LiveRuns, Run
  <1>3. /\ job' = Cleanup(marked) /\ activeJobs' = JobFinished
        /\ run' = EndRun(r, j)
    BY <1>2 DEF MarkFinished, Live
  <1>4. job[j] \in Job /\ run[r].result \in Terminal
    BY <1>2 DEF IInv, TypeOK, Run
  <1>5. newJob \in Job /\ newJob.state \in Terminal
    BY <1>4 DEF Job, States
  <1>6. /\ marked \in [JobId -> Job] /\ marked[j] = newJob
        /\ \A k \in JobId \ {j} : marked[k] = job[k]
    BY <1>2, <1>5 DEF IInv, TypeOK
  <1> HIDE DEF newJob, marked
  <1>7. job' \in [JobId -> Job]
    BY <1>3, <1>6, CleanupFacts
  <1>8. job'[j].state \notin Live
    <2>1. job'[j] \in {newJob, Absent}
      BY <1>2, <1>3, <1>5, <1>6, CleanupFacts
    <2>2. QED
      BY <1>5, <2>1 DEF Absent, Live, Terminal
  <1>9. ASSUME NEW k \in JobId \ {j}
        PROVE  /\ job'[k].state \in Live <=> job[k].state \in Live
               /\ job[k].state \in Live => job'[k] = job[k]
    <2>1. \/ job'[k] = job[k]
          \/ job[k].state \in Terminal /\ job'[k] = Absent
      BY <1>3, <1>6, CleanupFacts
    <2>2. QED
      BY <2>1 DEF Absent, Live, Terminal
  <1>10. LiveJobs' = LiveJobs \ {j} /\ j \in LiveJobs
    BY <1>2, <1>8, <1>9 DEF LiveJobs
  <1>11. SlotAccounting' /\ SlotsHeld'
    <2>1. Cardinality(LiveJobs) # 0
      BY <1>10, FS_EmptySet DEF IInv, SlotsHeld
    <2>2. activeJobs' = activeJobs - 1
      BY <1>3, <2>1 DEF IInv, TypeOK, SlotAccounting, JobFinished
    <2>3. /\ IsFiniteSet(LiveJobs')
          /\ Cardinality(LiveJobs') = Cardinality(LiveJobs) - 1
      BY <1>10, FS_RemoveElement DEF IInv, SlotsHeld
    <2>4. QED
      BY <2>2, <2>3, LimitAssumption
      DEF IInv, TypeOK, SlotAccounting, SlotsHeld
  <1>12. /\ run'[r] = NoRunYet
         /\ \A x \in RunId \ {r} : run'[x] = run[x]
         /\ run' \in [RunId -> Run \union {NoRunYet}]
    BY <1>2, <1>3 DEF EndRun, IInv, TypeOK
  <1>13. TypeOK'
    <2>1. activeJobs' \in Nat
      BY <1>3 DEF IInv, TypeOK, JobFinished
    <2>2. QED
      BY <1>7, <1>12, <2>1 DEF TypeOK
  <1>14. LiveRuns' = LiveRuns \ {r}
    BY <1>12 DEF LiveRuns, NoRunYet
  <1>15. \A x \in LiveRuns \ {r} : run[x].job \in JobId \ {j}
    BY <1>2, LiveRunTyped DEF IInv, RunOwnsItsJob, LiveRuns, Run
  <1>16. RunOwnsItsJob'
    <2> SUFFICES ASSUME NEW x \in LiveRuns \ {r}
                 PROVE  /\ job'[run'[x].job].state \in Live
                        /\ job'[run'[x].job].cancel = x
      BY <1>14 DEF RunOwnsItsJob
    <2>1. run'[x].job = run[x].job /\ run[x].job \in JobId \ {j}
      BY <1>12, <1>15 DEF LiveRuns
    <2>2. job[run[x].job].state \in Live /\ job[run[x].job].cancel = x
      BY DEF IInv, RunOwnsItsJob
    <2>3. QED
      BY <1>9, <2>1, <2>2
  <1>17. JobHasRun'
    <2>1. ASSUME NEW k \in LiveJobs \ {j}
          PROVE  job[k].cancel \in RunId \ {r}
      BY DEF IInv, JobHasRun
    <2>2. QED
      BY <1>9, <1>10, <1>12, <2>1 DEF IInv, JobHasRun, LiveJobs
  <1>18. QED
    BY <1>11, <1>13, <1>16, <1>17 DEF IInv

----------------------------------------------------------------------------
\* The strengthened invariant holds in every reachable state.
THEOREM InductiveInvariant == Spec => []IInv
  <1>1. Init => IInv
    <2> SUFFICES ASSUME Init
                 PROVE  IInv
      OBVIOUS
    <2>1. Absent \in Job
      BY DEF Absent, Job, States
    <2>2. TypeOK
      BY <2>1 DEF Init, TypeOK
    <2>3. LiveJobs = {}
      BY DEF Init, LiveJobs, Absent, Live
    <2>4. SlotAccounting /\ SlotsHeld
      BY <2>3, FS_EmptySet, LimitAssumption DEF Init, SlotAccounting, SlotsHeld
    <2>5. RunOwnsItsJob
      BY DEF Init, RunOwnsItsJob, LiveRuns, NoRunYet
    <2>6. JobHasRun
      BY <2>3 DEF JobHasRun
    <2>7. QED
      BY <2>2, <2>4, <2>5, <2>6 DEF IInv
  <1>2. IInv /\ [Next]_vars => IInv'
    <2> SUFFICES ASSUME IInv, [Next]_vars
                 PROVE  IInv'
      OBVIOUS
    <2>1. ASSUME NEW j \in JobId, NEW r \in RunId, StartJob(j, r)
          PROVE  IInv'
      BY <2>1, StartJobKeeps
    <2>2. ASSUME NEW j \in JobId, NEW r \in RunId, ResumeJob(j, r)
          PROVE  IInv'
      BY <2>2, ResumeJobKeeps
    <2>3. CASE StartRejected
      BY <2>3, StartRejectedKeeps
    <2>4. ASSUME NEW j \in JobId, CancelJob(j)
          PROVE  IInv'
      BY <2>4, CancelJobKeeps
    <2>5. ASSUME NEW j \in JobId, Age(j)
          PROVE  IInv'
      BY <2>5, AgeKeeps
    <2>6. ASSUME NEW r \in RunId, RunStep(r)
          PROVE  IInv'
      <3>1. CASE ReadBase(r)
        BY <3>1, ReadBaseKeeps
      <3>2. CASE MarkRunning(r)
        BY <3>2, MarkRunningKeeps
      <3>3. CASE OpenStaging(r)
        BY <3>3, OpenStagingKeeps
      <3>4. CASE OpenFails(r) \/ BatchFails(r) \/ ArchiveFails(r)
        BY <3>4, ReturnKeeps DEF OpenFails, BatchFails, ArchiveFails, Terminal
      <3>5. CASE BeginBatch(r)
        BY <3>5, ReturnKeeps, GotoKeeps DEF BeginBatch, Terminal, Stages
      <3>6. CASE BatchCanceled(r) \/ CreateArchive(r)
        BY <3>6, ReturnKeeps DEF BatchCanceled, CreateArchive, Terminal
      <3>7. CASE BatchAppended(r) \/ EndLoop(r)
        BY <3>7, GotoKeeps DEF BatchAppended, EndLoop, Stages
      <3>8. CASE ReportBatch(r)
        BY <3>8, ReportBatchKeeps
      <3>9. CASE MarkFinished(r)
        BY <3>9, MarkFinishedKeeps
      <3>10. QED
        BY <2>6, <3>1, <3>2, <3>3, <3>4, <3>5, <3>6, <3>7, <3>8, <3>9
        DEF RunStep, Batch
    <2>7. CASE UNCHANGED vars
      <3>1. TypeOK'
        BY <2>7 DEF vars, IInv, TypeOK
      <3>2. QED
        BY <2>7, <3>1, QuietStep DEF vars
    <2>8. QED
      BY <2>1, <2>2, <2>3, <2>4, <2>5, <2>6, <2>7 DEF Next, Client
  <1>3. QED
    BY <1>1, <1>2, PTL DEF Spec

\* Every variable keeps its type.
THEOREM TypeCorrect == Spec => []TypeOK
BY InductiveInvariant, PTL DEF IInv

\* No slot leaks and none is freed twice.
THEOREM SlotsAccounted == Spec => []SlotAccounting
BY InductiveInvariant, PTL DEF IInv

\* A live job is never evicted, and each goroutine is the only one of its
\* job and the one that a cancel reaches.
THEOREM OneRunPerLiveJob == Spec => []RunOwnsItsJob
BY InductiveInvariant, PTL DEF IInv

\* The limit bounds the goroutines themselves: mapping each to its job is
\* injective, and the slot counter counts the jobs.
THEOREM RunsBounded == Spec => []BoundedRuns
  <1>1. IInv => BoundedRuns
    <2> SUFFICES ASSUME IInv
                 PROVE  BoundedRuns
      OBVIOUS
    <2> DEFINE f == [r \in LiveRuns |-> run[r].job]
    <2>1. \A r \in LiveRuns : run[r].job \in LiveJobs
      BY LiveRunTyped DEF IInv, RunOwnsItsJob, LiveRuns, LiveJobs, Run
    <2>2. f \in Injection(LiveRuns, LiveJobs)
      BY <2>1 DEF IInv, RunOwnsItsJob, Injection, IsInjective
    <2>3. Cardinality(LiveRuns) <= Cardinality(LiveJobs)
      BY <2>2, FS_Injection DEF IInv, SlotsHeld
    <2>4. IsFiniteSet(LiveRuns)
      BY <2>2, FS_Injection DEF IInv, SlotsHeld
    <2>5. Cardinality(LiveRuns) \in Nat
      BY <2>4, FS_CardinalityType
    <2>6. QED
      BY <2>3, <2>5, LimitAssumption
      DEF IInv, TypeOK, SlotAccounting, SlotsHeld, BoundedRuns
  <1>2. QED
    BY <1>1, InductiveInvariant, PTL

----------------------------------------------------------------------------
(* The counts.  What a job has counted fits what it was resumed with, and  *)
(* what its goroutine has copied and done fits the job.                    *)

Before == {"spawned", "based", "opening"}

Counted(j) ==
    /\ job[j].resumeFrom <= job[j].completed
    /\ job[j].baseMetrics <= job[j].metrics
    /\ job[j].resumeFrom < Windows[j] => job[j].metrics = job[j].completed

RunCounted(r) ==
    LET own == job[run[r].job] IN
    /\ run[r].at # "spawned" => /\ run[r].base = own.resumeFrom
                                /\ run[r].baseMetrics = own.baseMetrics
    /\ run[r].at \in Before => own.completed = own.resumeFrom /\ own.timed = 0
    /\ run[r].at \notin Before /\ own.resumeFrom < Windows[run[r].job] =>
         /\ run[r].at # "returned" => own.completed = run[r].next
         /\ own.timed = own.completed - own.resumeFrom

CInv == /\ \A j \in JobId : Counted(j)
        /\ \A r \in LiveRuns : RunCounted(r)

\* What a goroutine finds of itself and of its job.
LEMMA OwnJob ==
    ASSUME IInv, NEW r \in LiveRuns
    PROVE  /\ run[r] \in Run /\ run[r].job \in JobId
           /\ job[run[r].job] \in Job /\ job[run[r].job].state \in Live
           /\ \A x \in LiveRuns \ {r} : run[x].job # run[r].job
  <1>1. run[r] \in Run
    BY LiveRunTyped DEF IInv, LiveRuns
  <1>2. run[r].job \in JobId
    BY <1>1 DEF Run
  <1>3. \A x \in LiveRuns : job[run[x].job].cancel = x
    BY DEF IInv, RunOwnsItsJob
  <1>4. QED
    BY <1>1, <1>2, <1>3 DEF IInv, TypeOK, RunOwnsItsJob

\* A goroutine whose record and job stay as they are stays counted.
LEMMA SameRunCounted ==
    ASSUME NEW r \in RunId, RunCounted(r),
           run'[r].at = run[r].at, run'[r].job = run[r].job,
           run'[r].base = run[r].base, run'[r].baseMetrics = run[r].baseMetrics,
           run'[r].next = run[r].next,
           job'[run[r].job].resumeFrom = job[run[r].job].resumeFrom,
           job'[run[r].job].baseMetrics = job[run[r].job].baseMetrics,
           job'[run[r].job].completed = job[run[r].job].completed,
           job'[run[r].job].timed = job[run[r].job].timed
    PROVE  RunCounted(r)'
  BY DEF RunCounted

\* So does a job.
LEMMA SameJobCounted ==
    ASSUME NEW j \in JobId, Counted(j), job'[j] \in {job[j], Absent}
    PROVE  Counted(j)'
  BY WindowsAssumption DEF Counted, Absent

\* A job is admitted: it begins where its goroutine will.
LEMMA AdmitCounts ==
    ASSUME IInv, CInv, NEW j \in JobId, NEW r \in RunId,
           job[j].state \notin Live, run[r].at = "none",
           job' \in [JobId -> Job],
           \A k \in JobId \ {j} : /\ job'[k] \in {job[k], Absent}
                                  /\ job[k].state \in Live => job'[k] = job[k],
           Counted(j)', job'[j].completed = job'[j].resumeFrom, job'[j].timed = 0,
           run' = [run EXCEPT ![r] = Spawned(j)]
    PROVE  CInv'
  <1>1. /\ run'[r].at = "spawned" /\ run'[r].job = j
        /\ \A x \in RunId \ {r} : run'[x] = run[x]
    BY DEF IInv, TypeOK, Spawned
  <1>2. RunCounted(r)'
    BY <1>1 DEF RunCounted, Before
  <1>3. ASSUME NEW x \in LiveRuns
        PROVE  RunCounted(x)'
    <2>1. run[x].job \in JobId \ {j} /\ job[run[x].job].state \in Live
      BY OwnJob
    <2>2. x \in RunId \ {r}
      BY DEF LiveRuns
    <2>3. RunCounted(x)
      BY DEF CInv
    <2>4. job'[run[x].job] = job[run[x].job] /\ run'[x] = run[x]
      BY <1>1, <2>1, <2>2
    <2>5. QED
      BY <2>2, <2>3, <2>4, SameRunCounted
  <1>4. ASSUME NEW k \in JobId
        PROVE  Counted(k)'
    BY SameJobCounted DEF CInv
  <1>5. LiveRuns' \subseteq LiveRuns \union {r}
    BY <1>1 DEF LiveRuns
  <1>6. QED
    BY <1>2, <1>3, <1>4, <1>5 DEF CInv

\* A goroutine steps: the other goroutines and jobs stay as they are.
LEMMA RunCounts ==
    ASSUME IInv, CInv, NEW r \in LiveRuns,
           \A x \in RunId \ {r} : run'[x] = run[x],
           \A k \in JobId \ {run[r].job} : job'[k] \in {job[k], Absent},
           \A k \in JobId \ {run[r].job} : job[k].state \in Live => job'[k] = job[k],
           \A k \in JobId : k = run[r].job => Counted(k)',
           r \in LiveRuns' => RunCounted(r)'
    PROVE  CInv'
  <1>1. ASSUME NEW x \in LiveRuns \ {r}
        PROVE  RunCounted(x)'
    <2>1. run[x].job \in JobId \ {run[r].job} /\ job[run[x].job].state \in Live
      BY OwnJob
    <2>2. x \in RunId /\ run'[x] = run[x]
      BY DEF LiveRuns
    <2>3. RunCounted(x)
      BY DEF CInv
    <2>4. QED
      BY <2>1, <2>2, <2>3, SameRunCounted
  <1>2. ASSUME NEW k \in JobId \ {run[r].job}
        PROVE  Counted(k)'
    BY SameJobCounted DEF CInv
  <1>3. LiveRuns' \subseteq LiveRuns
    BY DEF LiveRuns
  <1>4. ASSUME NEW k \in JobId
        PROVE  Counted(k)'
    BY <1>2
  <1>5. QED
    BY <1>1, <1>3, <1>4 DEF CInv

\* The same, for a step that leaves the job's counts alone.
LEMMA LocalCounts ==
    ASSUME IInv, CInv, NEW r \in LiveRuns, UNCHANGED job,
           NEW new, run' = [run EXCEPT ![r] = new],
           run'[r] = new, RunCounted(r)'
    PROVE  CInv'
  <1>1. run[r].job \in JobId
    BY OwnJob
  <1>2. \A x \in RunId \ {r} : run'[x] = run[x]
    BY DEF IInv, TypeOK, LiveRuns
  <1>3. ASSUME NEW k \in JobId
        PROVE  Counted(k)'
    BY SameJobCounted DEF CInv
  <1>4. QED
    BY <1>2, <1>3, RunCounts

\* Return keeps the counts.
LEMMA ReturnCounts ==
    ASSUME IInv, CInv, NEW r \in LiveRuns, NEW result \in Terminal,
           run[r].at \notin {"spawned", "based"}, Return(r, result)
    PROVE  CInv'
  <1> DEFINE new == [run[r] EXCEPT !.at = "returned", !.result = result]
  <1>1. run[r] \in Run /\ job[run[r].job] \in Job
    BY OwnJob
  <1>2. /\ new.at = "returned" /\ new.job = run[r].job /\ new.base = run[r].base
        /\ new.baseMetrics = run[r].baseMetrics
    BY <1>1 DEF Run
  <1>3. run' = [run EXCEPT ![r] = new] /\ run'[r] = new /\ UNCHANGED job
    BY DEF Return, IInv, TypeOK, LiveRuns
  <1>4. RunCounted(r)
    BY DEF CInv
  <1>5. RunCounted(r)'
    BY <1>1, <1>2, <1>3, <1>4 DEF RunCounted, Before, Job
  <1>6. QED
    BY <1>3, <1>5, LocalCounts

\* Goto keeps the counts.
LEMMA GotoCounts ==
    ASSUME IInv, CInv, NEW r \in LiveRuns, NEW stage,
           run[r].at \notin Before, stage \notin Before,
           run[r].at # "returned", Goto(r, stage)
    PROVE  CInv'
  <1> DEFINE new == [run[r] EXCEPT !.at = stage]
  <1>1. run[r] \in Run /\ job[run[r].job] \in Job
    BY OwnJob
  <1>2. /\ new.at = stage /\ new.job = run[r].job /\ new.base = run[r].base
        /\ new.baseMetrics = run[r].baseMetrics /\ new.next = run[r].next
    BY <1>1 DEF Run
  <1>3. run' = [run EXCEPT ![r] = new] /\ run'[r] = new /\ UNCHANGED job
    BY DEF Goto, IInv, TypeOK, LiveRuns
  <1>4. RunCounted(r)
    BY DEF CInv
  <1>5. RunCounted(r)'
    BY <1>1, <1>2, <1>3, <1>4 DEF RunCounted, Before
  <1>6. QED
    BY <1>3, <1>5, LocalCounts

\* StartJob keeps the counts.
LEMMA StartJobCounts ==
    ASSUME IInv, CInv, NEW j \in JobId, NEW r \in RunId, StartJob(j, r)
    PROVE  CInv'
  <1> DEFINE new == [Absent EXCEPT !.state = "pending", !.cancel = r]
  <1>1. new \in Job /\ new.completed = 0 /\ new.resumeFrom = 0 /\ new.timed = 0
        /\ new.metrics = 0 /\ new.baseMetrics = 0
    BY DEF Absent, Job, States, Live
  <1>2. /\ Cleanup(job) \in [JobId -> Job]
        /\ \A k \in JobId : /\ Cleanup(job)[k] \in {job[k], Absent}
                            /\ job[k].state \in Live => Cleanup(job)[k] = job[k]
    BY CleanupFacts DEF IInv, TypeOK, Live, Terminal
  <1>3. job' = [Cleanup(job) EXCEPT ![j] = new]
    BY DEF StartJob
  <1> HIDE DEF new
  <1>4. /\ job' \in [JobId -> Job] /\ job'[j] = new
        /\ \A k \in JobId \ {j} : job'[k] = Cleanup(job)[k]
    BY <1>1, <1>2, <1>3
  <1>5. Counted(j)'
    BY <1>1, <1>4 DEF Counted
  <1>6. job[j].state \notin Live
    BY DEF StartJob, Live
  <1>7. QED
    BY <1>1, <1>2, <1>4, <1>5, <1>6, AdmitCounts DEF StartJob

\* ResumeJob keeps the counts.
LEMMA ResumeJobCounts ==
    ASSUME IInv, CInv, NEW j \in JobId, NEW r \in RunId, ResumeJob(j, r)
    PROVE  CInv'
  <1> DEFINE new == Resumed(job[j], r)
  <1>1. job[j] \in Job
    BY DEF IInv, TypeOK
  <1>2. /\ new \in Job
        /\ new.completed = job[j].completed /\ new.metrics = job[j].metrics
        /\ new.resumeFrom = job[j].completed /\ new.baseMetrics = job[j].metrics
        /\ new.timed = 0
    BY <1>1 DEF Resumed, Job, States, Live
  <1>3. /\ job' \in [JobId -> Job] /\ job'[j] = new
        /\ \A k \in JobId \ {j} : job'[k] = job[k]
    BY <1>2 DEF ResumeJob, IInv, TypeOK
  <1> HIDE DEF new
  <1>4. Counted(j)'
    <2>1. Counted(j) /\ Windows[j] \in Nat
      BY WindowsAssumption DEF CInv
    <2>2. QED
      BY <1>1, <1>2, <1>3, <2>1 DEF Counted, Job
  <1>5. job[j].state \notin Live
    BY DEF ResumeJob, Live
  <1>6. QED
    BY <1>2, <1>3, <1>4, <1>5, AdmitCounts DEF ResumeJob

\* Steps of clients and of the clock that leave the counts of jobs alone, or
\* forget a job that is over.
LEMMA ForgettingCounts ==
    ASSUME IInv, CInv,
           \A x \in LiveRuns : /\ run'[x].at = run[x].at /\ run'[x].job = run[x].job
                               /\ run'[x].base = run[x].base
                               /\ run'[x].baseMetrics = run[x].baseMetrics
                               /\ run'[x].next = run[x].next,
           LiveRuns' = LiveRuns,
           \A j \in JobId : \/ job'[j] = Absent /\ job[j].state \notin Live
                            \/ /\ job'[j].resumeFrom = job[j].resumeFrom
                               /\ job'[j].baseMetrics = job[j].baseMetrics
                               /\ job'[j].completed = job[j].completed
                               /\ job'[j].metrics = job[j].metrics
                               /\ job'[j].timed = job[j].timed
    PROVE  CInv'
  <1>1. ASSUME NEW x \in LiveRuns
        PROVE  RunCounted(x)'
    <2>1. run[x].job \in JobId /\ job[run[x].job].state \in Live
      BY OwnJob
    <2>2. x \in RunId /\ RunCounted(x)
      BY DEF CInv, LiveRuns
    <2>3. QED
      BY <2>1, <2>2, SameRunCounted
  <1>2. ASSUME NEW j \in JobId
        PROVE  Counted(j)'
    <2>1. Counted(j) /\ Windows[j] \in Nat
      BY WindowsAssumption DEF CInv
    <2>2. QED
      BY <2>1 DEF Counted, Absent
  <1>3. QED
    BY <1>1, <1>2 DEF CInv

\* ReadBase keeps the counts.
LEMMA ReadBaseCounts ==
    ASSUME IInv, CInv, NEW r \in RunId, ReadBase(r)
    PROVE  CInv'
  <1> DEFINE j == run[r].job
             new == [run[r] EXCEPT !.at = "based", !.base = job[j].resumeFrom,
                                   !.baseMetrics = job[j].baseMetrics]
  <1>1. r \in LiveRuns
    BY DEF ReadBase, LiveRuns
  <1>2. run[r] \in Run /\ job[j] \in Job /\ job[j].state \in Live
    BY <1>1, OwnJob
  <1>3. run' = [run EXCEPT ![r] = new] /\ UNCHANGED job
    BY <1>2 DEF ReadBase, Live
  <1>4. run'[r] = new
    BY <1>3 DEF IInv, TypeOK
  <1>5. /\ new.at = "based" /\ new.job = j /\ new.base = job[j].resumeFrom
        /\ new.baseMetrics = job[j].baseMetrics
    BY <1>2 DEF Run
  <1>6. RunCounted(r) /\ run[r].at = "spawned"
    BY <1>1 DEF CInv, ReadBase
  <1> HIDE DEF new
  <1>7. RunCounted(r)'
    BY <1>3, <1>4, <1>5, <1>6 DEF RunCounted, Before
  <1>8. QED
    BY <1>1, <1>3, <1>4, <1>7, LocalCounts

\* MarkRunning keeps the counts.
LEMMA MarkRunningCounts ==
    ASSUME IInv, CInv, NEW r \in RunId, MarkRunning(r)
    PROVE  CInv'
  <1> DEFINE j == run[r].job
             new == [run[r] EXCEPT !.at = "opening"]
             newJob == [job[j] EXCEPT !.state = "running"]
  <1>1. r \in LiveRuns
    BY DEF MarkRunning, LiveRuns
  <1>2. /\ run[r] \in Run /\ j \in JobId /\ job[j] \in Job
        /\ job[j].state \in Live
    BY <1>1, OwnJob
  <1>3. /\ run' = [run EXCEPT ![r] = new]
        /\ job' = [job EXCEPT ![j] = newJob]
    BY <1>2 DEF MarkRunning, Live
  <1>4. /\ run'[r] = new
        /\ \A x \in RunId \ {r} : run'[x] = run[x]
        /\ job'[j] = newJob
        /\ \A k \in JobId \ {j} : job'[k] = job[k]
    BY <1>2, <1>3 DEF IInv, TypeOK
  <1>5. /\ new.at = "opening" /\ new.job = j /\ new.base = run[r].base
        /\ new.baseMetrics = run[r].baseMetrics
        /\ newJob.resumeFrom = job[j].resumeFrom
        /\ newJob.baseMetrics = job[j].baseMetrics
        /\ newJob.completed = job[j].completed
        /\ newJob.metrics = job[j].metrics /\ newJob.timed = job[j].timed
    BY <1>2 DEF Run, Job
  <1>6. RunCounted(r) /\ Counted(j) /\ run[r].at = "based"
    BY <1>1, <1>2 DEF CInv, MarkRunning
  <1> HIDE DEF new, newJob
  <1>7. RunCounted(r)'
    BY <1>4, <1>5, <1>6 DEF RunCounted, Before
  <1>8. \A k \in JobId : k = j => Counted(k)'
    BY <1>4, <1>5, <1>6 DEF Counted
  <1>9. QED
    BY <1>1, <1>4, <1>7, <1>8, RunCounts

\* OpenStaging keeps the counts.
LEMMA OpenStagingCounts ==
    ASSUME IInv, CInv, NEW r \in RunId, OpenStaging(r)
    PROVE  CInv'
  <1> DEFINE j == run[r].job
             new == [run[r] EXCEPT !.at = "looping", !.next = StartIndex(r)]
  <1>1. r \in LiveRuns
    BY DEF OpenStaging, LiveRuns
  <1>2. /\ run[r] \in Run /\ j \in JobId /\ job[j] \in Job
    BY <1>1, OwnJob
  <1>3. run' = [run EXCEPT ![r] = new] /\ UNCHANGED job
    BY DEF OpenStaging
  <1>4. run'[r] = new
    BY <1>3 DEF IInv, TypeOK
  <1>5. /\ new.at = "looping" /\ new.job = j /\ new.base = run[r].base
        /\ new.baseMetrics = run[r].baseMetrics /\ new.next = StartIndex(r)
    BY <1>2 DEF Run
  <1>6. RunCounted(r) /\ run[r].at = "opening"
    BY <1>1 DEF CInv, OpenStaging
  <1>7. job[j].resumeFrom < Windows[j] => StartIndex(r) = job[j].resumeFrom
    BY <1>2, <1>6, WindowsAssumption DEF StartIndex, RunCounted, Job
  <1> HIDE DEF new
  <1>8. RunCounted(r)'
    BY <1>2, <1>3, <1>4, <1>5, <1>6, <1>7 DEF RunCounted, Before, Job
  <1>9. QED
    BY <1>1, <1>3, <1>4, <1>8, LocalCounts

\* ReportBatch keeps the counts.
LEMMA ReportBatchCounts ==
    ASSUME IInv, CInv, NEW r \in RunId, ReportBatch(r)
    PROVE  CInv'
  <1> DEFINE j == run[r].job
             new == [run[r] EXCEPT !.at = "looping", !.next = run[r].next + 1]
             newJob == UpdatedBatch(job[j], run[r].next + 1, run[r].baseMetrics)
  <1>1. r \in LiveRuns
    BY DEF ReportBatch, LiveRuns
  <1>2. /\ run[r] \in Run /\ j \in JobId /\ job[j] \in Job
        /\ job[j].state \in Live /\ Windows[j] \in Nat
    BY <1>1, OwnJob, WindowsAssumption
  <1>3. /\ run' = [run EXCEPT ![r] = new]
        /\ job' = [job EXCEPT ![j] = newJob]
    BY <1>2 DEF ReportBatch, Live
  <1>4. /\ run'[r] = new
        /\ \A x \in RunId \ {r} : run'[x] = run[x]
        /\ job'[j] = newJob
        /\ \A k \in JobId \ {j} : job'[k] = job[k]
    BY <1>2, <1>3 DEF IInv, TypeOK
  <1>5. /\ new.at = "looping" /\ new.job = j /\ new.base = run[r].base
        /\ new.baseMetrics = run[r].baseMetrics /\ new.next = run[r].next + 1
        /\ newJob.resumeFrom = job[j].resumeFrom
        /\ newJob.baseMetrics = job[j].baseMetrics
        /\ newJob.completed = Maximum(job[j].completed, run[r].next + 1)
        /\ newJob.metrics = Maximum(job[j].metrics, run[r].baseMetrics) + 1
        /\ newJob.timed = job[j].timed + 1
    BY <1>2 DEF Run, Job, UpdatedBatch
  <1>6. RunCounted(r) /\ Counted(j) /\ run[r].at = "reporting"
    BY <1>1, <1>2 DEF CInv, ReportBatch
  <1>7. /\ newJob.completed >= job[j].completed
        /\ newJob.metrics = job[j].metrics + 1
        /\ job[j].resumeFrom < Windows[j] =>
             newJob.completed = run[r].next + 1 /\ run[r].next = job[j].completed
    BY <1>2, <1>5, <1>6 DEF RunCounted, Counted, Before, Maximum, Run, Job
  <1> HIDE DEF new, newJob
  <1>8. RunCounted(r)'
    BY <1>2, <1>4, <1>5, <1>6, <1>7 DEF RunCounted, Before, Job
  <1>9. \A k \in JobId : k = j => Counted(k)'
    <2>1. newJob.completed \in Nat
      BY <1>2, <1>5 DEF Maximum, Run, Job
    <2>2. QED
      BY <1>2, <1>4, <1>5, <1>6, <1>7, <2>1 DEF Counted, Job
  <1>10. QED
    BY <1>1, <1>4, <1>8, <1>9, RunCounts

\* MarkFinished keeps the counts.
LEMMA MarkFinishedCounts ==
    ASSUME IInv, CInv, NEW r \in RunId, MarkFinished(r)
    PROVE  CInv'
  <1> DEFINE j == run[r].job
             newJob == [job[j] EXCEPT !.state = run[r].result,
                                      !.aged = FALSE, !.cancel = NoRun]
             marked == [job EXCEPT ![j] = newJob]
  <1>1. r \in LiveRuns
    BY DEF MarkFinished, LiveRuns
  <1>2. /\ run[r] \in Run /\ j \in JobId /\ job[j] \in Job
        /\ job[j].state \in Live /\ Windows[j] \in Nat
    BY <1>1, OwnJob, WindowsAssumption
  <1>3. job' = Cleanup(marked) /\ run' = EndRun(r, j)
    BY <1>2 DEF MarkFinished, Live
  <1>4. /\ newJob \in Job
        /\ newJob.resumeFrom = job[j].resumeFrom
        /\ newJob.baseMetrics = job[j].baseMetrics
        /\ newJob.completed = job[j].completed
        /\ newJob.metrics = job[j].metrics
    BY <1>2 DEF Run, Job, States
  <1>5. /\ marked \in [JobId -> Job] /\ marked[j] = newJob
        /\ \A k \in JobId \ {j} : marked[k] = job[k]
    BY <1>2, <1>4 DEF IInv, TypeOK
  <1> HIDE DEF newJob, marked
  <1>6. /\ job'[j] \in {newJob, Absent}
        /\ \A k \in JobId \ {j} : /\ job'[k] \in {job[k], Absent}
                                  /\ job[k].state \in Live => job'[k] = job[k]
    <2>1. \A k \in JobId : /\ job'[k] \in {marked[k], Absent}
                           /\ marked[k].state \in Live => job'[k] = marked[k]
      BY <1>3, <1>5, CleanupFacts DEF Live, Terminal
    <2>2. QED
      BY <1>2, <1>5, <2>1
  <1>7. job[j].cancel = r
    BY <1>1 DEF IInv, RunOwnsItsJob
  <1>8. run'[r] = NoRunYet /\ \A x \in RunId \ {r} : run'[x] = run[x]
    BY <1>3, <1>7 DEF EndRun
  <1>9. Counted(j)
    BY <1>2 DEF CInv
  <1>10. \A k \in JobId : k = j => Counted(k)'
    BY <1>2, <1>4, <1>6, <1>9 DEF Counted, Absent, Job
  <1>11. r \notin LiveRuns'
    BY <1>8 DEF LiveRuns, NoRunYet
  <1>12. QED
    BY <1>1, <1>6, <1>8, <1>10, <1>11, RunCounts

\* The counts of jobs and goroutines agree in every reachable state.
THEOREM CountsInvariant == Spec => []CInv
  <1>1. Init => CInv
    BY WindowsAssumption
    DEF Init, CInv, Counted, LiveRuns, NoRunYet, Absent
  <1>2. IInv /\ CInv /\ [Next]_vars => CInv'
    <2> SUFFICES ASSUME IInv, CInv, [Next]_vars
                 PROVE  CInv'
      OBVIOUS
    <2>1. ASSUME NEW j \in JobId, NEW r \in RunId, StartJob(j, r)
          PROVE  CInv'
      BY <2>1, StartJobCounts
    <2>2. ASSUME NEW j \in JobId, NEW r \in RunId, ResumeJob(j, r)
          PROVE  CInv'
      BY <2>2, ResumeJobCounts
    <2>3. CASE StartRejected
      <3>1. \A j \in JobId : \/ job'[j] = job[j]
                             \/ job'[j] = Absent /\ job[j].state \notin Live
        BY <2>3 DEF StartRejected, Cleanup, Live, Terminal
      <3>2. QED
        BY <2>3, <3>1, ForgettingCounts DEF StartRejected, LiveRuns
    <2>4. ASSUME NEW j \in JobId, CancelJob(j)
          PROVE  CInv'
      <3> DEFINE c == job[j].cancel
      <3>1. c \in RunId /\ run[c] \in Run
        BY <2>4, LiveRunTyped DEF CancelJob, IInv, JobHasRun, LiveJobs
      <3>2. /\ run'[c] = [run[c] EXCEPT !.canceled = TRUE]
            /\ \A x \in RunId \ {c} : run'[x] = run[x]
        BY <2>4, <3>1 DEF CancelJob, IInv, TypeOK
      <3>3. \A x \in RunId : /\ run'[x].at = run[x].at /\ run'[x].job = run[x].job
                             /\ run'[x].base = run[x].base
                             /\ run'[x].baseMetrics = run[x].baseMetrics
                             /\ run'[x].next = run[x].next
        BY <3>1, <3>2 DEF Run
      <3>4. QED
        BY <2>4, <3>3, ForgettingCounts DEF CancelJob, LiveRuns
    <2>5. ASSUME NEW j \in JobId, Age(j)
          PROVE  CInv'
      <3>1. \A k \in JobId : /\ job'[k].resumeFrom = job[k].resumeFrom
                             /\ job'[k].baseMetrics = job[k].baseMetrics
                             /\ job'[k].completed = job[k].completed
                             /\ job'[k].metrics = job[k].metrics
                             /\ job'[k].timed = job[k].timed
        BY <2>5 DEF Age, IInv, TypeOK, Job
      <3>2. QED
        BY <2>5, <3>1, ForgettingCounts DEF Age, LiveRuns
    <2>6. ASSUME NEW r \in RunId, RunStep(r)
          PROVE  CInv'
      <3>1. CASE ReadBase(r)
        BY <3>1, ReadBaseCounts
      <3>2. CASE MarkRunning(r)
        BY <3>2, MarkRunningCounts
      <3>3. CASE OpenStaging(r)
        BY <3>3, OpenStagingCounts
      <3>4. CASE OpenFails(r) \/ BatchFails(r) \/ ArchiveFails(r)
        BY <3>4, ReturnCounts
        DEF OpenFails, BatchFails, ArchiveFails, Terminal, LiveRuns
      <3>5. CASE BeginBatch(r)
        BY <3>5, ReturnCounts, GotoCounts DEF BeginBatch, Terminal, Before, LiveRuns
      <3>6. CASE BatchCanceled(r) \/ CreateArchive(r)
        BY <3>6, ReturnCounts DEF BatchCanceled, CreateArchive, Terminal, LiveRuns
      <3>7. CASE BatchAppended(r) \/ EndLoop(r)
        BY <3>7, GotoCounts DEF BatchAppended, EndLoop, Before, LiveRuns
      <3>8. CASE ReportBatch(r)
        BY <3>8, ReportBatchCounts
      <3>9. CASE MarkFinished(r)
        BY <3>9, MarkFinishedCounts
      <3>10. QED
        BY <2>6, <3>1, <3>2, <3>3, <3>4, <3>5, <3>6, <3>7, <3>8, <3>9
        DEF RunStep, Batch
    <2>7. CASE UNCHANGED vars
      BY <2>7, ForgettingCounts DEF vars, LiveRuns
    <2>8. QED
      BY <2>1, <2>2, <2>3, <2>4, <2>5, <2>6, <2>7 DEF Next, Client
  <1>3. QED
    BY <1>1, <1>2, InductiveInvariant, PTL DEF Spec

\* What runJob has copied stays true for as long as it is used.
THEOREM BaseNeverStale == Spec => []BaseNotStale
  <1>1. CInv => BaseNotStale
    BY DEF CInv, RunCounted, BaseNotStale
  <1>2. QED
    BY <1>1, CountsInvariant, PTL

\* Every completed batch is counted once and timed once, over any sequence
\* of failures, cancels and resumes with a batch left.
THEOREM ResumesCountOnce == Spec => []ResumeCountsOnce
  <1>1. CInv => ResumeCountsOnce
    BY DEF CInv, Counted, RunCounted, ResumeCountsOnce, Before, Jobs
  <1>2. QED
    BY <1>1, CountsInvariant, PTL

\* No step moves a known job's progress backwards.
THEOREM ProgressAlwaysKept == Spec => ProgressKept
  <1> DEFINE Kept(j) == job'[j].state # "absent" => job'[j].completed >= job[j].completed
  <1>1. IInv /\ [Next]_vars =>
          [\A j \in Jobs : Kept(j)]_vars
    <2> SUFFICES ASSUME IInv, Next, NEW j \in Jobs
                 PROVE  Kept(j)
      BY DEF vars
    <2>1. j \in JobId /\ job[j] \in Job /\ job[j].completed \in Nat
          /\ job[j].state # "absent"
      BY DEF IInv, TypeOK, Job, Jobs
    <2>2. CASE job'[j].completed = job[j].completed
      BY <2>1, <2>2
    <2>3. Cleanup(job)[j] = job[j] \/ Cleanup(job)[j].state = "absent"
      BY <2>1 DEF Cleanup, Absent
    <2>4. ASSUME NEW k \in JobId, NEW r \in RunId, StartJob(k, r)
          PROVE  Kept(j)
      <3>1. job'[j] = Cleanup(job)[j]
        BY <2>1, <2>4 DEF StartJob, Cleanup
      <3>2. QED
        BY <2>1, <2>3, <3>1
    <2>5. ASSUME NEW k \in JobId, NEW r \in RunId, ResumeJob(k, r)
          PROVE  Kept(j)
      BY <2>1, <2>2, <2>5 DEF ResumeJob, Resumed, IInv, TypeOK, Job
    <2>6. CASE StartRejected
      BY <2>1, <2>3, <2>6 DEF StartRejected
    <2>7. ASSUME NEW k \in JobId, CancelJob(k)
          PROVE  Kept(j)
      BY <2>2, <2>7 DEF CancelJob
    <2>8. ASSUME NEW k \in JobId, Age(k)
          PROVE  Kept(j)
      BY <2>1, <2>2, <2>8 DEF Age, IInv, TypeOK, Job
    <2>9. ASSUME NEW r \in RunId, RunStep(r)
          PROVE  Kept(j)
      <3>1. CASE UNCHANGED job
        BY <2>2, <3>1
      <3>2. CASE MarkRunning(r)
        BY <2>1, <2>2, <3>2 DEF MarkRunning, IInv, TypeOK, Job
      <3>3. CASE ReportBatch(r)
        <4>1. run[r] \in Run
          BY <3>3, LiveRunTyped DEF ReportBatch, IInv
        <4>2. \/ job'[j] = job[j]
              \/ job'[j] = UpdatedBatch(job[j], run[r].next + 1, run[r].baseMetrics)
          BY <2>1, <3>3 DEF ReportBatch, IInv, TypeOK
        <4>3. UpdatedBatch(job[j], run[r].next + 1, run[r].baseMetrics).completed
                = Maximum(job[j].completed, run[r].next + 1)
          BY <2>1 DEF UpdatedBatch, Job
        <4>4. Maximum(job[j].completed, run[r].next + 1) >= job[j].completed
          BY <2>1, <4>1 DEF Maximum, Run
        <4>5. QED
          BY <2>1, <4>2, <4>3, <4>4
      <3>4. CASE MarkFinished(r)
        <4> DEFINE marked == [job EXCEPT ![run[r].job] =
                     [job[run[r].job] EXCEPT !.state = run[r].result,
                                             !.aged = FALSE, !.cancel = NoRun]]
        <4>1. job' = job \/ job' = Cleanup(marked)
          BY <3>4 DEF MarkFinished
        <4>2. marked[j].completed = job[j].completed
          BY <2>1 DEF IInv, TypeOK, Job
        <4>3. Cleanup(marked)[j] = marked[j] \/ Cleanup(marked)[j].state = "absent"
          BY <2>1 DEF Cleanup, Absent
        <4> HIDE DEF marked
        <4>4. QED
          BY <2>1, <4>1, <4>2, <4>3
      <3>5. QED
        BY <2>9, <3>1, <3>2, <3>3, <3>4
        DEF RunStep, Batch, ReadBase, OpenStaging, OpenFails, BeginBatch,
            BatchAppended, BatchFails, BatchCanceled, EndLoop, CreateArchive,
            ArchiveFails, Return, Goto
    <2>10. QED
      BY <2>4, <2>5, <2>6, <2>7, <2>8, <2>9 DEF Next, Client
  <1>2. QED
    BY <1>1, InductiveInvariant, PTL DEF Spec, ProgressKept

----------------------------------------------------------------------------
(* The manager implements ExportLifecycle.                                 *)

\* The jobs that the next cleanup forgets.
Expired == {j \in JobId : job[j].state \in Terminal /\ job[j].aged}

\* The phases of the life cycle are those of the jobs.
LEMMA ActiveIsLive ==
    ASSUME TypeOK
    PROVE  Lifecycle!Active = LiveJobs /\ Expired \subseteq Lifecycle!Ended
  <1>1. \A j \in JobId : job[j].state \in States
    BY DEF TypeOK, Job
  <1>2. \A j \in JobId : PhaseOf(j) = "active" <=> job[j].state \in Live
    BY <1>1 DEF PhaseOf, States, Live, Terminal
  <1>3. \A j \in Expired : PhaseOf(j) \in Lifecycle!Over
    BY DEF Expired, PhaseOf, Live, Terminal, Lifecycle!Over
  <1>4. QED
    BY <1>2, <1>3 DEF Lifecycle!Active, Lifecycle!Ended, LiveJobs, Expired

\* The instance counts as the module does.
LEMMA SameCardinality ==
    ASSUME NEW S
    PROVE  Lifecycle!Cardinality(S) = Cardinality(S)
  BY DEF Lifecycle!Cardinality, Cardinality

\* Steps after which every job is in the phase it was in.
LEMMA SamePhases ==
    ASSUME \A j \in JobId : job'[j].state = job[j].state
                              \/ {job'[j].state, job[j].state} \subseteq Live
    PROVE  UNCHANGED [j \in JobId |-> PhaseOf(j)]
  BY DEF PhaseOf, Live

\* Every step of the manager is a step of the life cycle or none.
THEOREM StepsAreLifecycleSteps ==
    ASSUME IInv, [Next]_vars
    PROVE  [Lifecycle!Next]_([j \in JobId |-> PhaseOf(j)])
  <1> DEFINE phase == [j \in JobId |-> PhaseOf(j)]
  <1>1. TypeOK /\ activeJobs = Lifecycle!Cardinality(Lifecycle!Active)
    BY ActiveIsLive, SameCardinality DEF IInv, SlotAccounting
  <1>2. Expired \in SUBSET Lifecycle!Ended
    BY <1>1, ActiveIsLive
  <1>3. ASSUME NEW j \in JobId, NEW r \in RunId, StartJob(j, r)
        PROVE  Lifecycle!Start(j)
    <2>1. phase[j] = "absent" /\ Lifecycle!Cardinality(Lifecycle!Active) < MaxConcurrent
      BY <1>1, <1>3 DEF StartJob, PhaseOf, Live
    <2>2. ASSUME NEW k \in JobId
          PROVE  PhaseOf(k)' = [Lifecycle!Forgetting(Expired) EXCEPT ![j] = "active"][k]
      <3>1. CASE k = j
        BY <1>3, <3>1 DEF StartJob, PhaseOf, Live, Lifecycle!Forgetting, Cleanup, Absent
      <3>2. CASE k # j
        BY <1>3, <3>2
        DEF StartJob, PhaseOf, Live, Lifecycle!Forgetting, Cleanup, Absent, Expired
      <3>3. QED
        BY <3>1, <3>2
    <2>3. phase' = [Lifecycle!Forgetting(Expired) EXCEPT ![j] = "active"]
      BY <2>2 DEF Lifecycle!Forgetting
    <2>4. QED
      BY <1>2, <2>1, <2>3 DEF Lifecycle!Start
  <1>4. ASSUME NEW j \in JobId, NEW r \in RunId, ResumeJob(j, r)
        PROVE  Lifecycle!Resume(j)
    <2>1. /\ phase[j] \in {"failed", "canceled"}
          /\ Lifecycle!Cardinality(Lifecycle!Active) < MaxConcurrent
      BY <1>1, <1>4 DEF ResumeJob, PhaseOf, Live
    <2>2. ASSUME NEW k \in JobId
          PROVE  PhaseOf(k)' = [phase EXCEPT ![j] = "active"][k]
      BY <1>1, <1>4 DEF ResumeJob, Resumed, PhaseOf, Live, TypeOK, Job
    <2>3. phase' = [phase EXCEPT ![j] = "active"]
      BY <2>2
    <2>4. QED
      BY <2>1, <2>3 DEF Lifecycle!Resume
  <1>5. CASE StartRejected
    <2>1. phase' = Lifecycle!Forgetting(Expired)
      BY <1>5 DEF StartRejected, PhaseOf, Live, Lifecycle!Forgetting, Cleanup,
                  Absent, Expired
    <2>2. QED
      BY <1>2, <2>1 DEF Lifecycle!Next, Lifecycle!Forget
  <1>6. ASSUME NEW j \in JobId, CancelJob(j) \/ Age(j)
        PROVE  UNCHANGED phase
    BY <1>1, <1>6, SamePhases DEF CancelJob, Age, TypeOK, Job
  <1>7. ASSUME NEW r \in RunId, RunStep(r)
        PROVE  Lifecycle!Next \/ UNCHANGED phase
    <2>1. CASE UNCHANGED job
      BY <2>1, SamePhases
    <2>2. r \in LiveRuns
      BY <1>7
      DEF LiveRuns, RunStep, Batch, ReadBase, MarkRunning, OpenStaging, OpenFails,
          BeginBatch, BatchAppended, BatchFails, BatchCanceled, ReportBatch,
          EndLoop, CreateArchive, ArchiveFails, MarkFinished
    <2> DEFINE j == run[r].job
    <2>3. /\ j \in JobId /\ job[j].state \in Live /\ job[j] \in Job
          /\ run[r] \in Run
      BY <2>2, OwnJob
    <2>4. CASE MarkRunning(r)
      <3>1. job' = [job EXCEPT ![j].state = "running"]
        BY <2>3, <2>4 DEF MarkRunning, Live
      <3>2. QED
        BY <1>1, <2>3, <3>1, SamePhases DEF TypeOK, Job, Live
    <2>5. CASE ReportBatch(r)
      <3>1. job' = [job EXCEPT ![j] = UpdatedBatch(job[j], run[r].next + 1,
                                                   run[r].baseMetrics)]
        BY <2>3, <2>5 DEF ReportBatch, Live
      <3>2. QED
        BY <1>1, <2>3, <3>1, SamePhases DEF UpdatedBatch, TypeOK, Job
    <2>6. CASE MarkFinished(r)
      <3> DEFINE how == run[r].result
                 marked == [job EXCEPT ![j] = [job[j] EXCEPT
                              !.state = how, !.aged = FALSE, !.cancel = NoRun]]
      <3>1. job' = Cleanup(marked)
        BY <2>3, <2>6 DEF MarkFinished, Live
      <3>2. how \in Lifecycle!Over /\ phase[j] = "active"
        BY <2>3 DEF Run, Terminal, Lifecycle!Over, PhaseOf
      <3>3. ASSUME NEW k \in JobId
            PROVE  PhaseOf(k)' = [Lifecycle!Forgetting(Expired) EXCEPT ![j] = how][k]
        <4>1. CASE k = j
          BY <1>1, <2>3, <3>1, <3>2, <4>1
          DEF PhaseOf, Live, Lifecycle!Forgetting, Lifecycle!Over, Cleanup, Absent,
              TypeOK, Job
        <4>2. CASE k # j
          BY <3>1, <4>2
          DEF PhaseOf, Live, Lifecycle!Forgetting, Cleanup, Absent, Expired
        <4>3. QED
          BY <4>1, <4>2
      <3>4. phase' = [Lifecycle!Forgetting(Expired) EXCEPT ![j] = how]
        BY <3>3 DEF Lifecycle!Forgetting
      <3>5. Lifecycle!Finish(j)
        BY <1>2, <3>2, <3>4 DEF Lifecycle!Finish
      <3>6. QED
        BY <2>3, <3>5 DEF Lifecycle!Next
    <2>7. QED
      BY <1>7, <2>1, <2>4, <2>5, <2>6
      DEF RunStep, Batch, ReadBase, OpenStaging, OpenFails, BeginBatch,
          BatchAppended, BatchFails, BatchCanceled, EndLoop, CreateArchive,
          ArchiveFails, Return, Goto
  <1>8. CASE UNCHANGED vars
    BY <1>8, SamePhases DEF vars
  <1>9. QED
    BY <1>3, <1>4, <1>5, <1>6, <1>7, <1>8 DEF Next, Client, Lifecycle!Next

\* The manager implements the life cycle (its fairness apart, which only
\* the model checker shows: ImplementsLifecycle).
THEOREM ImplementsLifecycleSteps == Spec => Lifecycle!Spec
  <1>1. Init => Lifecycle!Init
    BY DEF Init, Lifecycle!Init, PhaseOf, Absent, Live
  <1>2. QED
    BY <1>1, StepsAreLifecycleSteps, InductiveInvariant, PTL DEF Spec, Lifecycle!Spec
=============================================================================
