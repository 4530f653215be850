------------------------ MODULE ExportStagingProofs ------------------------
(***************************************************************************)
(* Proofs about ExportStaging, for any jobs, goroutines and windows, on    *)
(* disks that work and on disks that fail: what a resume skips is in the   *)
(* staging file, and what a completed job counts is in its archive.  They  *)
(* rest on the invariants of ExportJobsProofs, since every step here is a  *)
(* step of the manager with an effect on files.                            *)
(***************************************************************************)
EXTENDS ExportStaging, ExportJobsProofs

\* Every one of the batches 1..n was appended to the end.
Holds(file, n) ==
    \A b \in 1..n : \E i \in DOMAIN file :
        file[i].batch = b /\ file[i].kind \in {"whole", "glued"}

\* A job whose archive is made, and one that still needs its staging file.
Made(j) ==
    \/ job[j].state = "completed"
    \/ /\ job[j].state \in Live
       /\ run[job[j].cancel].at = "returned"
       /\ run[job[j].cancel].result = "completed"
Needed(j) == job[j].state # "absent" /\ ~Made(j)

\* The batches appended: those reported and the one that is about to be.
Reached(j) ==
    IF job[j].state \in Live /\ run[job[j].cancel].at = "reporting"
      THEN Maximum(job[j].completed, run[job[j].cancel].next + 1)
      ELSE job[j].completed

JobFiles(j) ==
    /\ Needed(j) =>
         /\ Holds(staging[j], Reached(j))
         /\ ~diskFaults /\ job[j].resumeFrom < Windows[j] =>
              staging[j] = Clean(Reached(j))
    /\ Made(j) => Holds(archive[j], Windows[j])

RunInside(r) ==
    /\ run[r].at \in {"exporting", "reporting"} => run[r].next < Windows[run[r].job]
    /\ run[r].at = "archiving" => run[r].next >= Windows[run[r].job]
    /\ run[r].at \notin Before \union {"returned"} => run[r].next >= StartIndex(r)

SInv ==
    /\ StagingTypeOK
    /\ \A j \in JobId : JobFiles(j)
    /\ \A r \in LiveRuns : RunInside(r)

----------------------------------------------------------------------------
(* Files.                                                                  *)

\* An append keeps what a file holds, and a whole one adds its batch.
LEMMA AppendedFacts ==
    ASSUME NEW file \in Seq(Entry), NEW b \in Nat \ {0}, NEW kind \in Kinds
    PROVE  /\ Appended(file, b, kind) \in Seq(Entry)
           /\ \A n \in Nat : Holds(file, n) => Holds(Appended(file, b, kind), n)
           /\ kind = "whole" => \E i \in DOMAIN Appended(file, b, kind) :
                /\ Appended(file, b, kind)[i].batch = b
                /\ Appended(file, b, kind)[i].kind \in {"whole", "glued"}
  <1> DEFINE glue == kind = "whole" /\ file # <<>> /\ file[Len(file)].kind = "torn"
             new == [batch |-> b, kind |-> IF glue THEN "glued" ELSE kind]
             after == Append(file, new)
  <1>1. new \in Entry /\ new.batch = b /\ (kind = "whole" => new.kind \in {"whole", "glued"})
    BY DEF Entry, Kinds
  <1> HIDE DEF new
  <1>2. /\ after \in Seq(Entry) /\ Len(after) = Len(file) + 1
        /\ after[Len(file) + 1] = new
        /\ \A i \in DOMAIN file : i \in DOMAIN after /\ after[i] = file[i]
        /\ Len(file) + 1 \in DOMAIN after
    BY <1>1
  <1>3. Appended(file, b, kind) = after
    BY DEF Appended, new
  <1> HIDE DEF after
  <1>4. QED
    BY <1>1, <1>2, <1>3 DEF Holds

\* The file that holds the first n batches in order, and its next append.
LEMMA CleanFacts ==
    ASSUME NEW n \in Nat
    PROVE  /\ Clean(n) \in Seq(Entry)
           /\ Appended(Clean(n), n + 1, "whole") = Clean(n + 1)
           /\ Clean(0) = <<>>
  <1>1. Clean(n) \in Seq(Entry) /\ Len(Clean(n)) = n
    BY DEF Clean, Whole, Entry, Kinds
  <1>2. \A b \in 1..n : Clean(n)[b] = Whole(b)
    BY DEF Clean
  <1>3. Appended(Clean(n), n + 1, "whole") = Append(Clean(n), Whole(n + 1))
    BY <1>1, <1>2 DEF Appended, Whole
  <1>4. Append(Clean(n), Whole(n + 1)) = Clean(n + 1)
    BY <1>1, <1>2 DEF Clean
  <1>5. Clean(0) = <<>>
    BY DEF Clean
  <1>6. QED
    BY <1>1, <1>3, <1>4, <1>5

----------------------------------------------------------------------------
(* What a step leaves alone.                                               *)

\* A job whose file, progress and goroutine stay keeps its invariant.
LEMMA SameJobFiles ==
    ASSUME NEW j \in JobId, JobFiles(j), UNCHANGED diskFaults,
           \/ job'[j] = Absent
           \/ /\ job'[j].state = job[j].state
              /\ job'[j].cancel = job[j].cancel
              /\ job'[j].completed = job[j].completed
              /\ job'[j].resumeFrom = job[j].resumeFrom
              /\ job[j].state \in Live =>
                   /\ run'[job[j].cancel].at = run[job[j].cancel].at
                   /\ run'[job[j].cancel].next = run[job[j].cancel].next
                   /\ run'[job[j].cancel].result = run[job[j].cancel].result
              /\ staging'[j] = staging[j] /\ archive'[j] = archive[j]
    PROVE  JobFiles(j)'
  <1>1. CASE job'[j] = Absent
    BY <1>1 DEF JobFiles, Needed, Made, Absent, Live
  <1>2. CASE job'[j] # Absent
    <2>1. Needed(j)' = Needed(j) /\ Made(j)' = Made(j) /\ Reached(j)' = Reached(j)
      BY <1>2 DEF Needed, Made, Reached
    <2>2. QED
      BY <1>2, <2>1 DEF JobFiles
  <1>3. QED
    BY <1>1, <1>2

\* A goroutine's step: other jobs have other goroutines and other files.
LEMMA OthersKeepFiles ==
    ASSUME IInv, SInv, StagingTypeOK', UNCHANGED diskFaults, NEW r \in LiveRuns,
           \A x \in RunId \ {r} : run'[x] = run[x],
           \A k \in JobId \ {run[r].job} :
              /\ job'[k] \in {job[k], Absent}
              /\ staging'[k] = staging[k] /\ archive'[k] = archive[k],
           \A k \in JobId : k = run[r].job => JobFiles(k)',
           r \in LiveRuns' => RunInside(r)'
    PROVE  SInv'
  <1>1. ASSUME NEW k \in JobId \ {run[r].job}
        PROVE  JobFiles(k)'
    <2>1. job[k].state \in Live => job[k].cancel \in RunId \ {r}
      BY DEF IInv, JobHasRun, LiveJobs
    <2>2. JobFiles(k)
      BY DEF SInv
    <2>3. QED
      BY <2>1, <2>2, SameJobFiles
  <1>2. ASSUME NEW x \in LiveRuns' \ {r}
        PROVE  RunInside(x)'
    BY DEF SInv, LiveRuns, RunInside, StartIndex
  <1>3. QED
    BY <1>1, <1>2 DEF SInv

\* A goroutine's step that leaves its job's counts and files alone.
LEMMA QuietFiles ==
    ASSUME IInv, SInv, UNCHANGED <<files, diskFaults>>, NEW r \in LiveRuns,
           NEW j \in JobId, j = run[r].job,
           \A x \in RunId \ {r} : run'[x] = run[x],
           \A k \in JobId \ {j} : job'[k] = job[k],
           run[r].at \notin {"reporting", "returned"},
           run'[r].at # "reporting",
           run'[r].at = "returned" => run'[r].result # "completed",
           job'[j].state \in Live, job'[j].cancel = job[j].cancel,
           job'[j].completed = job[j].completed,
           job'[j].resumeFrom = job[j].resumeFrom,
           RunInside(r)'
    PROVE  SInv'
  <1>1. job[j].cancel = r /\ job[j].state \in Live
    BY DEF IInv, RunOwnsItsJob
  <1>2. Needed(j) /\ ~Made(j) /\ Reached(j) = job[j].completed
    BY <1>1 DEF Needed, Made, Reached, Live
  <1>3. ~Made(j)' /\ Reached(j)' = job[j].completed
    BY <1>1 DEF Made, Reached, Live
  <1>4. JobFiles(j)
    BY DEF SInv
  <1>5. JobFiles(j)'
    BY <1>2, <1>3, <1>4 DEF JobFiles, files
  <1>6. StagingTypeOK'
    BY DEF SInv, StagingTypeOK, files
  <1>7. QED
    BY <1>5, <1>6, OthersKeepFiles DEF files

----------------------------------------------------------------------------
\* StartExport keeps the files to their jobs.
LEMMA StartExportFiles ==
    ASSUME IInv, SInv, UNCHANGED diskFaults, NEW j \in JobId, NEW r \in RunId,
           StartExport(j, r)
    PROVE  SInv'
  <1> DEFINE new == [Absent EXCEPT !.state = "pending", !.cancel = r]
  <1>1. /\ new.state = "pending" /\ new.cancel = r
        /\ new.completed = 0 /\ new.resumeFrom = 0
    BY DEF Absent
  <1>2. /\ job'[j] = new
        /\ \A k \in JobId \ {j} : job'[k] \in {job[k], Absent}
    BY DEF StartExport, StartJob, Cleanup
  <1>3. /\ run[r].at = "none" /\ run'[r].at = "spawned"
        /\ \A x \in RunId \ {r} : run'[x] = run[x]
    BY DEF StartExport, StartJob, Spawned, IInv, TypeOK
  <1>4. /\ staging'[j] = <<>> /\ StagingTypeOK'
        /\ \A k \in JobId \ {j} : staging'[k] = staging[k] /\ archive'[k] = archive[k]
    BY DEF StartExport, SInv, StagingTypeOK
  <1> HIDE DEF new
  <1>5. JobFiles(j)'
    <2>1. Reached(j)' = 0 /\ ~Made(j)'
      BY <1>1, <1>2, <1>3 DEF Reached, Made, Live
    <2>2. Holds(<<>>, 0) /\ Clean(0) = <<>>
      BY CleanFacts DEF Holds
    <2>3. QED
      BY <1>4, <2>1, <2>2 DEF JobFiles
  <1>6. ASSUME NEW k \in JobId \ {j}
        PROVE  JobFiles(k)'
    <2>1. job[k].state \in Live => job[k].cancel \in RunId \ {r}
      BY <1>3 DEF IInv, JobHasRun, LiveJobs
    <2>2. JobFiles(k)
      BY DEF SInv
    <2>3. QED
      BY <1>2, <1>3, <1>4, <2>1, <2>2, SameJobFiles
  <1>7. ASSUME NEW x \in LiveRuns'
        PROVE  RunInside(x)'
    BY <1>3 DEF SInv, LiveRuns, RunInside, StartIndex, Before
  <1>8. QED
    BY <1>4, <1>5, <1>6, <1>7 DEF SInv

\* ResumeJob keeps the files to their jobs.
LEMMA ResumeJobFiles ==
    ASSUME IInv, CInv, SInv, UNCHANGED <<files, diskFaults>>,
           NEW j \in JobId, NEW r \in RunId, ResumeJob(j, r)
    PROVE  SInv'
  <1> DEFINE new == Resumed(job[j], r)
  <1>1. job[j] \in Job /\ job[j].state \in {"canceled", "failed"}
    BY DEF IInv, TypeOK, ResumeJob
  <1>2. /\ new.state = "pending" /\ new.cancel = r
        /\ new.completed = job[j].completed /\ new.resumeFrom = job[j].completed
    BY <1>1 DEF Resumed, Job
  <1>3. /\ job'[j] = new
        /\ \A k \in JobId \ {j} : job'[k] = job[k]
    BY DEF ResumeJob, IInv, TypeOK
  <1>4. /\ run[r].at = "none" /\ run'[r].at = "spawned"
        /\ \A x \in RunId \ {r} : run'[x] = run[x]
    BY DEF ResumeJob, Spawned, IInv, TypeOK
  <1> HIDE DEF new
  <1>5. JobFiles(j)'
    <2>1. Reached(j)' = job[j].completed /\ ~Made(j)'
      BY <1>2, <1>3, <1>4 DEF Reached, Made, Live
    <2>2. Needed(j) /\ Reached(j) = job[j].completed
      BY <1>1 DEF Needed, Made, Reached, Live
    <2>3. JobFiles(j) /\ job[j].resumeFrom <= job[j].completed
      BY DEF SInv, CInv, Counted
    <2>4. job'[j].resumeFrom < Windows[j] => job[j].resumeFrom < Windows[j]
      BY <1>1, <1>2, <1>3, <2>3, WindowsAssumption DEF Job
    <2>5. QED
      BY <2>1, <2>2, <2>3, <2>4 DEF JobFiles, files
  <1>6. ASSUME NEW k \in JobId \ {j}
        PROVE  JobFiles(k)'
    <2>1. job[k].state \in Live => job[k].cancel \in RunId \ {r}
      BY <1>4 DEF IInv, JobHasRun, LiveJobs
    <2>2. JobFiles(k)
      BY DEF SInv
    <2>3. QED
      BY <1>3, <1>4, <2>1, <2>2, SameJobFiles DEF files
  <1>7. ASSUME NEW x \in LiveRuns'
        PROVE  RunInside(x)'
    BY <1>4 DEF SInv, LiveRuns, RunInside, StartIndex, Before
  <1>8. QED
    BY <1>5, <1>6, <1>7 DEF SInv, StagingTypeOK, files

\* Steps of clients and of the clock that touch neither files nor counts.
LEMMA QuietManagerFiles ==
    ASSUME IInv, SInv, UNCHANGED <<files, diskFaults>>,
           LiveRuns' = LiveRuns,
           \A x \in RunId : /\ run'[x].at = run[x].at /\ run'[x].job = run[x].job
                            /\ run'[x].next = run[x].next /\ run'[x].base = run[x].base
                            /\ run'[x].result = run[x].result,
           \A j \in JobId : \/ job'[j] = Absent
                            \/ /\ job'[j].state = job[j].state
                               /\ job'[j].cancel = job[j].cancel
                               /\ job'[j].completed = job[j].completed
                               /\ job'[j].resumeFrom = job[j].resumeFrom
    PROVE  SInv'
  <1>1. ASSUME NEW k \in JobId
        PROVE  JobFiles(k)'
    <2>1. job[k].state \in Live => job[k].cancel \in RunId
      BY DEF IInv, JobHasRun, LiveJobs
    <2>2. JobFiles(k)
      BY DEF SInv
    <2>3. QED
      BY <2>1, <2>2, SameJobFiles DEF files
  <1>2. ASSUME NEW x \in LiveRuns
        PROVE  RunInside(x)'
    BY DEF SInv, LiveRuns, RunInside, StartIndex
  <1>3. QED
    BY <1>1, <1>2 DEF SInv, StagingTypeOK, files

----------------------------------------------------------------------------
\* The steps of a goroutine that append, count or archive.  Each changes one
\* job, one staging file and one archive.

\* InitializeStagingFile keeps the files to their jobs.
LEMMA InitializeStagingFileFiles ==
    ASSUME IInv, CInv, SInv, UNCHANGED diskFaults, NEW r \in RunId,
           NEW j \in JobId, j = run[r].job,
           InitializeStagingFile(r)
    PROVE  SInv'
  <1>1. r \in LiveRuns /\ run[r].at = "opening"
    BY DEF InitializeStagingFile, OpenStaging, LiveRuns
  <1>2. /\ run[r] \in Run /\ j \in JobId /\ job[j] \in Job /\ job[j].state \in Live
    BY <1>1, OwnJob
  <1>3. job[j].cancel = r
    BY <1>1 DEF IInv, RunOwnsItsJob
  <1>4. /\ run'[r].at = "looping" /\ run'[r].job = j
        /\ run'[r].next = StartIndex(r) /\ run'[r].base = run[r].base
        /\ \A x \in RunId \ {r} : run'[x] = run[x]
        /\ UNCHANGED job
    BY <1>2 DEF InitializeStagingFile, OpenStaging, IInv, TypeOK, Run
  <1>5. RunCounted(r)
    BY <1>1 DEF CInv
  <1>6. run[r].base = job[j].completed
    BY <1>1, <1>5 DEF RunCounted, Before
  <1>7. /\ StagingTypeOK'
        /\ \A k \in JobId \ {j} : staging'[k] = staging[k] /\ archive'[k] = archive[k]
        /\ archive'[j] = archive[j]
        /\ staging'[j] = IF job[j].completed > 0 THEN staging[j] ELSE <<>>
    BY <1>2, <1>6 DEF InitializeStagingFile, SInv, StagingTypeOK
  <1>8. JobFiles(j) /\ Needed(j) /\ Reached(j) = job[j].completed
    BY <1>1, <1>2, <1>3 DEF SInv, Needed, Made, Reached, Live
  <1>9. ~Made(j)' /\ Reached(j)' = job[j].completed
    BY <1>2, <1>3, <1>4 DEF Made, Reached, Live
  <1>10. JobFiles(j)'
    <2>1. CASE job[j].completed > 0
      BY <1>4, <1>7, <1>8, <1>9, <2>1 DEF JobFiles
    <2>2. CASE job[j].completed = 0
      <3>1. Holds(<<>>, 0) /\ Clean(0) = <<>>
        BY CleanFacts DEF Holds
      <3>2. QED
        BY <1>7, <1>9, <2>2, <3>1 DEF JobFiles
    <2>3. QED
      BY <1>2, <2>1, <2>2 DEF Job
  <1>11. RunInside(r)'
    <2>1. StartIndex(r)' = StartIndex(r) /\ StartIndex(r) \in Nat
      BY <1>2, <1>4 DEF StartIndex, Run
    <2>2. QED
      BY <1>4, <2>1 DEF RunInside
  <1>12. QED
    BY <1>1, <1>2, <1>4, <1>7, <1>10, <1>11, OthersKeepFiles

\* AppendBatch keeps the files to their jobs.
LEMMA AppendBatchFiles ==
    ASSUME IInv, CInv, SInv, UNCHANGED diskFaults, NEW r \in RunId,
           NEW j \in JobId, j = run[r].job,
           AppendBatch(r)
    PROVE  SInv'
  <1> DEFINE b == run[r].next + 1
             after == Appended(staging[j], b, "whole")
  <1>1. r \in LiveRuns /\ run[r].at = "exporting"
    BY DEF AppendBatch, BatchAppended, LiveRuns
  <1>2. /\ run[r] \in Run /\ j \in JobId /\ job[j] \in Job /\ job[j].state \in Live
        /\ b \in Nat \ {0} /\ Windows[j] \in Nat
    BY <1>1, OwnJob, WindowsAssumption DEF Run
  <1>3. job[j].cancel = r
    BY <1>1 DEF IInv, RunOwnsItsJob
  <1>4. /\ run'[r].at = "reporting" /\ run'[r].job = j
        /\ run'[r].next = run[r].next /\ run'[r].base = run[r].base
        /\ \A x \in RunId \ {r} : run'[x] = run[x]
        /\ UNCHANGED job
    BY <1>2 DEF AppendBatch, BatchAppended, Goto, IInv, TypeOK, Run
  <1>5. staging[j] \in Seq(Entry) /\ archive[j] \in Seq(Entry)
    BY <1>2 DEF SInv, StagingTypeOK
  <1>6. /\ after \in Seq(Entry)
        /\ \A n \in Nat : Holds(staging[j], n) => Holds(after, n)
        /\ \E i \in DOMAIN after : after[i].batch = b /\ after[i].kind \in {"whole", "glued"}
    BY <1>2, <1>5, AppendedFacts DEF Kinds
  <1>7. staging' = [staging EXCEPT ![j] = after] /\ UNCHANGED <<archive, counted>>
    BY DEF AppendBatch
  <1> HIDE DEF after
  <1>8. /\ StagingTypeOK' /\ staging'[j] = after
        /\ \A k \in JobId \ {j} : staging'[k] = staging[k] /\ archive'[k] = archive[k]
    BY <1>2, <1>6, <1>7 DEF SInv, StagingTypeOK
  <1>9. JobFiles(j) /\ Needed(j) /\ Reached(j) = job[j].completed /\ RunInside(r)
    BY <1>1, <1>2, <1>3 DEF SInv, Needed, Made, Reached, Live
  <1>10. ~Made(j)' /\ Reached(j)' = Maximum(job[j].completed, b)
    BY <1>2, <1>3, <1>4 DEF Made, Reached, Live
  <1>11. run[r].next < Windows[j] /\ job[j].resumeFrom <= job[j].completed
    BY <1>1, <1>2, <1>9 DEF RunInside, CInv, Counted
  <1>12. job[j].resumeFrom < Windows[j] => job[j].completed = run[r].next
    BY <1>1 DEF CInv, RunCounted, Before
  <1>13. JobFiles(j)'
    <2>1. CASE job[j].resumeFrom < Windows[j]
      <3>1. Reached(j)' = b
        BY <1>2, <1>10, <1>12, <2>1 DEF Maximum, Job
      <3>2. Holds(after, b)
        <4>1. Holds(after, run[r].next) /\ run[r].next \in Nat
          BY <1>2, <1>6, <1>9, <1>12, <2>1 DEF JobFiles, Job
        <4>2. \A c \in 1..b : c \in 1..run[r].next \/ c = b
          BY <4>1
        <4>3. \E i \in DOMAIN after :
                after[i].batch = b /\ after[i].kind \in {"whole", "glued"}
          BY <1>6
        <4> HIDE DEF b
        <4>4. QED
          BY <4>1, <4>2, <4>3 DEF Holds
      <3>3. ~diskFaults => after = Clean(b)
        BY <1>2, <1>9, <1>12, <2>1, CleanFacts DEF JobFiles, Job, after
      <3>4. QED
        BY <1>4, <1>8, <1>10, <3>1, <3>2, <3>3 DEF JobFiles
    <2>2. CASE ~(job[j].resumeFrom < Windows[j])
      <3>1. Reached(j)' = job[j].completed /\ job[j].completed \in Nat
        BY <1>2, <1>10, <1>11, <2>2 DEF Maximum, Job, Run
      <3>2. Holds(after, job[j].completed)
        BY <1>6, <1>9, <3>1 DEF JobFiles
      <3>3. QED
        BY <1>4, <1>8, <1>10, <2>2, <3>1, <3>2 DEF JobFiles
    <2>3. QED
      BY <2>1, <2>2
  <1>14. RunInside(r)'
    BY <1>1, <1>4, <1>9, <1>11 DEF RunInside, StartIndex, Before
  <1>15. QED
    BY <1>1, <1>2, <1>4, <1>8, <1>13, <1>14, OthersKeepFiles

\* AppendFails keeps the files to their jobs.
LEMMA AppendFailsFiles ==
    ASSUME IInv, SInv, UNCHANGED diskFaults, NEW r \in RunId,
           NEW j \in JobId, j = run[r].job,
           AppendFails(r)
    PROVE  SInv'
  <1>1. r \in LiveRuns /\ run[r].at = "exporting" /\ diskFaults
    BY DEF AppendFails, BatchFails, LiveRuns
  <1>2. /\ run[r] \in Run /\ j \in JobId /\ job[j] \in Job /\ job[j].state \in Live
        /\ run[r].next + 1 \in Nat \ {0}
    BY <1>1, OwnJob DEF Run
  <1>3. job[j].cancel = r
    BY <1>1 DEF IInv, RunOwnsItsJob
  <1>4. /\ run'[r].at = "returned" /\ run'[r].job = j /\ run'[r].result = "failed"
        /\ \A x \in RunId \ {r} : run'[x] = run[x]
        /\ UNCHANGED job
    BY <1>2 DEF AppendFails, BatchFails, Return, IInv, TypeOK, Run
  <1>5. staging[j] \in Seq(Entry)
    BY <1>2 DEF SInv, StagingTypeOK
  <1>6. PICK kind \in {"partial", "torn", "whole"} :
          staging' = [staging EXCEPT ![j] = Appended(staging[j], run[r].next + 1, kind)]
    BY DEF AppendFails
  <1> DEFINE after == Appended(staging[j], run[r].next + 1, kind)
  <1>7. /\ after \in Seq(Entry)
        /\ \A n \in Nat : Holds(staging[j], n) => Holds(after, n)
    <2>1. kind \in Kinds
      BY DEF Kinds
    <2>2. run[r].next + 1 \in Nat \ {0}
      BY <1>2
    <2>3. QED
      BY <1>5, <2>1, <2>2, AppendedFacts
  <1> HIDE DEF after
  <1>8. /\ StagingTypeOK' /\ staging'[j] = after
        /\ \A k \in JobId \ {j} : staging'[k] = staging[k] /\ archive'[k] = archive[k]
    BY <1>2, <1>6, <1>7 DEF SInv, StagingTypeOK, AppendFails, after
  <1>9. JobFiles(j) /\ Needed(j) /\ Reached(j) = job[j].completed
    BY <1>1, <1>2, <1>3 DEF SInv, Needed, Made, Reached, Live
  <1>10. ~Made(j)' /\ Reached(j)' = job[j].completed
    BY <1>2, <1>3, <1>4 DEF Made, Reached, Live
  <1>11. JobFiles(j)'
    <2>1. job[j].completed \in Nat /\ diskFaults'
      BY <1>1, <1>2 DEF Job
    <2>2. Holds(after, job[j].completed)
      BY <1>7, <1>9, <2>1 DEF JobFiles
    <2>3. QED
      BY <1>8, <1>10, <2>1, <2>2 DEF JobFiles
  <1>12. RunInside(r)'
    BY <1>4 DEF RunInside
  <1>13. QED
    BY <1>1, <1>2, <1>4, <1>8, <1>11, <1>12, OthersKeepFiles

\* ArchiveStaging keeps the files to their jobs.
LEMMA ArchiveStagingFiles ==
    ASSUME IInv, CInv, SInv, UNCHANGED diskFaults, NEW r \in RunId,
           NEW j \in JobId, j = run[r].job,
           ArchiveStaging(r)
    PROVE  SInv'
  <1>1. r \in LiveRuns /\ run[r].at = "archiving"
    BY DEF ArchiveStaging, CreateArchive, LiveRuns
  <1>2. /\ run[r] \in Run /\ j \in JobId /\ job[j] \in Job /\ job[j].state \in Live
        /\ Windows[j] \in Nat
    BY <1>1, OwnJob, WindowsAssumption
  <1>3. job[j].cancel = r
    BY <1>1 DEF IInv, RunOwnsItsJob
  <1>4. /\ run'[r].at = "returned" /\ run'[r].job = j /\ run'[r].result = "completed"
        /\ \A x \in RunId \ {r} : run'[x] = run[x]
        /\ UNCHANGED job
    BY <1>2 DEF ArchiveStaging, CreateArchive, Return, IInv, TypeOK, Run
  <1>5. Holds(staging[j], job[j].completed) /\ RunInside(r)
    BY <1>1, <1>2, <1>3 DEF SInv, JobFiles, Needed, Made, Reached, Live
  <1>6. /\ StagingTypeOK' /\ archive'[j] = staging[j]
        /\ \A k \in JobId \ {j} : staging'[k] = staging[k] /\ archive'[k] = archive[k]
    <2>1. MetricsCount(r) \in Nat
      BY <1>1, <1>2, <1>5 DEF RunInside, MetricsCount, StartIndex, Before, Run
    <2>2. QED
      BY <1>2, <2>1 DEF ArchiveStaging, SInv, StagingTypeOK
  <1>7. job[j].completed >= Windows[j]
    <2>1. CASE job[j].resumeFrom < Windows[j]
      BY <1>1, <1>5, <2>1 DEF CInv, RunCounted, RunInside, Before
    <2>2. CASE ~(job[j].resumeFrom < Windows[j])
      BY <1>2, <2>2 DEF CInv, Counted, Job
    <2>3. QED
      BY <2>1, <2>2
  <1>8. Holds(archive'[j], Windows[j])
    BY <1>2, <1>5, <1>6, <1>7 DEF Holds, Job
  <1>9. Made(j)'
    BY <1>2, <1>3, <1>4 DEF Made
  <1>10. JobFiles(j)'
    BY <1>8, <1>9 DEF JobFiles, Needed
  <1>11. RunInside(r)'
    BY <1>4 DEF RunInside
  <1>12. QED
    BY <1>1, <1>2, <1>4, <1>6, <1>10, <1>11, OthersKeepFiles

\* ReportBatch keeps the files to their jobs.
LEMMA ReportBatchFiles ==
    ASSUME IInv, CInv, SInv, UNCHANGED <<files, diskFaults>>, NEW r \in RunId,
           NEW j \in JobId, j = run[r].job,
           ReportBatch(r)
    PROVE  SInv'
  <1> DEFINE newJob == UpdatedBatch(job[j], run[r].next + 1, run[r].baseMetrics)
  <1>1. r \in LiveRuns /\ run[r].at = "reporting"
    BY DEF ReportBatch, LiveRuns
  <1>2. /\ run[r] \in Run /\ j \in JobId /\ job[j] \in Job /\ job[j].state \in Live
    BY <1>1, OwnJob
  <1>3. job[j].cancel = r
    BY <1>1 DEF IInv, RunOwnsItsJob
  <1>4. /\ newJob.state = job[j].state /\ newJob.cancel = job[j].cancel
        /\ newJob.resumeFrom = job[j].resumeFrom
        /\ newJob.completed = Maximum(job[j].completed, run[r].next + 1)
    BY <1>2 DEF UpdatedBatch, Job
  <1>5. /\ run'[r].at = "looping" /\ run'[r].job = j
        /\ run'[r].next = run[r].next + 1 /\ run'[r].base = run[r].base
        /\ \A x \in RunId \ {r} : run'[x] = run[x]
        /\ job'[j] = newJob
        /\ \A k \in JobId \ {j} : job'[k] = job[k]
    BY <1>2 DEF ReportBatch, IInv, TypeOK, Run, Live
  <1> HIDE DEF newJob
  <1>6. JobFiles(j) /\ Needed(j) /\ Reached(j) = newJob.completed
    BY <1>1, <1>2, <1>3, <1>4 DEF SInv, Needed, Made, Reached, Live
  <1>7. ~Made(j)' /\ Reached(j)' = newJob.completed
    BY <1>2, <1>3, <1>4, <1>5 DEF Made, Reached, Live
  <1>8. JobFiles(j)'
    BY <1>4, <1>5, <1>6, <1>7 DEF JobFiles, files
  <1>9. RunInside(r)' /\ StagingTypeOK'
    <2>1. run[r].next >= StartIndex(r)
      BY <1>1 DEF SInv, RunInside, Before
    <2>2. StartIndex(r)' = StartIndex(r) /\ StartIndex(r) \in Nat
      BY <1>2, <1>5, WindowsAssumption DEF StartIndex, Run
    <2>3. run'[r].next >= StartIndex(r)'
      BY <1>2, <1>5, <2>1, <2>2 DEF Run
    <2>4. QED
      BY <1>5, <2>3 DEF RunInside, SInv, StagingTypeOK, files
  <1>10. QED
    BY <1>1, <1>2, <1>5, <1>8, <1>9, OthersKeepFiles DEF files

\* MarkFinished keeps the files to their jobs.
LEMMA MarkFinishedFiles ==
    ASSUME IInv, SInv, UNCHANGED <<files, diskFaults>>, NEW r \in RunId,
           NEW j \in JobId, j = run[r].job,
           MarkFinished(r)
    PROVE  SInv'
  <1> DEFINE newJob == [job[j] EXCEPT !.state = run[r].result,
                                      !.aged = FALSE, !.cancel = NoRun]
             marked == [job EXCEPT ![j] = newJob]
  <1>1. r \in LiveRuns /\ run[r].at = "returned"
    BY DEF MarkFinished, LiveRuns
  <1>2. /\ run[r] \in Run /\ j \in JobId /\ job[j] \in Job /\ job[j].state \in Live
        /\ run[r].result \in Terminal
    BY <1>1, OwnJob DEF Run
  <1>3. job[j].cancel = r
    BY <1>1 DEF IInv, RunOwnsItsJob
  <1>4. job' = Cleanup(marked) /\ run' = EndRun(r, j)
    BY <1>2 DEF MarkFinished, Live
  <1>5. /\ newJob.state = run[r].result /\ newJob.aged = FALSE
        /\ newJob.completed = job[j].completed
        /\ newJob.resumeFrom = job[j].resumeFrom
    BY <1>2 DEF Job
  <1>6. /\ marked[j] = newJob
        /\ \A k \in JobId \ {j} : marked[k] = job[k]
    BY <1>2 DEF IInv, TypeOK
  <1> HIDE DEF newJob, marked
  <1>7. /\ job'[j] = newJob
        /\ \A k \in JobId \ {j} : job'[k] \in {job[k], Absent}
    BY <1>2, <1>4, <1>5, <1>6 DEF Cleanup
  <1>8. run'[r] = NoRunYet /\ \A x \in RunId \ {r} : run'[x] = run[x]
    BY <1>3, <1>4 DEF EndRun
  <1>9. JobFiles(j) /\ (Made(j) <=> run[r].result = "completed")
        /\ Reached(j) = job[j].completed /\ job[j].state # "absent"
    BY <1>1, <1>2, <1>3 DEF SInv, Made, Reached, Live
  <1>10. (Made(j)' <=> run[r].result = "completed") /\ Reached(j)' = job[j].completed
    BY <1>2, <1>5, <1>7 DEF Made, Reached, Live, Terminal
  <1>11. JobFiles(j)'
    BY <1>5, <1>7, <1>9, <1>10 DEF JobFiles, Needed, files
  <1>12. r \notin LiveRuns' /\ StagingTypeOK'
    BY <1>8 DEF LiveRuns, NoRunYet, SInv, StagingTypeOK, files
  <1>13. QED
    BY <1>1, <1>2, <1>7, <1>8, <1>11, <1>12, OthersKeepFiles DEF files

----------------------------------------------------------------------------
\* Every step of the pipeline is one of the manager.
LEMMA StagingStepIsStep == ASSUME StagingNext PROVE Next
  BY DEF StagingNext, StartExport, ManagerStep, StagingRunStep,
         InitializeStagingFile, AppendBatch, AttemptsFail, AppendFails,
         ArchiveStaging, NoFileTouched, Next, Client, RunStep, Batch

\* Every step of the pipeline is one of the manager: the files never stand in
\* the way of it.
THEOREM StagingRefinesJobs == StagingSpec => Spec
  <1>1. StagingInit => Init
    BY DEF StagingInit
  <1>2. [StagingNext]_allVars => [Next]_vars
    BY StagingStepIsStep DEF allVars
  <1>3. QED
    BY <1>1, <1>2, PTL DEF StagingSpec, Spec

----------------------------------------------------------------------------
\* A goroutine returns without an archive, and the files stay.
LEMMA ReturnFiles ==
    ASSUME IInv, SInv, UNCHANGED <<files, diskFaults>>, NEW r \in LiveRuns,
           NEW j \in JobId, j = run[r].job,
           run[r].at \notin {"reporting", "returned"},
           NEW result \in {"failed", "canceled"}, Return(r, result)
    PROVE  SInv'
  <1>1. run[r] \in Run /\ job[j].state \in Live
    BY OwnJob
  <1>2. /\ run'[r].at = "returned" /\ run'[r].result = result
        /\ \A x \in RunId \ {r} : run'[x] = run[x]
        /\ UNCHANGED job
    BY <1>1 DEF Return, IInv, TypeOK, Run, LiveRuns
  <1>3. RunInside(r)'
    BY <1>2 DEF RunInside
  <1>4. QED
    BY <1>1, <1>2, <1>3, QuietFiles

\* A goroutine goes on, and the files stay.
LEMMA GotoFiles ==
    ASSUME IInv, SInv, UNCHANGED <<files, diskFaults>>, NEW r \in LiveRuns,
           NEW j \in JobId, j = run[r].job, run[r].at = "looping",
           NEW stage \in {"exporting", "archiving"}, Goto(r, stage),
           stage = "exporting" => run[r].next < Windows[j],
           stage = "archiving" => run[r].next >= Windows[j]
    PROVE  SInv'
  <1>1. run[r] \in Run /\ job[j].state \in Live
    BY OwnJob
  <1>2. /\ run'[r].at = stage /\ run'[r].job = j
        /\ run'[r].next = run[r].next /\ run'[r].base = run[r].base
        /\ \A x \in RunId \ {r} : run'[x] = run[x]
        /\ UNCHANGED job
    BY <1>1 DEF Goto, IInv, TypeOK, Run, LiveRuns
  <1>3. run[r].next >= StartIndex(r) /\ StartIndex(r)' = StartIndex(r)
    BY <1>2 DEF SInv, RunInside, StartIndex, Before
  <1>4. RunInside(r)'
    BY <1>2, <1>3 DEF RunInside
  <1>5. QED
    BY <1>1, <1>2, <1>4, QuietFiles

\* ReadBase keeps the files to their jobs.
LEMMA ReadBaseFiles ==
    ASSUME IInv, SInv, UNCHANGED <<files, diskFaults>>, NEW r \in RunId,
           NEW j \in JobId, j = run[r].job, ReadBase(r)
    PROVE  SInv'
  <1>1. r \in LiveRuns /\ run[r].at = "spawned"
    BY DEF ReadBase, LiveRuns
  <1>2. run[r] \in Run /\ job[j].state \in Live
    BY <1>1, OwnJob
  <1>3. /\ run'[r].at = "based"
        /\ \A x \in RunId \ {r} : run'[x] = run[x]
        /\ UNCHANGED job
    BY <1>2 DEF ReadBase, IInv, TypeOK, Run
  <1>4. RunInside(r)'
    BY <1>3 DEF RunInside, Before
  <1>5. QED
    BY <1>1, <1>2, <1>3, <1>4, QuietFiles

\* MarkRunning keeps the files to their jobs.
LEMMA MarkRunningFiles ==
    ASSUME IInv, SInv, UNCHANGED <<files, diskFaults>>, NEW r \in RunId,
           NEW j \in JobId, j = run[r].job, MarkRunning(r)
    PROVE  SInv'
  <1>1. r \in LiveRuns /\ run[r].at = "based"
    BY DEF MarkRunning, LiveRuns
  <1>2. run[r] \in Run /\ job[j].state \in Live /\ job[j] \in Job
    BY <1>1, OwnJob
  <1>3. /\ run'[r].at = "opening"
        /\ \A x \in RunId \ {r} : run'[x] = run[x]
        /\ job'[j] = [job[j] EXCEPT !.state = "running"]
        /\ \A k \in JobId \ {j} : job'[k] = job[k]
    BY <1>2 DEF MarkRunning, IInv, TypeOK, Run, Live
  <1>4. /\ job'[j].state \in Live /\ job'[j].cancel = job[j].cancel
        /\ job'[j].completed = job[j].completed
        /\ job'[j].resumeFrom = job[j].resumeFrom
    BY <1>2, <1>3 DEF Job, Live
  <1>5. RunInside(r)'
    BY <1>3 DEF RunInside, Before
  <1>6. QED
    BY <1>1, <1>3, <1>4, <1>5, QuietFiles

----------------------------------------------------------------------------
(* The staging invariant.  It is inductive beside IInv and CInv, which the *)
(* pipeline has because it refines the manager.                            *)

\* The staging files keep to their jobs in every reachable state.
THEOREM StagingInvariant == StagingSpec => []SInv
  <1>1. StagingInit => SInv
    <2> SUFFICES ASSUME StagingInit
                 PROVE  SInv
      OBVIOUS
    <2>1. StagingTypeOK
      BY DEF StagingInit, StagingTypeOK
    <2>2. \A j \in JobId : ~Needed(j) /\ ~Made(j)
      BY DEF StagingInit, Init, Absent, Needed, Made, Live
    <2>3. LiveRuns = {}
      BY DEF StagingInit, Init, LiveRuns, NoRunYet
    <2>4. QED
      BY <2>1, <2>2, <2>3 DEF SInv, JobFiles
  <1>2. IInv /\ CInv /\ SInv /\ [StagingNext]_allVars => SInv'
    <2> SUFFICES ASSUME IInv, CInv, SInv, [StagingNext]_allVars
                 PROVE  SInv'
      OBVIOUS
    <2>1. ASSUME UNCHANGED diskFaults, NEW j \in JobId, NEW r \in RunId,
                 StartExport(j, r)
          PROVE  SInv'
      BY <2>1, StartExportFiles
    <2>2. CASE ManagerStep /\ UNCHANGED diskFaults
      <3>1. ASSUME NEW j \in JobId, NEW r \in RunId, ResumeJob(j, r)
            PROVE  SInv'
        BY <2>2, <3>1, ResumeJobFiles DEF ManagerStep
      <3>2. CASE StartRejected
        <4>1. \A j \in JobId : \/ job'[j] = job[j]
                               \/ job'[j] = Absent
          BY <3>2 DEF StartRejected, Cleanup
        <4>2. QED
          BY <2>2, <3>2, <4>1, QuietManagerFiles
          DEF StartRejected, LiveRuns, ManagerStep
      <3>3. ASSUME NEW j \in JobId, CancelJob(j)
            PROVE  SInv'
        <4> DEFINE c == job[j].cancel
        <4>1. c \in RunId /\ run[c] \in Run
          BY <3>3, LiveRunTyped DEF CancelJob, IInv, JobHasRun, LiveJobs
        <4>2. /\ run'[c] = [run[c] EXCEPT !.canceled = TRUE]
              /\ \A x \in RunId \ {c} : run'[x] = run[x]
          BY <3>3, <4>1 DEF CancelJob, IInv, TypeOK
        <4>3. \A x \in RunId : /\ run'[x].at = run[x].at /\ run'[x].job = run[x].job
                               /\ run'[x].next = run[x].next
                               /\ run'[x].base = run[x].base
                               /\ run'[x].result = run[x].result
          BY <4>1, <4>2 DEF Run
        <4>4. QED
          BY <2>2, <3>3, <4>3, QuietManagerFiles
          DEF CancelJob, LiveRuns, ManagerStep
      <3>4. ASSUME NEW j \in JobId, Age(j)
            PROVE  SInv'
        <4>1. \A k \in JobId : /\ job'[k].state = job[k].state
                               /\ job'[k].cancel = job[k].cancel
                               /\ job'[k].completed = job[k].completed
                               /\ job'[k].resumeFrom = job[k].resumeFrom
          BY <3>4 DEF Age, IInv, TypeOK, Job
        <4>2. QED
          BY <2>2, <3>4, <4>1, QuietManagerFiles DEF Age, LiveRuns, ManagerStep
      <3>5. QED
        BY <2>2, <3>1, <3>2, <3>3, <3>4 DEF ManagerStep
    <2>3. ASSUME UNCHANGED diskFaults, NEW r \in RunId, StagingRunStep(r)
          PROVE  SInv'
      <3> DEFINE j == run[r].job
      <3>1. r \in LiveRuns
        BY <2>3 DEF LiveRuns, StagingRunStep, InitializeStagingFile, OpenStaging,
                    AppendBatch, BatchAppended, AttemptsFail, BatchCanceled,
                    BatchFails, AppendFails, ArchiveStaging, CreateArchive,
                    NoFileTouched, ReadBase, MarkRunning, OpenFails, BeginBatch,
                    ReportBatch, EndLoop, ArchiveFails, MarkFinished
      <3>2. j \in JobId
        BY <3>1, OwnJob
      <3>3. CASE InitializeStagingFile(r)
        BY <2>3, <3>2, <3>3, InitializeStagingFileFiles
      <3>4. CASE AppendBatch(r)
        BY <2>3, <3>2, <3>4, AppendBatchFiles
      <3>5. CASE AttemptsFail(r)
        BY <2>3, <3>1, <3>2, <3>5, ReturnFiles
        DEF AttemptsFail, BatchFails, BatchCanceled
      <3>6. CASE AppendFails(r)
        BY <2>3, <3>2, <3>6, AppendFailsFiles
      <3>7. CASE ArchiveStaging(r)
        BY <2>3, <3>2, <3>7, ArchiveStagingFiles
      <3>8. CASE NoFileTouched(r)
        <4> UNCHANGED <<files, diskFaults>>
          BY <2>3, <3>8 DEF NoFileTouched
        <4>1. CASE ReadBase(r)
          BY <3>2, <4>1, ReadBaseFiles
        <4>2. CASE MarkRunning(r)
          BY <3>2, <4>2, MarkRunningFiles
        <4>3. CASE OpenFails(r) \/ ArchiveFails(r)
          BY <3>1, <3>2, <4>3, ReturnFiles DEF OpenFails, ArchiveFails
        <4>4. CASE BeginBatch(r)
          BY <3>1, <3>2, <4>4, ReturnFiles, GotoFiles DEF BeginBatch
        <4>5. CASE ReportBatch(r)
          BY <3>2, <4>5, ReportBatchFiles
        <4>6. CASE EndLoop(r)
          BY <3>1, <3>2, <4>6, GotoFiles DEF EndLoop
        <4>7. CASE MarkFinished(r)
          BY <3>2, <4>7, MarkFinishedFiles
        <4>8. QED
          BY <3>8, <4>1, <4>2, <4>3, <4>4, <4>5, <4>6, <4>7 DEF NoFileTouched
      <3>9. QED
        BY <2>3, <3>3, <3>4, <3>5, <3>6, <3>7, <3>8 DEF StagingRunStep
    <2>4. CASE UNCHANGED allVars
      BY <2>4, QuietManagerFiles DEF allVars, vars, LiveRuns
    <2>5. QED
      BY <2>1, <2>2, <2>3, <2>4 DEF StagingNext
  <1>3. QED
    BY <1>1, <1>2, StagingRefinesJobs, InductiveInvariant, CountsInvariant, PTL
    DEF StagingSpec

\* The files have their types.
THEOREM StagingTypeCorrect == StagingSpec => []StagingTypeOK
  <1>1. SInv => StagingTypeOK
    BY DEF SInv
  <1>2. QED
    BY <1>1, StagingInvariant, PTL

\* While the disk works, the staging file is the completed batches in order,
\* for any number of jobs, failures, cancels and resumes.
THEOREM StagingAlwaysProgress == StagingSpec => []StagingIsProgress
  <1>1. IInv /\ CInv /\ SInv => StagingIsProgress
    <2> SUFFICES ASSUME IInv, CInv, SInv, ~diskFaults, NEW r \in LiveRuns,
                        run[r].at \in AfterOpening, run[r].base < Windows[run[r].job]
                 PROVE  staging[run[r].job] =
                          Clean(IF run[r].at = "reporting"
                                  THEN job[run[r].job].completed + 1
                                  ELSE job[run[r].job].completed)
      BY DEF StagingIsProgress
    <2> DEFINE j == run[r].job
    <2>1. /\ j \in JobId /\ job[j] \in Job /\ job[j].state \in Live
          /\ job[j].cancel = r /\ run[r] \in Run
      BY OwnJob DEF IInv, RunOwnsItsJob
    <2>2. Needed(j) /\ JobFiles(j)
      BY <2>1 DEF SInv, Needed, Made, Live, AfterOpening
    <2>3. run[r].base = job[j].resumeFrom /\ job[j].completed = run[r].next
      BY <2>1 DEF CInv, RunCounted, AfterOpening, Before
    <2>4. Reached(j) = IF run[r].at = "reporting" THEN job[j].completed + 1
                       ELSE job[j].completed
      BY <2>1, <2>3 DEF Reached, Maximum, Job
    <2>5. QED
      BY <2>2, <2>3, <2>4 DEF JobFiles
  <1>2. QED
    BY <1>1, StagingRefinesJobs, InductiveInvariant, CountsInvariant,
       StagingInvariant, PTL

\* No resume ever skips a batch that is not in the file: the archive of a
\* completed job holds every batch, on any disk.
THEOREM NoBatchEverSkipped == StagingSpec => []NoBatchSkipped
  <1>1. SInv => NoBatchSkipped
    BY DEF SInv, JobFiles, Made, Holds, NoBatchSkipped
  <1>2. QED
    BY <1>1, StagingInvariant, PTL
=============================================================================
