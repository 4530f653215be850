----------------------------- MODULE ImportJobs -----------------------------
(***************************************************************************)
(* An import job of the importer (internal/importer/server/server.go): the *)
(* upload, the goroutine that streams the bundle to the target in chunks   *)
(* (runImportJob, streamImport), and the resume of an import that failed   *)
(* on the way, from the offset of the last chunk the target confirmed.     *)
(* Jobs share nothing but the lock of their map, so one job is modelled.   *)
(*                                                                         *)
(* The bundle is a sequence of lines with their sizes in bytes.  The       *)
(* scanner strips a CR before the LF, and the code adds one byte for the   *)
(* line break it no longer sees: offsets are counted here as they are      *)
(* there, and a seek may land inside a line.                               *)
(***************************************************************************)
EXTENDS Integers, Sequences, FiniteSets

CONSTANTS
    RunId,          \* goroutines
    Bundles,        \* the line sequences a user may upload
    ChunkLines,     \* lines that fill a chunk (maxImportChunkBytes)
    DeliveryBound   \* bound: no resume once a line was delivered more often

\* chars: without the line break; lf is 0 only in a last line without one.
\* kind: "huge" is too long for the scanner's buffer, "skip" is malformed,
\* or has no point left after the retention filter.
Line == [chars : Nat, cr : {0, 1}, lf : {0, 1}, kind : {"good", "skip", "huge"}]

\* Only the last line may lack a line break, and is not empty then.
ASSUME BundleAssumption ==
    /\ Bundles \subseteq Seq(Line)
    /\ \A b \in Bundles : \A i \in 1..Len(b) :
          b[i].lf = 0 => i = Len(b) /\ b[i].chars > 0
ASSUME ChunkAssumption  == ChunkLines \in Nat \ {0}

VARIABLES
    lines,     \* the bundle's lines, fixed
    zip,       \* whether the upload is a .zip that has to be extracted, fixed
    lossy,     \* whether a post may be accepted and fail nevertheless, fixed
    job,       \* the job's entry in the map
    files,     \* the temporary files that exist
    run,       \* the goroutines of `go s.runImportJob(...)`
    delivered, \* how often the target has taken in each line
    resumed    \* whether the import was ever resumed, to state CleanedUp

vars == <<lines, zip, lossy, job, files, run, delivered, resumed>>

Temp == {"upload", "metrics"}

Job == [state : {"absent", "queued", "running", "completed", "failed"},
        offset : Nat, ready : BOOLEAN, bundle : Temp \union {"none"}]

\* temp: tempPath; original: whether originalName is that of the upload;
\* bundle: MetricsPath; start: startOffset; pos: where the file is read,
\* current, committed, chunkEnd: the offsets as streamImport counts them;
\* chunk: the lines in the chunk; remove: what the deferred calls remove.
Run == [at : {"spawned", "extracting", "opening", "scanning", "posting",
              "failing", "verifying", "leaving"},
        temp : Temp, original : BOOLEAN, bundle : Temp, start : Nat,
        pos : Nat, current : Nat, committed : Nat, chunkEnd : Nat,
        chunk : Seq(Nat \ {0}), remove : SUBSET Temp]
NoRunYet == [at |-> "none"]

LiveRuns == {r \in RunId : run[r].at # "none"}

(* The bundle, in bytes.                                                   *)

Size(i) == lines[i].chars + lines[i].cr + lines[i].lf

\* Where line i starts; at Len(lines) + 1, where the bundle ends.
LineStart ==
    LET start[i \in 1..Len(lines) + 1] ==
          IF i = 1 THEN 0 ELSE start[i - 1] + Size(i - 1)
    IN  start

EndOfFile == LineStart[Len(lines) + 1]

TypeOK ==
    /\ lines \in Bundles
    /\ zip \in BOOLEAN
    /\ lossy \in BOOLEAN
    /\ job \in Job
    /\ files \subseteq Temp
    /\ run \in [RunId -> Run \union {NoRunYet}]
    /\ \A r \in LiveRuns : /\ run[r].chunk \in Seq(DOMAIN lines)
                           /\ Len(run[r].chunk) <= ChunkLines
                           /\ run[r].current <= EndOfFile + 1
    /\ delivered \in [DOMAIN lines -> Nat]
    /\ resumed \in BOOLEAN

Init ==
    /\ lines \in Bundles
    /\ zip \in BOOLEAN
    /\ lossy \in BOOLEAN
    /\ job = [state |-> "absent", offset |-> 0, ready |-> FALSE, bundle |-> "none"]
    /\ files = {}
    /\ run = [r \in RunId |-> NoRunYet]
    /\ delivered = [i \in DOMAIN lines |-> 0]
    /\ resumed = FALSE

----------------------------------------------------------------------------
(* What the scanner reads, and how its bytes are counted.                  *)

\* The line that a read at pos falls into, and the bytes of it still ahead.
LineAt(pos) == CHOOSE i \in DOMAIN lines :
                  LineStart[i] <= pos /\ pos < LineStart[i + 1]
Ahead(pos) == LineStart[LineAt(pos) + 1] - pos

\* Mutant: the line break is counted twice.
CountedTwice(pos) == Ahead(pos) + 1

\* len(line) + 1, where the scanner has dropped the CR if it was still ahead.
Counted(pos) ==
    LET l == lines[LineAt(pos)] IN
    IF Ahead(pos) > l.lf THEN Ahead(pos) - l.lf - l.cr + 1 ELSE 1

\* A line read in whole is sent if it is good; the rest of a line is not JSON.
Sent(pos) == lines[LineAt(pos)].kind = "good" /\ pos = LineStart[LineAt(pos)]

----------------------------------------------------------------------------
(* The HTTP handlers.                                                      *)

Spawned(temp, original, start) ==
    [at |-> "spawned", temp |-> temp, original |-> original, bundle |-> temp,
     start |-> start, pos |-> 0, current |-> 0, committed |-> start,
     chunkEnd |-> 0, chunk |-> <<>>, remove |-> {}]

\* handleUpload
Upload(r) ==
    /\ job.state = "absent"
    /\ run[r].at = "none"
    /\ files' = files \union {"upload"}
    /\ job' = [job EXCEPT !.state = "queued"]
    /\ run' = [run EXCEPT ![r] = Spawned("upload", TRUE, 0)]
    /\ UNCHANGED <<lines, zip, lossy, resumed, delivered>>

\* Mutants: the job stays resumable; a job that failed at all is resumed.
ResumeJobAgain(r) ==
    /\ job.ready
    /\ run[r].at = "none"
    /\ \A i \in DOMAIN lines : delivered[i] <= DeliveryBound
    /\ job' = [job EXCEPT !.state = "queued"]
    /\ run' = [run EXCEPT ![r] = Spawned(job.bundle, FALSE, job.offset)]
    /\ resumed' = TRUE
    /\ UNCHANGED <<lines, zip, lossy, files, delivered>>

\* handleResume
ResumeJob(r) ==
    /\ job.ready
    /\ run[r].at = "none"
    /\ \A i \in DOMAIN lines : delivered[i] <= DeliveryBound
    /\ job' = [job EXCEPT !.state = "queued", !.ready = FALSE]
    /\ run' = [run EXCEPT ![r] = Spawned(job.bundle, FALSE, job.offset)]
    /\ resumed' = TRUE
    /\ UNCHANGED <<lines, zip, lossy, files, delivered>>

----------------------------------------------------------------------------
(* The goroutine.                                                          *)

Goto(r, stage) == run' = [run EXCEPT ![r].at = stage]

\* It returns; the deferred calls that remove files are those set so far.
Quit(r, remove) ==
    run' = [run EXCEPT ![r] = [@ EXCEPT !.at = "leaving", !.remove = remove]]

Begin(r) ==
    /\ run[r].at = "spawned"
    /\ job' = [state |-> "running", offset |-> run[r].start, ready |-> FALSE,
               bundle |-> run[r].temp]
    /\ Goto(r, "extracting")
    /\ UNCHANGED <<lines, zip, lossy, resumed, files, delivered>>

\* prepareBundle: a zip by its original name is extracted, anything else is
\* streamed as it is.
PrepareBundle(r) ==
    LET bundle == IF zip /\ run[r].original THEN "metrics" ELSE run[r].temp IN
    /\ run[r].at = "extracting"
    /\ run[r].temp \in files
    /\ files' = files \union {bundle}
    /\ job' = [job EXCEPT !.bundle = bundle]
    /\ run' = [run EXCEPT ![r] = [@ EXCEPT !.at = "opening", !.bundle = bundle]]
    /\ UNCHANGED <<lines, zip, lossy, resumed, delivered>>

\* failJob: this failure is not resumable, and the bundle is removed.
PrepareFails(r) ==
    /\ run[r].at = "extracting"
    /\ job' = [job EXCEPT !.state = "failed"]
    /\ Quit(r, {run[r].temp})
    /\ UNCHANGED <<lines, zip, lossy, resumed, files, delivered>>

\* streamImport from here on: the file is opened and read from startOffset.
Open(r) ==
    /\ run[r].at = "opening"
    /\ run[r].bundle \in files
    /\ run' = [run EXCEPT ![r] = [@ EXCEPT !.at = "scanning", !.pos = run[r].start,
                                           !.current = run[r].start]]
    /\ UNCHANGED <<lines, zip, lossy, resumed, job, files, delivered>>

OpenFails(r) ==
    /\ run[r].at = "opening"
    /\ Goto(r, "failing")
    /\ UNCHANGED <<lines, zip, lossy, resumed, job, files, delivered>>

\* Mutant: one line too many.
ChunkFullLate(chunk) == Len(chunk) > ChunkLines

ChunkFull(chunk) == Len(chunk) >= ChunkLines

\* The next line, or what is left of it.
ScanLine(r) ==
    LET g == run[r]
        counted == g.current + Counted(g.pos)
        read == g.pos + Ahead(g.pos)
        chunk == Append(g.chunk, LineAt(g.pos))
    IN
    /\ g.at = "scanning"
    /\ g.pos < EndOfFile
    /\ lines[LineAt(g.pos)].kind # "huge"
    /\ IF Sent(g.pos)
         THEN run' = [run EXCEPT ![r] =
                        [@ EXCEPT !.at = IF ChunkFull(chunk) THEN "posting"
                                         ELSE "scanning",
                                  !.pos = read, !.current = counted,
                                  !.chunk = chunk, !.chunkEnd = counted]]
         ELSE run' = [run EXCEPT ![r] = [@ EXCEPT !.pos = read,
                                                  !.current = counted]]
    /\ UNCHANGED <<lines, zip, lossy, resumed, job, files, delivered>>

\* scanner.Err(): a line too long, or the disk; the chunk is not posted.
ScanFails(r) ==
    /\ run[r].at = "scanning"
    /\ Goto(r, "failing")
    /\ UNCHANGED <<lines, zip, lossy, resumed, job, files, delivered>>

\* After the last line the chunk that is left is posted, if there is one.
ScanEnds(r) ==
    /\ run[r].at = "scanning"
    /\ run[r].pos >= EndOfFile
    /\ Goto(r, IF run[r].chunk = <<>> THEN "verifying" ELSE "posting")
    /\ UNCHANGED <<lines, zip, lossy, resumed, job, files, delivered>>

Times(i, chunk) == Cardinality({k \in DOMAIN chunk : chunk[k] = i})
TakeIn(chunk) ==
    delivered' = [i \in DOMAIN lines |-> delivered[i] + Times(i, chunk)]

\* commitChunk, of which postImportChunk is a request to the target.
ChunkCommitted(r) ==
    /\ run[r].at = "posting"
    /\ TakeIn(run[r].chunk)
    /\ run' = [run EXCEPT ![r] = [@ EXCEPT !.at = "scanning", !.chunk = <<>>,
                                           !.committed = run[r].chunkEnd]]
    /\ UNCHANGED <<lines, zip, lossy, resumed, job, files>>

ChunkRejected(r) ==
    /\ run[r].at = "posting"
    /\ Goto(r, "failing")
    /\ UNCHANGED <<lines, zip, lossy, resumed, job, files, delivered>>

\* The target has the chunk, but its answer does not arrive in time.
ChunkUnanswered(r) ==
    /\ run[r].at = "posting"
    /\ lossy
    /\ TakeIn(run[r].chunk)
    /\ Goto(r, "failing")
    /\ UNCHANGED <<lines, zip, lossy, resumed, job, files>>

\* Mutants: what was read; where this run started.
ProcessedBytesRead(r)    == run[r].current
ProcessedBytesStarted(r) == run[r].start

\* summary.ProcessedBytes: what the target has confirmed.
ProcessedBytes(r) == run[r].committed

\* Mutants: cleanupTemp stays set; State is not.
FailImportCleaning(r) ==
    /\ run[r].at = "failing"
    /\ job' = [job EXCEPT !.state = "failed", !.offset = ProcessedBytes(r),
                          !.ready = TRUE]
    /\ Quit(r, {run[r].temp})
    /\ UNCHANGED <<lines, zip, lossy, resumed, files, delivered>>

FailImportStillRunning(r) ==
    /\ run[r].at = "failing"
    /\ job' = [job EXCEPT !.offset = ProcessedBytes(r), !.ready = TRUE]
    /\ Quit(r, {})
    /\ UNCHANGED <<lines, zip, lossy, resumed, files, delivered>>

\* The files are kept for the resume.
FailImport(r) ==
    /\ run[r].at = "failing"
    /\ job' = [job EXCEPT !.state = "failed", !.offset = ProcessedBytes(r),
                          !.ready = TRUE]
    /\ Quit(r, {})
    /\ UNCHANGED <<lines, zip, lossy, resumed, files, delivered>>

\* Mutant: bundle.Cleanup is not deferred.
CompleteKeeping(r) ==
    /\ run[r].at = "verifying"
    /\ job' = [state |-> "completed", offset |-> 0, ready |-> FALSE,
               bundle |-> "none"]
    /\ Quit(r, {run[r].temp})
    /\ UNCHANGED <<lines, zip, lossy, resumed, files, delivered>>

\* verifyImport, whose outcome is only reported, and the completed job.
Complete(r) ==
    /\ run[r].at = "verifying"
    /\ job' = [state |-> "completed", offset |-> 0, ready |-> FALSE,
               bundle |-> "none"]
    /\ Quit(r, {run[r].temp, run[r].bundle})
    /\ UNCHANGED <<lines, zip, lossy, resumed, files, delivered>>

\* The deferred calls, and the end of the goroutine.
Leave(r) ==
    /\ run[r].at = "leaving"
    /\ files' = files \ run[r].remove
    /\ run' = [run EXCEPT ![r] = NoRunYet]
    /\ UNCHANGED <<lines, zip, lossy, resumed, job, delivered>>

RunStep(r) ==
    \/ Begin(r)
    \/ PrepareBundle(r)
    \/ PrepareFails(r)
    \/ Open(r)
    \/ OpenFails(r)
    \/ ScanLine(r)
    \/ ScanFails(r)
    \/ ScanEnds(r)
    \/ ChunkCommitted(r)
    \/ ChunkRejected(r)
    \/ ChunkUnanswered(r)
    \/ FailImport(r)
    \/ Complete(r)
    \/ Leave(r)

Next ==
    \/ \E r \in RunId : Upload(r) \/ ResumeJob(r)
    \/ \E r \in RunId : RunStep(r)

Spec == Init /\ [][Next]_vars

\* The goroutine keeps running: every request has the client's timeout.
FairSpec == Spec /\ \A r \in RunId : WF_vars(RunStep(r))

----------------------------------------------------------------------------
Working == {r \in LiveRuns : run[r].at # "leaving"}
Good == {i \in DOMAIN lines : lines[i].kind = "good"}

\* A job that is completed has delivered every good line, however often it
\* failed and was resumed, and whatever line breaks the bundle has: an offset
\* that was counted wrong only ever goes back too far.
NothingLost ==
    job.state = "completed" => \A i \in Good : delivered[i] >= 1

\* A resume never starts behind a line that is still to be delivered, and
\* neither do the lines that are in no chunk yet lie before the next read.
OffsetNotAhead ==
    /\ job.ready => \A i \in Good : delivered[i] = 0 => LineStart[i] >= job.offset
    /\ \A r \in Working : \A i \in Good : delivered[i] = 0 =>
         /\ LineStart[i] >= run[r].committed
         /\ run[r].at \in {"scanning", "posting"} =>
              LineStart[i] >= run[r].pos \/ Times(i, run[r].chunk) = 1

\* With LF line breaks, and a target that does not take in what it fails to
\* confirm, no line is delivered twice: offsets are exact.
DeliveredOnce ==
    ~lossy /\ (\A i \in DOMAIN lines : lines[i].cr = 0) =>
        \A i \in DOMAIN lines : delivered[i] <= 1

\* One goroutine at a time works on the job, and none on a job that may be
\* resumed: two resumes that race start one goroutine, and the one that
\* failed has only to leave.
OneWorks ==
    /\ Cardinality(Working) <= 1
    /\ Working # {} <=> job.state \in {"queued", "running"}
    /\ job.ready => job.state = "failed"

\* The file a resume will read is there, and the file a goroutine reads is
\* not removed under it, by the one before it in particular.
BundleKept ==
    /\ job.ready => job.bundle \in files
    /\ \A r \in Working : run[r].temp \in files /\ run[r].bundle \in
         IF run[r].at \in {"spawned", "extracting"} THEN Temp ELSE files

\* Once the job is over for good and its goroutines are gone, no temporary
\* file is left, with one exception: a resume of a zip removes the file it
\* reads, which is the one extracted from it, and nothing removes the upload.
CleanedUp ==
    /\ LiveRuns = {}
    /\ job.state \in {"completed", "failed"} /\ ~job.ready
    => files = IF zip /\ resumed THEN {"upload"} ELSE {}

\* Every upload and every resume ends, with success or with an error.
JobSettles ==
    job.state \in {"queued", "running"} ~> job.state \in {"completed", "failed"}
=============================================================================
