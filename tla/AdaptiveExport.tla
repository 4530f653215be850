--------------------------- MODULE AdaptiveExport ---------------------------
(***************************************************************************)
(* exportWindowAdaptive and runSplitAttemptsAtomically (export_service.go):*)
(* how one batch window is exported from a backend that may refuse it.     *)
(* The recursion is made explicit: attempt is the call under way, and      *)
(* stack holds, innermost first, the split files of the calls around it    *)
(* with the sub-attempts they still have to make.                          *)
(*                                                                         *)
(* Time is counted in units of one second.  What an attempt writes is      *)
(* represented by the attempt: the jobs and the closed time range it       *)
(* covers, and the step query_range sampled them at.  The decisions        *)
(* reported to the user are left out, except what ends in the archive's    *)
(* metadata.                                                               *)
(***************************************************************************)
EXTENDS Integers, Sequences, FiniteSets

CONSTANTS
    Job,        \* the jobs an export can select
    Configs,    \* the configurations, after ApplyExportDefaults
    MinStep,    \* minBatchInterval, the smallest step of query_range
    Start, End  \* the batch window

\* A job is selected once; jobSplit: what buildJobSplitAttempt makes of one.
ConfigType(c) ==
    /\ c.jobs \in Seq(Job)
    /\ \A i, j \in DOMAIN c.jobs : c.jobs[i] = c.jobs[j] => i = j
    /\ {c.queryRange, c.autoSplit, c.splitByJob, c.autopilot} \subseteq BOOLEAN
    /\ c.jobSplit \in {"export", "query_range", "none"}
    /\ {c.minWindow, c.maxDepth, c.step} \subseteq Nat \ {0}
    \* normalizeStepLadder: no rung is below the smallest step
    /\ c.ladder \subseteq {s \in Nat : s >= MinStep} /\ IsFiniteSet(c.ladder)

ASSUME WindowAssumption == Start \in Nat /\ End \in Nat /\ Start <= End
ASSUME StepAssumption == MinStep \in Nat \ {0}
ASSUME ConfigAssumption == \A c \in Configs : ConfigType(c)

VARIABLES
    config,   \* the export's configuration, fixed
    attempt,  \* the attempt under way
    stack,    \* the split files being filled, innermost first
    staging,  \* what this window appended to the main staging file
    phase,    \* "trying", "settling" a finished sub-attempt, "ok", "failed"
    sampled,  \* adaptiveExportStats.Sampled
    maxStep   \* adaptiveExportStats.MaxStepSecondsUsed

vars == <<config, attempt, stack, staging, phase, sampled, maxStep>>

Attempts == [jobs : Seq(Job), from : Start..End, to : Start..End,
             queryRange : BOOLEAN, step : Nat, depth : Nat]

\* An append to the main staging file: of all of the output, or of a part.
Appends == [whole : BOOLEAN, output : Seq(Attempts)]
Whole(output) == [whole |-> TRUE, output |-> output]
Torn(output)  == [whole |-> FALSE, output |-> output]

\* A call that has split its attempt: the sub-attempts it still has to make,
\* and its split file.
Frames == [split : Attempts, todo : Seq(Attempts), file : Seq(Attempts)]

TypeOK ==
    /\ config \in Configs
    /\ attempt \in Attempts
    /\ attempt.depth <= config.maxDepth + 1  \* the last one by MissingRoute
    /\ stack \in Seq(Frames)
    /\ staging \in Seq(Appends)
    /\ phase \in {"trying", "settling", "ok", "failed"}
    /\ sampled \in BOOLEAN
    /\ maxStep \in Nat

\* newExportAttempt
FirstAttempt(c) ==
    [jobs |-> c.jobs, from |-> Start, to |-> End, queryRange |-> c.queryRange,
     step |-> c.step, depth |-> 0]

Init ==
    /\ config \in Configs
    /\ attempt = FirstAttempt(config)
    /\ stack = <<>>
    /\ staging = <<>>
    /\ phase = "trying"
    /\ sampled = FALSE
    /\ maxStep = config.step

----------------------------------------------------------------------------
\* Mutant: the step used last is recorded.
NoteStepLast(step) == maxStep' = step

\* recordAdaptiveDecision, recordAttemptSuccess: the largest step used.
NoteStep(step) == maxStep' = IF step > maxStep THEN step ELSE maxStep

\* Mutant: every attempt is appended to the main staging file.
AppendToMain(output) ==
    staging' = Append(staging, Whole(output)) /\ UNCHANGED stack

\* appendFile to the destination of the call: the innermost split file, or
\* the main staging file.
AppendTo(output) ==
    IF stack = <<>>
      THEN staging' = Append(staging, Whole(output)) /\ UNCHANGED stack
      ELSE /\ stack' = [stack EXCEPT ![1].file = @ \o output]
           /\ UNCHANGED staging

\* determineQueryRangeStep; no step reaches its upper limit of a day.
QueryRangeStep(step) == IF step < MinStep THEN MinStep ELSE step

\* The attempt's file.  The step counts only for what query_range sampled.
Written ==
    IF attempt.queryRange
      THEN [attempt EXCEPT !.step = QueryRangeStep(attempt.step)]
      ELSE attempt

\* The attempt's file is complete and is appended to the destination; the
\* step noted is the one asked for.
AttemptSucceeds ==
    /\ phase = "trying"
    /\ AppendTo(<<Written>>)
    /\ phase' = IF stack = <<>> THEN "ok" ELSE "settling"
    /\ sampled' = (sampled \/ attempt.queryRange)
    /\ NoteStep(attempt.step)
    /\ UNCHANGED <<config, attempt>>

\* The next sub-attempt of the innermost split.
NextChild ==
    /\ phase = "settling"
    /\ stack[1].todo # <<>>
    /\ attempt' = Head(stack[1].todo)
    /\ stack' = [stack EXCEPT ![1].todo = Tail(@)]
    /\ phase' = "trying"
    /\ UNCHANGED <<config, staging, sampled, maxStep>>

\* The innermost split is complete: its file goes to the destination around it.
CloseSplit ==
    LET output == stack[1].file IN
    /\ phase = "settling"
    /\ stack[1].todo = <<>>
    /\ IF Len(stack) = 1
         THEN /\ staging' = Append(staging, Whole(output))
              /\ phase' = "ok"
              /\ stack' = <<>>
         ELSE /\ stack' = [Tail(stack) EXCEPT ![1].file = @ \o output]
              /\ UNCHANGED <<staging, phase>>
    /\ UNCHANGED <<config, attempt, sampled, maxStep>>

\* An error: every split around the call removes its file and returns it.
Fail(main) ==
    /\ phase' = "failed"
    /\ stack' = <<>>
    /\ staging' = main
    /\ UNCHANGED <<config, attempt, sampled, maxStep>>

\* The attempt was written, but appending it to its destination failed.
AttemptAppendFails ==
    /\ phase = "trying"
    /\ phase' = "failed"
    /\ stack' = <<>>
    /\ staging' = IF stack = <<>> THEN Append(staging, Torn(<<Written>>))
                                  ELSE staging
    /\ sampled' = (sampled \/ attempt.queryRange)
    /\ NoteStep(attempt.step)
    /\ UNCHANGED <<config, attempt>>

SplitAppendFails ==
    /\ phase = "settling"
    /\ stack[1].todo = <<>>
    /\ Fail(IF Len(stack) = 1 THEN Append(staging, Torn(stack[1].file))
                              ELSE staging)

\* Try the same window again, in another way.
Retry(next) ==
    /\ attempt' = next
    /\ UNCHANGED <<config, stack, staging, phase, sampled, maxStep>>

\* runSplitAttemptsAtomically: a new split file and its sub-attempts.
Split(children) ==
    /\ stack' = <<[split |-> attempt, todo |-> Tail(children), file |-> <<>>]>>
                \o stack
    /\ attempt' = Head(children)
    /\ UNCHANGED <<config, staging, phase, sampled>>

----------------------------------------------------------------------------
(* What follows the errors of the backend, by their kind.                  *)

MissingRoute ==
    /\ phase = "trying"
    /\ IF ~attempt.queryRange
         THEN Retry([attempt EXCEPT !.queryRange = TRUE, !.depth = @ + 1])
         ELSE Fail(staging)

\* Mutant: one level too deep.
MaySplitDeeper == config.autoSplit /\ attempt.depth <= config.maxDepth

MaySplit == config.autoSplit /\ attempt.depth < config.maxDepth

\* buildJobSplitAttempt; the window, the step and one job are the child's.
JobChild(j) ==
    [attempt EXCEPT !.jobs = <<j>>, !.depth = attempt.depth + 1,
                    !.queryRange = (config.jobSplit = "query_range")]

TooManySeries ==
    /\ phase = "trying"
    /\ IF /\ MaySplit /\ config.splitByJob /\ config.jobSplit # "none"
          /\ Len(attempt.jobs) > 1
         THEN /\ Split([i \in DOMAIN attempt.jobs |-> JobChild(attempt.jobs[i])])
              /\ UNCHANGED maxStep
         ELSE Fail(staging)

\* splitTimeRange: two halves that share their middle, none of them empty.
Middle == attempt.from + (attempt.to - attempt.from) \div 2
SplittableInTime ==
    /\ attempt.to - attempt.from > config.minWindow
    /\ attempt.from < Middle /\ Middle < attempt.to

TimeChildren ==
    <<[attempt EXCEPT !.to = Middle, !.depth = @ + 1],
      [attempt EXCEPT !.from = Middle, !.depth = @ + 1]>>

\* Mutant: any other rung.
OtherSteps == {s \in config.ladder : config.autopilot /\ s # attempt.step}

\* nextAutopilotStep: the next rung of the ladder.
LargerSteps == {s \in config.ladder : config.autopilot /\ s > attempt.step}
NextStep == CHOOSE s \in LargerSteps : \A t \in LargerSteps : s <= t

QueryTimeout ==
    /\ phase = "trying"
    /\ IF attempt.queryRange /\ MaySplit /\ SplittableInTime
         THEN Split(TimeChildren) /\ NoteStep(attempt.step)
       ELSE IF attempt.queryRange /\ LargerSteps # {}
         THEN \* recordAdaptiveDecision notes the larger step at once
              /\ attempt' = [attempt EXCEPT !.step = NextStep, !.depth = 0]
              /\ sampled' = TRUE
              /\ NoteStep(NextStep)
              /\ UNCHANGED <<config, stack, staging, phase>>
       ELSE Fail(staging)

\* Any other error, the context's among them.
OtherError == phase = "trying" /\ Fail(staging)

Next ==
    \/ AttemptSucceeds
    \/ AttemptAppendFails
    \/ NextChild
    \/ CloseSplit
    \/ SplitAppendFails
    \/ MissingRoute
    \/ TooManySeries
    \/ QueryTimeout
    \/ OtherError

Spec == Init /\ [][Next]_vars
FairSpec == Spec /\ WF_vars(Next)

----------------------------------------------------------------------------
Covers(a, j) == \E i \in DOMAIN a.jobs : a.jobs[i] = j

\* What the file holds of one job, in the order it was written, is a gapless
\* sequence of ranges that overlaps nowhere but in the points of the cuts.
Tiles(file, j, from, to) ==
    LET places == {i \in DOMAIN file : Covers(file[i], j)} IN
    /\ places # {}
    /\ \A i \in places :
         /\ (\A k \in places : i <= k) => file[i].from = from
         /\ (\A k \in places : k <= i) => file[i].to = to
         /\ \A k \in places :
              i < k /\ (\A n \in places : n <= i \/ k <= n) =>
                file[i].to = file[k].from

\* The main staging file is written once per window: with the complete
\* output of every selected job over the whole window, whatever splits,
\* fallbacks and coarser steps it took to get it, and not before the last
\* piece is there.  A window that fails leaves at most the rest of that one
\* append.
WindowIsAtomic ==
    /\ phase \in {"trying", "settling"} => staging = <<>>
    /\ phase = "failed" =>
         Len(staging) <= 1 /\ \A i \in DOMAIN staging : ~staging[i].whole
    /\ phase = "ok" =>
         /\ Len(staging) = 1
         /\ staging[1].whole
         /\ \A i \in DOMAIN config.jobs :
               Tiles(staging[1].output, config.jobs[i], Start, End)

\* The archive's metadata owns up to sampling: output that came from
\* query_range sets Sampled, and was sampled at a step no larger than the
\* recorded maximum, or than the smallest step where the maximum is below it
\* (a step that was asked for and raised is recorded as it was asked for).
SamplingIsRecorded ==
    phase = "ok" => \A i \in DOMAIN staging[1].output :
        LET piece == staging[1].output[i] IN
        piece.queryRange => sampled /\ piece.step <= QueryRangeStep(maxStep)

\* Whatever the backend answers, the window is exported or given up: the
\* splits end at the minimum window or the maximum depth, and the steps at
\* the end of the ladder.
WindowEnds == <>(phase \in {"ok", "failed"})
=============================================================================
