------------------------ MODULE AdaptiveExportProofs ------------------------
(***************************************************************************)
(* Proofs about AdaptiveExport, for any window and configurations: the     *)
(* state is well-typed, the archive's metadata owns up to sampling, the    *)
(* main staging file gets the window whole or not at all, however its      *)
(* attempts are split, retried and put together, and every step brings the *)
(* window closer to its end.                                               *)
(***************************************************************************)
EXTENDS AdaptiveExport, LeastNumber, SequenceTheorems, TLAPS

(* Types, how deep attempts go, and what is recorded of them.              *)

Distinct(jobs) == \A i, k \in DOMAIN jobs : jobs[i] = jobs[k] => i = k

\* An attempt that may still be made: only MissingRoute goes one level deeper
\* than a split may, and makes query_range of it.
Pending(a) ==
    /\ a \in Attempts
    /\ Distinct(a.jobs)
    /\ a.depth <= IF a.queryRange THEN config.maxDepth + 1 ELSE config.maxDepth
    /\ a.step <= maxStep

\* An attempt that was written.
Recorded(a) == a.queryRange => sampled /\ a.step <= QueryRangeStep(maxStep)

FrameOK(f) ==
    /\ \A i \in DOMAIN f.todo : Pending(f.todo[i])
    /\ \A i \in DOMAIN f.file : Recorded(f.file[i])

TInv ==
    /\ config \in Configs
    /\ Pending(attempt)
    /\ stack \in Seq(Frames)
    /\ \A n \in DOMAIN stack : FrameOK(stack[n])
    /\ staging \in Seq(Appends)
    /\ phase \in {"trying", "settling", "ok", "failed"}
    /\ sampled \in BOOLEAN
    /\ maxStep \in Nat
    /\ phase = "settling" => stack # <<>>
    /\ phase \in {"trying", "settling"} => staging = <<>>
    /\ phase = "ok" => \A i \in DOMAIN staging[1].output : Recorded(staging[1].output[i])

\* A configuration is well-typed.
LEMMA ConfigFacts ==
    ASSUME TInv
    PROVE  /\ config.jobs \in Seq(Job) /\ Distinct(config.jobs)
           /\ config.queryRange \in BOOLEAN /\ config.maxDepth \in Nat \ {0}
           /\ config.minWindow \in Nat \ {0} /\ config.step \in Nat
           /\ config.ladder \subseteq Nat
  BY ConfigAssumption DEF TInv, ConfigType, Distinct

\* What an attempt writes is the attempt but for its step, and nothing of it
\* is sampled at a step above the one asked for and the smallest one.
LEMMA WrittenFacts ==
    ASSUME attempt \in Attempts
    PROVE  /\ Written \in Attempts /\ <<Written>> \in Seq(Attempts)
           /\ Written.jobs = attempt.jobs
           /\ Written.from = attempt.from /\ Written.to = attempt.to
           /\ Written.queryRange = attempt.queryRange
           /\ Written.queryRange => Written.step = QueryRangeStep(attempt.step)
  <1>1. attempt.step \in Nat /\ QueryRangeStep(attempt.step) \in Nat
    BY StepAssumption DEF Attempts, QueryRangeStep
  <1>2. Written \in Attempts
    BY <1>1 DEF Written, Attempts
  <1>3. QED
    BY <1>1, <1>2 DEF Written, Attempts

\* The innermost split and the ones around it.
LEMMA FrameFacts ==
    ASSUME TInv, stack # <<>>
    PROVE  /\ Len(stack) \in Nat \ {0} /\ DOMAIN stack = 1..Len(stack)
           /\ stack[1] \in Frames /\ stack[1].file \in Seq(Attempts)
           /\ stack[1].todo \in Seq(Attempts) /\ stack[1].split \in Attempts
           /\ Tail(stack) \in Seq(Frames) /\ Len(Tail(stack)) = Len(stack) - 1
           /\ \A n \in 1..Len(stack) - 1 : Tail(stack)[n] = stack[n + 1]
  <1>1. stack \in Seq(Frames)
    BY DEF TInv
  <1>2. Len(stack) \in Nat \ {0} /\ DOMAIN stack = 1..Len(stack) /\ stack[1] \in Frames
    BY <1>1
  <1>3. QED
    BY <1>1, <1>2, HeadTailProperties DEF Frames

\* A stack with another frame in the place of its first.
WithTop(s, f) == [s EXCEPT ![1] = f]

\* Replacing the innermost split leaves the others.
LEMMA TopReplaced ==
    ASSUME NEW s \in Seq(Frames), s # <<>>, NEW f \in Frames,
           NEW t, t = WithTop(s, f)
    PROVE  /\ t \in Seq(Frames) /\ Len(t) = Len(s) /\ t[1] = f /\ t # <<>>
           /\ DOMAIN t = 1..Len(s)
           /\ \A n \in 2..Len(s) : t[n] = s[n]
  <1>1. Len(s) \in Nat \ {0}
    OBVIOUS
  <1>2. QED
    BY <1>1 DEF WithTop

\* Before the first attempt.
LEMMA TypeInit == ASSUME Init PROVE TInv
  <1>1. config \in Configs /\ ConfigType(config)
    BY ConfigAssumption DEF Init
  <1>2. /\ Start \in Start..End /\ End \in Start..End
        /\ config.maxDepth \in Nat \ {0} /\ config.step \in Nat
        /\ Distinct(config.jobs) /\ config.jobs \in Seq(Job) /\ config.queryRange \in BOOLEAN
    BY <1>1, WindowAssumption DEF ConfigType, Distinct
  <1>3. /\ attempt \in Attempts /\ attempt.jobs = config.jobs /\ attempt.depth = 0
        /\ attempt.step = maxStep
    BY <1>2 DEF Init, FirstAttempt, Attempts
  <1>4. Pending(attempt)
    <2>1. attempt.step <= maxStep /\ attempt.queryRange \in BOOLEAN
      BY <1>2, <1>3 DEF Init, Attempts
    <2>2. QED
      BY <1>2, <1>3, <2>1 DEF Pending
  <1>5. /\ stack = <<>> /\ staging = <<>> /\ phase = "trying"
        /\ sampled = FALSE /\ maxStep = config.step
    BY DEF Init
  <1>6. stack \in Seq(Frames) /\ staging \in Seq(Appends) /\ DOMAIN stack = {}
    BY <1>5
  <1>7. QED
    BY <1>1, <1>2, <1>4, <1>5, <1>6 DEF TInv

----------------------------------------------------------------------------
(* Attempts that follow from others.                                       *)

\* A window is halved at a time within it.
LEMMA MiddleFacts ==
    ASSUME TInv, SplittableInTime
    PROVE  Middle \in attempt.from..attempt.to
  <1>1. attempt.from \in Int /\ attempt.to \in Int
    BY WindowAssumption DEF TInv, Pending, Attempts
  <1>2. Middle \in Int
    BY <1>1 DEF Middle
  <1>3. QED
    BY <1>1, <1>2 DEF SplittableInTime

\* The two halves of an attempt are attempts that may be made.
LEMMA TimeChildrenFacts ==
    ASSUME TInv, MaySplit, SplittableInTime
    PROVE  /\ TimeChildren \in Seq(Attempts) /\ Len(TimeChildren) = 2
           /\ \A i \in 1..2 : Pending(TimeChildren[i])
           /\ \A i \in 1..2 : /\ TimeChildren[i].jobs = attempt.jobs
                              /\ TimeChildren[i].step = attempt.step
           /\ TimeChildren[1].from = attempt.from /\ TimeChildren[1].to = Middle
           /\ TimeChildren[2].from = Middle /\ TimeChildren[2].to = attempt.to
  <1> DEFINE a1 == [attempt EXCEPT !.to = Middle, !.depth = @ + 1]
             a2 == [attempt EXCEPT !.from = Middle, !.depth = @ + 1]
  <1>1. attempt \in Attempts /\ Distinct(attempt.jobs) /\ attempt.step <= maxStep
    BY DEF TInv, Pending
  <1>2. /\ attempt.from \in Start..End /\ attempt.to \in Start..End
        /\ attempt.depth \in Nat /\ attempt.depth < config.maxDepth
        /\ config.maxDepth \in Nat
    BY <1>1, ConfigFacts DEF MaySplit, Attempts
  <1>3. Middle \in Start..End
    BY <1>2, MiddleFacts, WindowAssumption
  <1>4. /\ a1 \in Attempts /\ a1.jobs = attempt.jobs /\ a1.step = attempt.step
        /\ a1.from = attempt.from /\ a1.to = Middle /\ a1.depth = attempt.depth + 1
    <2>1. a1 = [attempt EXCEPT !.to = Middle, !.depth = attempt.depth + 1]
      OBVIOUS
    <2>2. attempt.depth + 1 \in Nat
      BY <1>2
    <2> HIDE DEF a1
    <2>3. QED
      BY <1>1, <1>3, <2>1, <2>2 DEF Attempts
  <1>5. /\ a2 \in Attempts /\ a2.jobs = attempt.jobs /\ a2.step = attempt.step
        /\ a2.from = Middle /\ a2.to = attempt.to /\ a2.depth = attempt.depth + 1
    <2>1. a2 = [attempt EXCEPT !.from = Middle, !.depth = attempt.depth + 1]
      OBVIOUS
    <2>2. attempt.depth + 1 \in Nat
      BY <1>2
    <2> HIDE DEF a2
    <2>3. QED
      BY <1>1, <1>3, <2>1, <2>2 DEF Attempts
  <1>6. TimeChildren = <<a1, a2>>
    BY DEF TimeChildren
  <1> HIDE DEF a1, a2
  <1>7. Pending(a1) /\ Pending(a2)
    BY <1>1, <1>2, <1>4, <1>5 DEF Pending
  <1>8. QED
    BY <1>4, <1>5, <1>6, <1>7

JobChildren == [i \in DOMAIN attempt.jobs |-> JobChild(attempt.jobs[i])]

\* So are those for one job each.
LEMMA JobChildrenFacts ==
    ASSUME TInv, MaySplit, attempt.jobs # <<>>
    PROVE  /\ JobChildren \in Seq(Attempts) /\ JobChildren # <<>>
           /\ Len(JobChildren) = Len(attempt.jobs)
           /\ \A i \in 1..Len(attempt.jobs) :
                /\ Pending(JobChildren[i])
                /\ JobChildren[i].jobs = <<attempt.jobs[i]>>
                /\ JobChildren[i].step = attempt.step
                /\ JobChildren[i].from = attempt.from
                /\ JobChildren[i].to = attempt.to
  <1>1. attempt \in Attempts /\ attempt.step <= maxStep
    BY DEF TInv, Pending
  <1>2. /\ attempt.jobs \in Seq(Job) /\ Len(attempt.jobs) \in Nat \ {0}
        /\ DOMAIN attempt.jobs = 1..Len(attempt.jobs)
        /\ attempt.depth \in Nat /\ attempt.depth < config.maxDepth
        /\ config.maxDepth \in Nat
    BY <1>1, ConfigFacts DEF MaySplit, Attempts
  <1>3. ASSUME NEW j \in Job
        PROVE  /\ JobChild(j) \in Attempts /\ Pending(JobChild(j))
               /\ JobChild(j).jobs = <<j>> /\ JobChild(j).step = attempt.step
               /\ JobChild(j).from = attempt.from /\ JobChild(j).to = attempt.to
    <2> DEFINE c == JobChild(j)
    <2>1. c = [attempt EXCEPT !.jobs = <<j>>, !.depth = attempt.depth + 1,
                              !.queryRange = (config.jobSplit = "query_range")]
      BY DEF JobChild
    <2>2. <<j>> \in Seq(Job) /\ attempt.depth + 1 \in Nat
      BY <1>2
    <2>3. /\ c \in Attempts /\ c.jobs = <<j>> /\ c.step = attempt.step
          /\ c.from = attempt.from /\ c.to = attempt.to /\ c.depth = attempt.depth + 1
      BY <1>1, <2>1, <2>2 DEF Attempts
    <2>4. Distinct(<<j>>)
      BY DEF Distinct
    <2> HIDE DEF c
    <2>5. Pending(c)
      BY <1>1, <1>2, <2>3, <2>4 DEF Pending
    <2>6. QED
      BY <2>3, <2>5 DEF c
  <1>4. \A i \in 1..Len(attempt.jobs) :
          /\ attempt.jobs[i] \in Job /\ JobChildren[i] = JobChild(attempt.jobs[i])
    BY <1>2 DEF JobChildren
  <1>5. JobChildren \in Seq(Attempts) /\ Len(JobChildren) = Len(attempt.jobs)
    BY <1>2, <1>3, <1>4 DEF JobChildren
  <1>6. QED
    BY <1>2, <1>3, <1>4, <1>5

\* The step that is tried next is larger.
LEMMA NextStepFacts ==
    ASSUME TInv, LargerSteps # {}
    PROVE  NextStep \in Nat /\ NextStep > attempt.step
  <1>1. LargerSteps \subseteq Nat /\ \A s \in LargerSteps : s > attempt.step
    BY ConfigFacts DEF LargerSteps
  <1>2. \E s \in LargerSteps : \A t \in LargerSteps : s <= t
    BY <1>1, Least
  <1>3. NextStep \in LargerSteps
    BY <1>2 DEF NextStep
  <1>4. QED
    BY <1>1, <1>3

----------------------------------------------------------------------------
(* The steps keep TInv.                                                    *)

\* What was pending or recorded stays so.
LEMMA StaysOK ==
    ASSUME TInv, config' = config, maxStep' \in Nat, maxStep' >= maxStep,
           sampled => sampled'
    PROVE  /\ \A a : Pending(a) => Pending(a)'
           /\ \A a \in Attempts : Recorded(a) => Recorded(a)'
           /\ \A f \in Frames : FrameOK(f) => FrameOK(f)'
  <1>1. maxStep \in Nat /\ \A a \in Attempts : a.step \in Nat
    BY DEF TInv, Attempts
  <1>2. \A a : Pending(a) => Pending(a)'
    BY <1>1 DEF Pending
  <1>3. \A a \in Attempts : Recorded(a) => Recorded(a)'
    BY <1>1, StepAssumption DEF Recorded, QueryRangeStep
  <1>4. \A f \in Frames : \A i \in DOMAIN f.file : f.file[i] \in Attempts
    BY DEF Frames
  <1>5. QED
    BY <1>2, <1>3, <1>4 DEF FrameOK

\* The largest step only grows.
LEMMA NoteStepFacts ==
    ASSUME TInv, NEW step \in Nat, NoteStep(step)
    PROVE  maxStep' \in Nat /\ maxStep' >= maxStep /\ maxStep' >= step
  BY DEF TInv, NoteStep

\* A frame that has got the output of an attempt.
Filled(f, output) == [f EXCEPT !.file = @ \o output]

\* Output goes to the end of a split file.
LEMMA FilledFrame ==
    ASSUME NEW f \in Frames, NEW output \in Seq(Attempts),
           NEW g, g = Filled(f, output)
    PROVE  /\ g \in Frames /\ g.todo = f.todo /\ g.split = f.split
           /\ g.file = f.file \o output /\ g.file \in Seq(Attempts)
  <1>1. f.file \in Seq(Attempts)
    BY DEF Frames
  <1>2. f.file \o output \in Seq(Attempts)
    BY <1>1, ConcatProperties
  <1>3. QED
    BY <1>2 DEF Frames, Filled

\* Every piece of a filled file was in it or is new.
LEMMA FilledPiece ==
    ASSUME NEW f \in Frames, NEW output \in Seq(Attempts),
           NEW g, g = Filled(f, output), NEW i \in DOMAIN g.file
    PROVE  \/ \E k \in DOMAIN f.file : g.file[i] = f.file[k]
           \/ \E k \in DOMAIN output : g.file[i] = output[k]
  <1>1. f.file \in Seq(Attempts)
    BY DEF Frames
  <1>2. /\ f.file \o output \in Seq(Attempts)
        /\ Len(f.file \o output) = Len(f.file) + Len(output)
        /\ \A k \in 1..Len(f.file) + Len(output) : (f.file \o output)[k] =
             IF k <= Len(f.file) THEN f.file[k] ELSE output[k - Len(f.file)]
    BY <1>1, ConcatProperties
  <1>3. g.file = f.file \o output
    BY FilledFrame
  <1>4. /\ i \in 1..Len(f.file) + Len(output)
        /\ DOMAIN f.file = 1..Len(f.file) /\ DOMAIN output = 1..Len(output)
        /\ Len(f.file) \in Nat /\ Len(output) \in Nat
    BY <1>1, <1>2, <1>3
  <1>5. CASE i <= Len(f.file)
    BY <1>2, <1>3, <1>4, <1>5
  <1>6. CASE i > Len(f.file)
    <2>1. i - Len(f.file) \in 1..Len(output)
      BY <1>4, <1>6
    <2>2. g.file[i] = output[i - Len(f.file)]
      BY <1>2, <1>3, <1>4, <1>6
    <2>3. QED
      BY <1>4, <2>1, <2>2
  <1>7. QED
    BY <1>4, <1>5, <1>6

\* The output goes to the innermost frame that is left.
LEMMA FilledTop ==
    ASSUME TInv, NEW s \in Seq(Frames), s # <<>>,
           \A n \in DOMAIN s : FrameOK(s[n])',
           NEW output \in Seq(Attempts), \A i \in DOMAIN output : Recorded(output[i])',
           stack' = WithTop(s, Filled(s[1], output))
    PROVE  /\ stack' \in Seq(Frames) /\ stack' # <<>>
           /\ \A n \in DOMAIN stack' : FrameOK(stack[n])'
  <1>1. Len(s) \in Nat \ {0} /\ DOMAIN s = 1..Len(s) /\ s[1] \in Frames
    OBVIOUS
  <1>2. PICK g : g = Filled(s[1], output)
    OBVIOUS
  <1>3. g \in Frames /\ g.todo = s[1].todo
    BY <1>1, <1>2, FilledFrame
  <1>4. ASSUME NEW i \in DOMAIN g.file
        PROVE  \/ \E k \in DOMAIN s[1].file : g.file[i] = s[1].file[k]
               \/ \E k \in DOMAIN output : g.file[i] = output[k]
    BY <1>1, <1>2, FilledPiece
  <1>5. FrameOK(g)'
    BY <1>1, <1>3, <1>4 DEF FrameOK
  <1>6. /\ stack' \in Seq(Frames) /\ stack' # <<>> /\ DOMAIN stack' = 1..Len(s)
        /\ stack'[1] = g /\ \A n \in 2..Len(s) : stack'[n] = s[n]
    BY <1>1, <1>2, <1>3 DEF WithTop
  <1>7. \A n \in 1..Len(s) : n = 1 \/ n \in 2..Len(s)
    BY <1>1
  <1>8. QED
    BY <1>1, <1>5, <1>6, <1>7

\* A step that only adds to what is recorded keeps the frames in order.
LEMMA FramesStay ==
    ASSUME TInv, config' = config, maxStep' \in Nat, maxStep' >= maxStep,
           sampled => sampled', NEW s, s = stack
    PROVE  s \in Seq(Frames) /\ \A n \in DOMAIN s : FrameOK(s[n])'
  <1>1. s \in Seq(Frames) /\ \A n \in DOMAIN s : s[n] \in Frames /\ FrameOK(s[n])
    BY DEF TInv
  <1>2. QED
    BY <1>1, StaysOK

\* The one append to the main staging file.
LEMMA Appended ==
    ASSUME staging = <<>>, NEW a \in Appends, staging' = Append(staging, a)
    PROVE  staging' \in Seq(Appends) /\ Len(staging') = 1 /\ staging'[1] = a
  OBVIOUS

\* What is appended, in full or in part.
LEMMA OutputTypes ==
    ASSUME NEW output \in Seq(Attempts)
    PROVE  /\ Whole(output) \in Appends /\ Torn(output) \in Appends
           /\ Whole(output).output = output /\ Torn(output).output = output
           /\ Whole(output).whole = TRUE /\ Torn(output).whole = FALSE
  BY DEF Whole, Torn, Appends

\* What a recorded attempt leaves behind.
LEMMA Noted ==
    ASSUME TInv, config' = config, attempt' = attempt,
           sampled' = (sampled \/ attempt.queryRange), NoteStep(attempt.step)
    PROVE  /\ Pending(attempt)' /\ \A w : w = Written => Recorded(w)'
           /\ maxStep' \in Nat /\ maxStep' >= maxStep /\ sampled' \in BOOLEAN
           /\ sampled => sampled'
           /\ <<Written>> \in Seq(Attempts) /\ Written \in Attempts
  <1>1. /\ attempt \in Attempts /\ Pending(attempt) /\ sampled \in BOOLEAN
        /\ attempt.step \in Nat /\ attempt.queryRange \in BOOLEAN
    BY DEF TInv, Pending, Attempts
  <1>2. maxStep' \in Nat /\ maxStep' >= maxStep /\ maxStep' >= attempt.step
    BY <1>1, NoteStepFacts
  <1>3. sampled' \in BOOLEAN /\ (sampled => sampled')
    BY <1>1
  <1>4. Pending(attempt)'
    <2>1. PICK a : a = attempt
      OBVIOUS
    <2>2. Pending(a)'
      BY <1>1, <1>2, <1>3, <2>1, StaysOK
    <2>3. QED
      BY <2>1, <2>2
  <1>5. ASSUME NEW w, w = Written PROVE Recorded(w)'
    <2>1. w.queryRange = attempt.queryRange
      BY <1>1, <1>5, WrittenFacts
    <2>2. w.queryRange => w.step <= QueryRangeStep(maxStep')
      BY <1>1, <1>2, <1>5, StepAssumption, WrittenFacts DEF QueryRangeStep
    <2>3. QED
      BY <1>1, <2>1, <2>2 DEF Recorded, QueryRangeStep
  <1>6. QED
    BY <1>1, <1>2, <1>3, <1>4, <1>5, WrittenFacts

\* AttemptSucceeds keeps the types.
LEMMA AttemptSucceedsKeepsType == ASSUME TInv, AttemptSucceeds PROVE TInv'
  <1>1. /\ phase = "trying" /\ staging = <<>> /\ config' = config /\ config \in Configs
        /\ attempt' = attempt /\ sampled' = (sampled \/ attempt.queryRange)
        /\ NoteStep(attempt.step)
    BY DEF TInv, AttemptSucceeds
  <1>2. /\ Pending(attempt)' /\ \A w : w = Written => Recorded(w)'
        /\ maxStep' \in Nat /\ maxStep' >= maxStep /\ sampled' \in BOOLEAN
        /\ sampled => sampled'
        /\ <<Written>> \in Seq(Attempts) /\ Written \in Attempts
    BY <1>1, Noted
  <1>3. PICK s, a : s = stack /\ a = Written
    OBVIOUS
  <1>4. s \in Seq(Frames) /\ \A n \in DOMAIN s : FrameOK(s[n])'
    BY <1>1, <1>2, <1>3, FramesStay
  <1>5. CASE stack = <<>>
    <2>1. staging' = Append(staging, Whole(<<a>>)) /\ stack' = stack /\ phase' = "ok"
      BY <1>3, <1>5 DEF AttemptSucceeds, AppendTo
    <2>2. Whole(<<a>>) \in Appends /\ Whole(<<a>>).output = <<a>>
      BY <1>2, <1>3, OutputTypes
    <2>3. /\ staging' \in Seq(Appends) /\ staging'[1] = Whole(<<a>>)
      BY <1>1, <2>1, <2>2, Appended
    <2>4. \A i \in DOMAIN staging'[1].output : Recorded(staging[1].output[i])'
      <3>1. staging'[1].output = <<a>> /\ Recorded(a)'
        BY <1>1, <1>2, <1>3, <2>2, <2>3
      <3>2. QED
        BY <3>1
    <2>5. QED
      BY <1>1, <1>2, <1>3, <1>4, <1>5, <2>1, <2>3, <2>4 DEF TInv
  <1>6. CASE stack # <<>>
    <2>1. /\ stack' = [s EXCEPT ![1].file = @ \o <<a>>] /\ staging' = staging
          /\ phase' = "settling"
      BY <1>3, <1>6 DEF AttemptSucceeds, AppendTo
    <2>2. stack' = WithTop(s, Filled(s[1], <<a>>))
      BY <2>1 DEF WithTop, Filled
    <2>3. <<a>> \in Seq(Attempts) /\ \A i \in DOMAIN <<a>> : Recorded(<<a>>[i])'
      <3>1. Recorded(a)' /\ a \in Attempts
        BY <1>1, <1>2, <1>3
      <3>2. QED
        BY <3>1
    <2>4. /\ stack' \in Seq(Frames) /\ stack' # <<>>
          /\ \A n \in DOMAIN stack' : FrameOK(stack[n])'
      BY <1>3, <1>4, <1>6, <2>2, <2>3, FilledTop
    <2>5. staging' = <<>> /\ staging' \in Seq(Appends)
      BY <1>1, <2>1
    <2>6. QED
      BY <1>1, <1>2, <2>1, <2>4, <2>5 DEF TInv
  <1>7. QED
    BY <1>5, <1>6

\* An error: nothing is left of the splits, and at most a part of an append.
LEMMA FailedKeepsType ==
    ASSUME TInv, config' = config, Pending(attempt)', stack' = <<>>,
           staging' \in Seq(Appends), phase' = "failed",
           sampled' \in BOOLEAN, maxStep' \in Nat
    PROVE  TInv'
  BY DEF TInv

\* Fail keeps the types.
LEMMA FailKeepsType ==
    ASSUME TInv, NEW main \in Seq(Appends), Fail(main) PROVE TInv'
  <1>1. Pending(attempt)'
    BY DEF Fail, TInv, Pending
  <1>2. QED
    BY <1>1, FailedKeepsType DEF Fail, TInv

\* AttemptAppendFails keeps the types.
LEMMA AttemptAppendFailsKeepsType == ASSUME TInv, AttemptAppendFails PROVE TInv'
  <1>1. /\ phase = "trying" /\ staging = <<>> /\ config' = config
        /\ attempt' = attempt /\ sampled' = (sampled \/ attempt.queryRange)
        /\ NoteStep(attempt.step)
    BY DEF TInv, AttemptAppendFails
  <1>2. /\ Pending(attempt)' /\ maxStep' \in Nat /\ sampled' \in BOOLEAN
        /\ <<Written>> \in Seq(Attempts)
    BY <1>1, Noted
  <1>3. staging' \in Seq(Appends)
    <2>1. PICK t : t = Torn(<<Written>>)
      OBVIOUS
    <2>2. t \in Appends
      BY <1>2, <2>1, OutputTypes
    <2>3. staging' = IF stack = <<>> THEN Append(staging, t) ELSE staging
      BY <2>1 DEF AttemptAppendFails
    <2>4. QED
      BY <1>1, <2>2, <2>3
  <1>4. QED
    BY <1>1, <1>2, <1>3, FailedKeepsType DEF AttemptAppendFails

\* SplitAppendFails keeps the types.
LEMMA SplitAppendFailsKeepsType == ASSUME TInv, SplitAppendFails PROVE TInv'
  <1>1. stack # <<>> /\ staging = <<>>
    BY DEF TInv, SplitAppendFails
  <1>2. stack[1].file \in Seq(Attempts)
    BY <1>1, FrameFacts
  <1>3. (IF Len(stack) = 1 THEN Append(staging, Torn(stack[1].file)) ELSE staging)
          \in Seq(Appends)
    <2>1. PICK t : t = Torn(stack[1].file)
      OBVIOUS
    <2>2. t \in Appends
      BY <1>2, <2>1, OutputTypes
    <2>3. QED
      BY <1>1, <2>1, <2>2
  <1>4. QED
    BY <1>3, FailKeepsType DEF SplitAppendFails

\* NextChild keeps the types.
LEMMA NextChildKeepsType == ASSUME TInv, NextChild PROVE TInv'
  <1>1. /\ phase = "settling" /\ stack # <<>> /\ stack[1].todo # <<>> /\ config' = config
        /\ phase' = "trying" /\ staging' = staging /\ sampled' = sampled
        /\ maxStep' = maxStep /\ staging = <<>>
        /\ attempt' = Head(stack[1].todo)
        /\ stack' = [stack EXCEPT ![1].todo = Tail(@)]
    BY DEF TInv, NextChild
  <1>2. PICK s, f : s = stack /\ f = stack[1]
    OBVIOUS
  <1>3. /\ s \in Seq(Frames) /\ f \in Frames /\ f = s[1] /\ s # <<>>
        /\ f.todo \in Seq(Attempts) /\ f.todo # <<>>
        /\ maxStep' \in Nat /\ maxStep' >= maxStep
    BY <1>1, <1>2, FrameFacts DEF TInv
  <1>4. \A n \in DOMAIN s : FrameOK(s[n])'
    BY <1>1, <1>2, <1>3, FramesStay
  <1>5. PICK g : g = [f EXCEPT !.todo = Tail(f.todo)]
    OBVIOUS
  <1>6. stack' = WithTop(s, g)
    BY <1>1, <1>2, <1>5 DEF WithTop
  <1>7. /\ g \in Frames /\ g.file = f.file /\ g.todo = Tail(f.todo)
        /\ DOMAIN g.todo = 1..Len(f.todo) - 1 /\ DOMAIN f.todo = 1..Len(f.todo)
        /\ \A i \in 1..Len(f.todo) - 1 : g.todo[i] = f.todo[i + 1]
    <2>1. /\ Tail(f.todo) \in Seq(Attempts) /\ Len(Tail(f.todo)) = Len(f.todo) - 1
          /\ Len(f.todo) \in Nat /\ \A i \in 1..Len(f.todo) - 1 : Tail(f.todo)[i] = f.todo[i + 1]
      BY <1>3, HeadTailProperties
    <2>2. g \in Frames /\ g.file = f.file /\ g.todo = Tail(f.todo)
      BY <1>3, <1>5, <2>1 DEF Frames
    <2>3. QED
      BY <1>3, <2>1, <2>2
  <1>8. FrameOK(f)' /\ Len(f.todo) \in Nat \ {0}
    BY <1>3, <1>4
  <1>9. FrameOK(g)'
    BY <1>7, <1>8 DEF FrameOK
  <1>10. Pending(attempt)'
    <2>1. attempt' = f.todo[1] /\ 1 \in DOMAIN f.todo
      BY <1>1, <1>2, <1>3, <1>7, <1>8, HeadTailProperties
    <2>2. QED
      BY <1>8, <2>1 DEF FrameOK
  <1>11. stack' \in Seq(Frames) /\ \A n \in DOMAIN stack' : FrameOK(stack[n])'
    <2>1. /\ stack' \in Seq(Frames) /\ DOMAIN stack' = DOMAIN s /\ stack'[1] = g
          /\ \A n \in DOMAIN s : n # 1 => stack'[n] = s[n]
      BY <1>3, <1>6, <1>7 DEF WithTop
    <2>2. QED
      BY <1>4, <1>9, <2>1
  <1>12. QED
    BY <1>1, <1>10, <1>11 DEF TInv

\* CloseSplit keeps the types.
LEMMA CloseSplitKeepsType == ASSUME TInv, CloseSplit PROVE TInv'
  <1>1. /\ phase = "settling" /\ stack # <<>> /\ staging = <<>> /\ config' = config
        /\ attempt' = attempt /\ sampled' = sampled /\ maxStep' = maxStep
        /\ config \in Configs /\ sampled \in BOOLEAN /\ maxStep \in Nat
    BY DEF TInv, CloseSplit
  <1>2. PICK s, output : s = stack /\ output = stack[1].file
    OBVIOUS
  <1>3. /\ s \in Seq(Frames) /\ s # <<>> /\ output \in Seq(Attempts) /\ output = s[1].file
        /\ maxStep' \in Nat /\ maxStep' >= maxStep
        /\ Len(s) \in Nat \ {0} /\ DOMAIN s = 1..Len(s)
        /\ Tail(s) \in Seq(Frames) /\ Len(Tail(s)) = Len(s) - 1
        /\ \A n \in 1..Len(s) - 1 : Tail(s)[n] = s[n + 1]
    BY <1>1, <1>2, FrameFacts DEF TInv
  <1>4. \A n \in DOMAIN s : FrameOK(s[n])'
    BY <1>1, <1>2, <1>3, FramesStay
  <1>5. \A i \in DOMAIN output : Recorded(output[i])'
    BY <1>3, <1>4 DEF FrameOK
  <1>6. Pending(attempt)'
    BY <1>1 DEF TInv, Pending
  <1>7. CASE Len(stack) = 1
    <2>1. /\ staging' = Append(staging, Whole(output)) /\ phase' = "ok" /\ stack' = <<>>
      BY <1>2, <1>7 DEF CloseSplit
    <2>2. Whole(output) \in Appends /\ Whole(output).output = output
      BY <1>3, OutputTypes
    <2>3. staging' \in Seq(Appends) /\ staging'[1] = Whole(output)
      BY <1>1, <2>1, <2>2, Appended
    <2>4. \A i \in DOMAIN staging'[1].output : Recorded(staging[1].output[i])'
      BY <1>5, <2>2, <2>3
    <2>5. QED
      BY <1>1, <1>6, <2>1, <2>3, <2>4 DEF TInv
  <1>8. CASE Len(stack) # 1
    <2>1. /\ stack' = [Tail(s) EXCEPT ![1].file = @ \o output]
          /\ staging' = staging /\ phase' = phase
      BY <1>2, <1>8 DEF CloseSplit
    <2>2. PICK t : t = Tail(s)
      OBVIOUS
    <2>3. t \in Seq(Frames) /\ t # <<>> /\ DOMAIN t = 1..Len(s) - 1
      <3>1. t \in Seq(Frames) /\ Len(t) = Len(s) - 1 /\ Len(s) # 1
        BY <1>2, <1>3, <1>8, <2>2
      <3>2. QED
        BY <1>3, <3>1
    <2>4. \A n \in DOMAIN t : FrameOK(t[n])'
      <3>1. ASSUME NEW n \in DOMAIN t PROVE FrameOK(t[n])'
        <4>1. t[n] = s[n + 1] /\ n + 1 \in DOMAIN s
          BY <1>3, <2>2, <2>3
        <4>2. QED
          BY <1>4, <4>1
      <3>2. QED
        BY <3>1
    <2>5. stack' = WithTop(t, Filled(t[1], output))
      BY <2>1, <2>2 DEF WithTop, Filled
    <2>6. /\ stack' \in Seq(Frames) /\ stack' # <<>>
          /\ \A n \in DOMAIN stack' : FrameOK(stack[n])'
      BY <1>3, <1>5, <2>3, <2>4, <2>5, FilledTop
    <2>7. QED
      BY <1>1, <1>6, <2>1, <2>6 DEF TInv
  <1>9. QED
    BY <1>7, <1>8

\* The same window is tried again with an attempt that may be made.
LEMMA RetryKeepsType ==
    ASSUME TInv, phase = "trying", config' = config, Pending(attempt)',
           stack' = stack, staging' = staging, phase' = phase,
           maxStep' \in Nat, maxStep' >= maxStep, sampled' \in BOOLEAN, sampled => sampled'
    PROVE  TInv'
  <1>1. PICK s : s = stack
    OBVIOUS
  <1>2. s \in Seq(Frames) /\ \A n \in DOMAIN s : FrameOK(s[n])'
    BY <1>1, FramesStay
  <1>3. \A n \in DOMAIN stack' : FrameOK(stack[n])'
    BY <1>1, <1>2
  <1>4. QED
    BY <1>1, <1>2, <1>3 DEF TInv

\* MissingRoute keeps the types.
LEMMA MissingRouteKeepsType == ASSUME TInv, MissingRoute PROVE TInv'
  <1>1. attempt \in Attempts /\ Pending(attempt) /\ phase = "trying"
    BY DEF TInv, Pending, MissingRoute
  <1>2. CASE ~attempt.queryRange
    <2> DEFINE next == [attempt EXCEPT !.queryRange = TRUE, !.depth = @ + 1]
    <2>1. Retry(next)
      BY <1>2 DEF MissingRoute
    <2>2. /\ attempt.depth \in Nat /\ config.maxDepth \in Nat /\ attempt.depth <= config.maxDepth
          /\ Distinct(attempt.jobs) /\ attempt.step <= maxStep
      BY <1>1, <1>2, ConfigFacts DEF Pending, Attempts
    <2>3. /\ next \in Attempts /\ next.depth = attempt.depth + 1 /\ next.queryRange = TRUE
          /\ next.jobs = attempt.jobs /\ next.step = attempt.step
      <3>1. /\ next = [attempt EXCEPT !.queryRange = TRUE, !.depth = attempt.depth + 1]
            /\ attempt.depth + 1 \in Nat
        BY <2>2
      <3> HIDE DEF next
      <3>2. QED
        BY <1>1, <3>1 DEF Attempts
    <2>4. config' = config /\ maxStep' = maxStep /\ attempt' = next
      BY <2>1 DEF Retry
    <2> HIDE DEF next
    <2>5. Pending(attempt)'
      BY <2>2, <2>3, <2>4 DEF Pending
    <2>6. QED
      BY <1>1, <2>1, <2>5, RetryKeepsType DEF Retry, TInv
  <1>3. CASE attempt.queryRange
    BY <1>3, FailKeepsType DEF MissingRoute, TInv
  <1>4. QED
    BY <1>2, <1>3

\* The frame of a new split is put before the others.
LEMMA SplitKeepsType ==
    ASSUME TInv, phase = "trying", NEW children \in Seq(Attempts), children # <<>>,
           \A i \in DOMAIN children : Pending(children[i]), Split(children),
           maxStep' \in Nat, maxStep' >= maxStep
    PROVE  TInv'
  <1>1. /\ config' = config /\ staging' = staging /\ phase' = phase /\ sampled' = sampled
        /\ attempt' = Head(children) /\ attempt \in Attempts
        /\ sampled \in BOOLEAN
    BY DEF Split, TInv, Pending
  <1>2. PICK s, f : /\ s = stack
                    /\ f = [split |-> attempt, todo |-> Tail(children), file |-> <<>>]
    OBVIOUS
  <1>3. s \in Seq(Frames) /\ \A n \in DOMAIN s : FrameOK(s[n])'
    BY <1>1, <1>2, FramesStay
  <1>4. stack' = <<f>> \o s
    BY <1>2 DEF Split
  <1>5. \A i \in DOMAIN children : Pending(children[i])'
    BY <1>1, StaysOK
  <1>6. /\ Head(children) = children[1] /\ Tail(children) \in Seq(Attempts)
        /\ Len(children) \in Nat \ {0} /\ DOMAIN children = 1..Len(children)
        /\ DOMAIN Tail(children) = 1..Len(children) - 1
        /\ \A i \in 1..Len(children) - 1 : Tail(children)[i] = children[i + 1]
    BY HeadTailProperties
  <1>7. Pending(attempt)'
    BY <1>1, <1>5, <1>6
  <1>8. f \in Frames /\ f.todo = Tail(children) /\ f.file = <<>>
    BY <1>1, <1>2, <1>6 DEF Frames
  <1>9. FrameOK(f)'
    BY <1>5, <1>6, <1>8 DEF FrameOK
  <1>10. /\ <<f>> \in Seq(Frames) /\ stack' \in Seq(Frames) /\ DOMAIN stack' = 1..Len(s) + 1
         /\ \A n \in 1..Len(s) + 1 : stack'[n] = IF n = 1 THEN f ELSE s[n - 1]
    BY <1>3, <1>4, <1>8, ConcatProperties
  <1>11. \A n \in DOMAIN stack' : FrameOK(stack[n])'
    <2>1. ASSUME NEW n \in DOMAIN stack' PROVE FrameOK(stack[n])'
      <3>1. n = 1 \/ n - 1 \in DOMAIN s
        BY <1>3, <1>10
      <3>2. stack'[n] = f \/ (n - 1 \in DOMAIN s /\ stack'[n] = s[n - 1])
        BY <1>10, <3>1
      <3>3. QED
        BY <1>3, <1>9, <3>2
    <2>2. QED
      BY <2>1
  <1>12. QED
    BY <1>1, <1>7, <1>10, <1>11 DEF TInv

\* TooManySeries keeps the types.
LEMMA TooManySeriesKeepsType == ASSUME TInv, TooManySeries PROVE TInv'
  <1>1. CASE Fail(staging)
    BY <1>1, FailKeepsType DEF TInv
  <1>2. CASE MaySplit /\ Len(attempt.jobs) > 1 /\ Split(JobChildren) /\ maxStep' = maxStep
    <2>1. attempt.jobs # <<>> /\ phase = "trying"
      BY <1>2 DEF TooManySeries
    <2>2. /\ JobChildren \in Seq(Attempts) /\ JobChildren # <<>>
          /\ Len(JobChildren) = Len(attempt.jobs)
          /\ \A i \in 1..Len(attempt.jobs) : Pending(JobChildren[i])
      BY <1>2, <2>1, JobChildrenFacts
    <2>3. \A i \in DOMAIN JobChildren : Pending(JobChildren[i])
      BY <2>2
    <2>4. maxStep' \in Nat /\ maxStep' >= maxStep
      BY <1>2 DEF TInv
    <2>5. QED
      BY <1>2, <2>1, <2>2, <2>3, <2>4, SplitKeepsType
  <1>3. QED
    BY <1>1, <1>2 DEF TooManySeries, JobChildren

\* QueryTimeout keeps the types.
LEMMA QueryTimeoutKeepsType == ASSUME TInv, QueryTimeout PROVE TInv'
  <1>1. attempt \in Attempts /\ attempt.step \in Nat /\ phase = "trying" /\ maxStep \in Nat
    BY DEF TInv, Pending, Attempts, QueryTimeout
  <1>2. CASE Fail(staging)
    BY <1>2, FailKeepsType DEF TInv
  <1>3. CASE MaySplit /\ SplittableInTime /\ Split(TimeChildren) /\ NoteStep(attempt.step)
    <2>1. /\ TimeChildren \in Seq(Attempts) /\ Len(TimeChildren) = 2
          /\ \A i \in 1..2 : Pending(TimeChildren[i])
      BY <1>3, TimeChildrenFacts
    <2>2. TimeChildren # <<>> /\ \A i \in DOMAIN TimeChildren : Pending(TimeChildren[i])
      BY <2>1
    <2>3. maxStep' \in Nat /\ maxStep' >= maxStep
      BY <1>1, <1>3, NoteStepFacts
    <2>4. QED
      BY <1>1, <1>3, <2>1, <2>2, <2>3, SplitKeepsType
  <1>4. CASE /\ attempt.queryRange /\ LargerSteps # {} /\ NoteStep(NextStep) /\ sampled' = TRUE
             /\ attempt' = [attempt EXCEPT !.step = NextStep, !.depth = 0]
             /\ config' = config /\ stack' = stack /\ staging' = staging /\ phase' = phase
    <2>1. NextStep \in Nat
      BY <1>4, NextStepFacts
    <2>2. maxStep' \in Nat /\ maxStep' >= maxStep /\ maxStep' >= NextStep
      BY <1>4, <2>1, NoteStepFacts
    <2>3. config.maxDepth \in Nat /\ Distinct(attempt.jobs)
      BY ConfigFacts DEF TInv, Pending
    <2>4. /\ attempt' \in Attempts /\ attempt'.jobs = attempt.jobs
          /\ attempt'.step = NextStep /\ attempt'.depth = 0
      BY <1>1, <1>4, <2>1 DEF Attempts
    <2>5. Pending(attempt)'
      BY <1>4, <2>2, <2>3, <2>4 DEF Pending
    <2>6. QED
      BY <1>1, <1>4, <2>2, <2>5, RetryKeepsType
  <1>5. QED
    BY <1>2, <1>3, <1>4 DEF QueryTimeout

\* No step breaks the types.
LEMMA TypeStep == ASSUME TInv, [Next]_vars PROVE TInv'
  <1>1. CASE UNCHANGED vars
    <2>1. PICK s, o : s = stack /\ o = staging
      OBVIOUS
    <2>2. \A n \in DOMAIN s : FrameOK(s[n])'
      BY <1>1, <2>1, FramesStay DEF vars, TInv
    <2>3. phase = "ok" => \A i \in DOMAIN o[1].output : Recorded(o[1].output[i])'
      BY <1>1, <2>1 DEF vars, TInv, Recorded
    <2>4. Pending(attempt)'
      BY <1>1 DEF vars, TInv, Pending
    <2>5. QED
      BY <1>1, <2>1, <2>2, <2>3, <2>4 DEF vars, TInv
  <1>2. CASE AttemptSucceeds
    BY <1>2, AttemptSucceedsKeepsType
  <1>3. CASE AttemptAppendFails
    BY <1>3, AttemptAppendFailsKeepsType
  <1>4. CASE NextChild
    BY <1>4, NextChildKeepsType
  <1>5. CASE CloseSplit
    BY <1>5, CloseSplitKeepsType
  <1>6. CASE SplitAppendFails
    BY <1>6, SplitAppendFailsKeepsType
  <1>7. CASE MissingRoute
    BY <1>7, MissingRouteKeepsType
  <1>8. CASE TooManySeries
    BY <1>8, TooManySeriesKeepsType
  <1>9. CASE QueryTimeout
    BY <1>9, QueryTimeoutKeepsType
  <1>10. CASE OtherError
    BY <1>10, FailKeepsType DEF OtherError, TInv
  <1>11. QED
    BY <1>1, <1>2, <1>3, <1>4, <1>5, <1>6, <1>7, <1>8, <1>9, <1>10 DEF Next

\* The types hold throughout.
LEMMA TypeInvariant == Spec => []TInv
  <1>1. Init => TInv
    BY TypeInit
  <1>2. TInv /\ [Next]_vars => TInv'
    BY TypeStep
  <1>3. QED
    BY <1>1, <1>2, PTL DEF Spec

\* The state of exportWindowAdaptive is well-typed: whatever the backend
\* answers, no attempt goes deeper than one fallback below the maximum depth.
THEOREM TypeCorrect == Spec => []TypeOK
  <1>1. TInv => TypeOK
    <2>1. ASSUME TInv PROVE TypeOK
      <3>1. attempt \in Attempts /\ attempt.depth <= config.maxDepth + 1
        <4>1. attempt \in Attempts /\ Pending(attempt)
          BY <2>1 DEF TInv, Pending
        <4>2. attempt.depth \in Nat /\ config.maxDepth \in Nat
          BY <2>1, <4>1, ConfigFacts DEF Attempts
        <4>3. QED
          BY <4>1, <4>2 DEF Pending
      <3>2. QED
        BY <2>1, <3>1 DEF TInv, TypeOK
    <2>2. QED
      BY <2>1
  <1>2. QED
    BY <1>1, TypeInvariant, PTL

\* recordAttemptSuccess and recordAdaptiveDecision: whatever ends in the main
\* staging file, the archive's metadata owns up to its sampling and to its
\* largest step.
THEOREM SamplingAlwaysRecorded == Spec => []SamplingIsRecorded
  <1>1. TInv => SamplingIsRecorded
    BY DEF TInv, SamplingIsRecorded, Recorded
  <1>2. QED
    BY <1>1, TypeInvariant, PTL

----------------------------------------------------------------------------
(* A split file in the place of the attempt it completes.                  *)

\* The file holds what the attempt g covers, and of every job no more.
Completes(file, g) == \A j \in Job :
    /\ Covers(g, j) => Tiles(file, j, g.from, g.to)
    /\ ~Covers(g, j) => \A i \in DOMAIN file : ~Covers(file[i], j)

Places(file, j) == {i \in DOMAIN file : Covers(file[i], j)}

\* In old, with a pieces before g and b after it, the pieces of file replace g.
Replaces(new, old, file, a, b, f) ==
    /\ DOMAIN old = 1..(a + 1 + b) /\ DOMAIN file = 1..f /\ DOMAIN new = 1..(a + f + b)
    /\ \A i \in 1..a : new[i] = old[i]
    /\ \A i \in 1..f : new[a + i] = file[i]
    /\ \A i \in 1..b : new[a + f + i] = old[a + 1 + i]

\* Where the places of a job in the new sequence come from, and go to.
LEMMA PlacesReplaced ==
    ASSUME NEW a \in Nat, NEW b \in Nat, NEW f \in Nat, NEW new, NEW old, NEW file,
           Replaces(new, old, file, a, b, f), NEW j,
           NEW P, P = Places(old, j), NEW Q, Q = Places(file, j), NEW R, R = Places(new, j)
    PROVE  /\ \A i \in R :
                \/ i \in 1..a /\ i \in P /\ new[i] = old[i]
                \/ i - a \in 1..f /\ i - a \in Q /\ new[i] = file[i - a]
                \/ /\ i - a - f \in 1..b /\ i - f + 1 \in P
                   /\ new[i] = old[i - f + 1]
           /\ \A i \in P : i \in 1..a => i \in R
           /\ \A i \in P : i > a + 1 => i - 1 + f \in R
           /\ \A i \in Q : a + i \in R
           /\ \A i \in P : i \in Nat /\ 1 <= i /\ i <= a + 1 + b
           /\ \A i \in Q : i \in Nat /\ 1 <= i /\ i <= f
           /\ \A i \in R : i \in Nat /\ 1 <= i
  <1>1. ASSUME NEW i \in R
        PROVE  \/ i \in 1..a /\ i \in P /\ new[i] = old[i]
               \/ i - a \in 1..f /\ i - a \in Q /\ new[i] = file[i - a]
               \/ /\ i - a - f \in 1..b /\ i - f + 1 \in P
                  /\ new[i] = old[i - f + 1]
    <2>1. i \in 1..(a + f + b) /\ Covers(new[i], j)
      BY DEF Places, Replaces
    <2>2. CASE i <= a
      <3>1. i \in 1..a /\ i \in DOMAIN old /\ new[i] = old[i]
        BY <2>1, <2>2 DEF Replaces
      <3>2. QED
        BY <2>1, <3>1 DEF Places
    <2>3. CASE i > a /\ i <= a + f
      <3>1. i - a \in 1..f /\ i - a \in DOMAIN file /\ i = a + (i - a)
        BY <2>1, <2>3 DEF Replaces
      <3>2. new[i] = file[i - a]
        BY <3>1 DEF Replaces
      <3>3. QED
        BY <2>1, <3>1, <3>2 DEF Places
    <2>4. CASE i > a + f
      <3>1. /\ i - a - f \in 1..b /\ i - f + 1 \in DOMAIN old
            /\ i = a + f + (i - a - f) /\ i - f + 1 = a + 1 + (i - a - f)
        BY <2>1, <2>4 DEF Replaces
      <3>2. new[i] = old[i - f + 1]
        BY <3>1 DEF Replaces
      <3>3. QED
        BY <2>1, <3>1, <3>2 DEF Places
    <2>5. QED
      BY <2>1, <2>2, <2>3, <2>4
  <1>2. ASSUME NEW i \in P
        PROVE  /\ i \in 1..a => i \in R
               /\ i > a + 1 => i - 1 + f \in R
    <2>1. i \in 1..(a + 1 + b) /\ Covers(old[i], j)
      BY DEF Places, Replaces
    <2>2. CASE i \in 1..a
      <3>1. i \in DOMAIN new /\ new[i] = old[i] /\ ~(i > a + 1)
        BY <2>2 DEF Replaces
      <3>2. QED
        BY <2>1, <3>1 DEF Places
    <2>3. CASE i > a + 1
      <3>1. /\ i - (a + 1) \in 1..b /\ i - 1 + f \in DOMAIN new /\ i \notin 1..a
            /\ i - 1 + f = a + f + (i - (a + 1)) /\ i = a + 1 + (i - (a + 1))
        BY <2>1, <2>3 DEF Replaces
      <3>2. new[i - 1 + f] = old[i]
        BY <3>1 DEF Replaces
      <3>3. QED
        BY <2>1, <3>1, <3>2 DEF Places
    <2>4. QED
      BY <2>1, <2>2, <2>3
  <1>3. ASSUME NEW i \in Q PROVE a + i \in R
    <2>1. i \in 1..f /\ a + i \in DOMAIN new /\ new[a + i] = file[i] /\ Covers(file[i], j)
      BY DEF Places, Replaces
    <2>2. QED
      BY <2>1 DEF Places
  <1>4. /\ P \subseteq 1..(a + 1 + b) /\ Q \subseteq 1..f
        /\ R \subseteq 1..(a + f + b)
    BY DEF Places, Replaces
  <1>5. QED
    BY <1>1, <1>2, <1>3, <1>4

\* Tiles, over the set of places.
First(places, i) == \A k \in places : i <= k
Last(places, i) == \A k \in places : k <= i
Adjacent(places, i, k) == i < k /\ \A n \in places : n <= i \/ k <= n

\* Tiling, said of the places where a job has pieces.
LEMMA TilesPlaces ==
    ASSUME NEW file, NEW j, NEW from, NEW to
    PROVE  Tiles(file, j, from, to) <=>
             /\ Places(file, j) # {}
             /\ \A i \in Places(file, j) :
                  /\ First(Places(file, j), i) => file[i].from = from
                  /\ Last(Places(file, j), i) => file[i].to = to
                  /\ \A k \in Places(file, j) :
                       Adjacent(Places(file, j), i, k) => file[i].to = file[k].from
  BY DEF Tiles, Places, First, Last, Adjacent

\* The substitution: where a piece is replaced by a file that covers as much
\* of a job, whatever had tiled a range of that job still does.
LEMMA TilesReplaced ==
    ASSUME NEW a \in Nat, NEW b \in Nat, NEW f \in Nat, NEW new, NEW old, NEW file,
           Replaces(new, old, file, a, b, f), NEW j, NEW from, NEW to, NEW g, g = old[a + 1],
           Tiles(old, j, from, to),
           \/ Covers(g, j) /\ Tiles(file, j, g.from, g.to)
           \/ ~Covers(g, j) /\ Places(file, j) = {}
    PROVE  Tiles(new, j, from, to)
  <1>1. PICK P, Q, R : P = Places(old, j) /\ Q = Places(file, j) /\ R = Places(new, j)
    OBVIOUS
  <1>2. /\ \A i \in R : \/ i \in 1..a /\ i \in P /\ new[i] = old[i]
                        \/ i - a \in 1..f /\ i - a \in Q /\ new[i] = file[i - a]
                        \/ i - a - f \in 1..b /\ i - f + 1 \in P /\ new[i] = old[i - f + 1]
        /\ \A i \in P : i \in 1..a => i \in R
        /\ \A i \in P : i > a + 1 => i - 1 + f \in R
        /\ \A i \in Q : a + i \in R
        /\ \A i \in P : i \in Nat /\ 1 <= i /\ i <= a + 1 + b
        /\ \A i \in Q : i \in Nat /\ 1 <= i /\ i <= f
        /\ \A i \in R : i \in Nat /\ 1 <= i
    BY <1>1, PlacesReplaced, SMTT(30)
  <1>3. a + 1 \in P <=> Covers(g, j)
    BY <1>1 DEF Places, Replaces
  <1>4. P # {} /\ \A i \in P : /\ First(P, i) => old[i].from = from
                               /\ Last(P, i) => old[i].to = to
                               /\ \A k \in P : Adjacent(P, i, k) => old[i].to = old[k].from
    BY <1>1, TilesPlaces
  <1>5. ASSUME a + 1 \in P
        PROVE  Q # {} /\ \A i \in Q : /\ First(Q, i) => file[i].from = g.from
                                      /\ Last(Q, i) => file[i].to = g.to
                                      /\ \A k \in Q : Adjacent(Q, i, k) => file[i].to = file[k].from
    <2>1. Tiles(file, j, g.from, g.to)
      BY <1>3, <1>5
    <2>2. QED
      BY <1>1, <2>1, TilesPlaces
  <1>6. (a + 1 \in P) <=> (Q # {})
    BY <1>1, <1>3, <1>5
  <1>7. R # {}
    <2>1. PICK i \in P : TRUE
      BY <1>4
    <2>2. CASE i \in 1..a
      BY <1>2, <2>1, <2>2
    <2>3. CASE i = a + 1
      BY <1>2, <1>6, <2>1, <2>3
    <2>4. CASE i > a + 1
      BY <1>2, <2>1, <2>4
    <2>5. QED
      BY <1>2, <2>1, <2>2, <2>3, <2>4
  <1>8. ASSUME NEW i \in R, First(R, i) PROVE new[i].from = from
    <2>1. \A k \in R : i <= k
      BY <1>8 DEF First
    <2>2. CASE i \in 1..a /\ i \in P /\ new[i] = old[i]
      <3>1. First(P, i)
        BY <1>2, <2>1, <2>2 DEF First
      <3>2. QED
        BY <1>4, <2>2, <3>1
    <2>3. CASE i - a \in 1..f /\ i - a \in Q /\ new[i] = file[i - a]
      <3>1. First(Q, i - a)
        BY <1>2, <2>1, <2>3 DEF First
      <3>2. a + 1 \in P
        BY <1>6, <2>3
      <3>3. First(P, a + 1)
        BY <1>2, <2>1, <2>3 DEF First
      <3>4. file[i - a].from = g.from /\ old[a + 1].from = from
        BY <1>4, <1>5, <2>3, <3>1, <3>2, <3>3
      <3>5. QED
        BY <2>3, <3>4
    <2>4. CASE i - a - f \in 1..b /\ i - f + 1 \in P /\ new[i] = old[i - f + 1]
      <3>1. Q = {}
        BY <1>2, <2>1, <2>4
      <3>2. a + 1 \notin P
        BY <1>6, <3>1
      <3>3. First(P, i - f + 1)
        BY <1>2, <2>1, <2>4, <3>2 DEF First
      <3>4. QED
        BY <1>4, <2>4, <3>3
    <2>5. QED
      BY <1>2, <2>2, <2>3, <2>4
  <1>9. ASSUME NEW i \in R, Last(R, i) PROVE new[i].to = to
    <2>1. \A k \in R : k <= i
      BY <1>9 DEF Last
    <2>2. CASE i \in 1..a /\ i \in P /\ new[i] = old[i]
      <3>1. Q = {}
        BY <1>2, <2>1, <2>2
      <3>2. a + 1 \notin P
        BY <1>6, <3>1
      <3>3. Last(P, i)
        BY <1>2, <2>1, <2>2, <3>2 DEF Last
      <3>4. QED
        BY <1>4, <2>2, <3>3
    <2>3. CASE i - a \in 1..f /\ i - a \in Q /\ new[i] = file[i - a]
      <3>1. Last(Q, i - a)
        BY <1>2, <2>1, <2>3 DEF Last
      <3>2. a + 1 \in P
        BY <1>6, <2>3
      <3>3. Last(P, a + 1)
        BY <1>2, <2>1, <2>3 DEF Last
      <3>4. file[i - a].to = g.to /\ old[a + 1].to = to
        BY <1>4, <1>5, <2>3, <3>1, <3>2, <3>3
      <3>5. QED
        BY <2>3, <3>4
    <2>4. CASE i - a - f \in 1..b /\ i - f + 1 \in P /\ new[i] = old[i - f + 1]
      <3>1. Last(P, i - f + 1)
        BY <1>2, <2>1, <2>4 DEF Last
      <3>2. QED
        BY <1>4, <2>4, <3>1
    <2>5. QED
      BY <1>2, <2>2, <2>3, <2>4
  <1>10. ASSUME NEW i \in R, NEW k \in R, Adjacent(R, i, k) PROVE new[i].to = new[k].from
    <2>1. i < k /\ \A n \in R : n <= i \/ k <= n
      BY <1>10 DEF Adjacent
    <2> DEFINE InA(x) == x \in 1..a /\ x \in P /\ new[x] = old[x]
               InF(x) == x - a \in 1..f /\ x - a \in Q /\ new[x] = file[x - a]
               InB(x) == x - a - f \in 1..b /\ x - f + 1 \in P /\ new[x] = old[x - f + 1]
    <2>2. (InA(i) \/ InF(i) \/ InB(i)) /\ (InA(k) \/ InF(k) \/ InB(k))
      BY <1>2
    <2>3. i \in Nat /\ k \in Nat
      BY <1>2
    <2>4. CASE InA(i) /\ InA(k)
      <3>1. Adjacent(P, i, k)
        BY <1>2, <2>1, <2>3, <2>4 DEF Adjacent
      <3>2. QED
        BY <1>4, <2>4, <3>1
    <2>5. CASE InA(i) /\ InF(k)
      <3>1. a + 1 \in P
        BY <1>6, <2>5
      <3>2. First(Q, k - a)
        BY <1>2, <2>1, <2>3, <2>5 DEF First
      <3>3. Adjacent(P, i, a + 1)
        BY <1>2, <2>1, <2>3, <2>5 DEF Adjacent
      <3>4. old[i].to = g.from /\ file[k - a].from = g.from
        BY <1>4, <1>5, <2>5, <3>1, <3>2, <3>3
      <3>5. QED
        BY <2>5, <3>4
    <2>6. CASE InA(i) /\ InB(k)
      <3>1. Q = {}
        BY <1>2, <2>1, <2>3, <2>6
      <3>2. a + 1 \notin P
        BY <1>6, <3>1
      <3>3. Adjacent(P, i, k - f + 1)
        BY <1>2, <2>1, <2>3, <2>6, <3>2 DEF Adjacent
      <3>4. QED
        BY <1>4, <2>6, <3>3, ZenonT(30)
    <2>7. CASE InF(i) /\ InF(k)
      <3>1. a + 1 \in P
        BY <1>6, <2>7
      <3>2. Adjacent(Q, i - a, k - a)
        BY <1>2, <2>1, <2>3, <2>7 DEF Adjacent
      <3>3. QED
        BY <1>5, <2>7, <3>1, <3>2
    <2>8. CASE InF(i) /\ InB(k)
      <3>1. a + 1 \in P
        BY <1>6, <2>8
      <3>2. Last(Q, i - a)
        BY <1>2, <2>1, <2>3, <2>8 DEF Last
      <3>3. Adjacent(P, a + 1, k - f + 1)
        BY <1>2, <2>1, <2>3, <2>8 DEF Adjacent
      <3>4. file[i - a].to = g.to /\ g.to = old[k - f + 1].from
        BY <1>4, <1>5, <2>8, <3>1, <3>2, <3>3
      <3>5. QED
        BY <2>8, <3>4
    <2>9. CASE InB(i) /\ InB(k)
      <3>1. Adjacent(P, i - f + 1, k - f + 1)
        BY <1>2, <2>1, <2>3, <2>9 DEF Adjacent
      <3>2. QED
        BY <1>4, <2>9, <3>1
    <2>10. ~(InF(i) /\ InA(k)) /\ ~(InB(i) /\ InA(k)) /\ ~(InB(i) /\ InF(k))
      BY <2>1, <2>3
    <2>11. QED
      BY <2>2, <2>4, <2>5, <2>6, <2>7, <2>8, <2>9, <2>10
  <1>11. QED
    BY <1>1, <1>7, <1>8, <1>9, <1>10, TilesPlaces

\* A concatenation with one piece replaced, in terms of places.
LEMMA ConcatReplaces ==
    ASSUME NEW A \in Seq(Attempts), NEW B \in Seq(Attempts), NEW F \in Seq(Attempts),
           NEW g \in Attempts,
           NEW old, old = A \o <<g>> \o B, NEW new, new = A \o F \o B
    PROVE  /\ Replaces(new, old, F, Len(A), Len(B), Len(F)) /\ old[Len(A) + 1] = g
           /\ Len(A) \in Nat /\ Len(B) \in Nat /\ Len(F) \in Nat
           /\ old \in Seq(Attempts) /\ new \in Seq(Attempts)
  <1>1. PICK a, b, f : a = Len(A) /\ b = Len(B) /\ f = Len(F)
    OBVIOUS
  <1>2. PICK G, P, Q : G = <<g>> /\ P = A \o G /\ Q = A \o F
    OBVIOUS
  <1>3. /\ a \in Nat /\ b \in Nat /\ f \in Nat /\ DOMAIN F = 1..f
        /\ G \in Seq(Attempts) /\ Len(G) = 1 /\ G[1] = g
    BY <1>1, <1>2
  <1>4. /\ P \in Seq(Attempts) /\ Len(P) = a + 1
        /\ \A i \in 1..(a + 1) : P[i] = IF i <= a THEN A[i] ELSE G[i - a]
    BY <1>1, <1>2, <1>3, ConcatProperties
  <1>5. /\ Q \in Seq(Attempts) /\ Len(Q) = a + f
        /\ \A i \in 1..(a + f) : Q[i] = IF i <= a THEN A[i] ELSE F[i - a]
    BY <1>1, <1>2, <1>3, ConcatProperties
  <1>6. old = P \o B /\ new = Q \o B
    BY <1>2
  <1>7. /\ old \in Seq(Attempts) /\ DOMAIN old = 1..(a + 1 + b)
        /\ \A i \in 1..(a + 1 + b) : old[i] = IF i <= a + 1 THEN P[i] ELSE B[i - (a + 1)]
    BY <1>1, <1>3, <1>4, <1>6, ConcatProperties
  <1>8. /\ new \in Seq(Attempts) /\ DOMAIN new = 1..(a + f + b)
        /\ \A i \in 1..(a + f + b) : new[i] = IF i <= a + f THEN Q[i] ELSE B[i - (a + f)]
    <2>1. PICK m : m = a + f
      OBVIOUS
    <2>2. m \in Nat /\ Len(Q) = m /\ Q \in Seq(Attempts)
      BY <1>3, <1>5, <2>1
    <2>3. /\ new \in Seq(Attempts) /\ Len(new) = m + b
          /\ \A i \in 1..(m + b) : new[i] = IF i <= m THEN Q[i] ELSE B[i - m]
      <3>1. /\ Q \o B \in Seq(Attempts) /\ Len(Q \o B) = Len(Q) + Len(B)
            /\ \A i \in 1..(Len(Q) + Len(B)) :
                 (Q \o B)[i] = IF i <= Len(Q) THEN Q[i] ELSE B[i - Len(Q)]
        BY <2>2, ConcatProperties
      <3>2. QED
        BY ONLY <1>1, <1>6, <2>2, <3>1
    <2>4. DOMAIN new = 1..(m + b)
      BY <2>3
    <2>5. QED
      BY <2>1, <2>3, <2>4
  <1>9. \A i \in 1..a : new[i] = old[i]
    <2>1. ASSUME NEW i \in 1..a PROVE new[i] = old[i]
      <3>1. /\ i \in 1..(a + f) /\ i \in 1..(a + f + b) /\ i <= a /\ i <= a + f
            /\ i \in 1..(a + 1) /\ i \in 1..(a + 1 + b) /\ i <= a + 1
        BY <1>3
      <3>2. new[i] = Q[i] /\ Q[i] = A[i]
        BY <1>5, <1>8, <3>1
      <3>3. old[i] = P[i] /\ P[i] = A[i]
        BY <1>4, <1>7, <3>1
      <3>4. QED
        BY <3>2, <3>3
    <2>2. QED
      BY <2>1
  <1>10. \A i \in 1..f : new[a + i] = F[i]
    <2>1. ASSUME NEW i \in 1..f PROVE new[a + i] = F[i]
      <3>1. /\ a + i \in 1..(a + f) /\ a + i \in 1..(a + f + b)
            /\ ~(a + i <= a) /\ a + i <= a + f /\ (a + i) - a = i
        BY <1>3
      <3>2. new[a + i] = Q[a + i]
        BY <1>8, <3>1
      <3>3. Q[a + i] = F[i]
        BY <1>5, <3>1
      <3>4. QED
        BY <3>2, <3>3
    <2>2. QED
      BY <2>1
  <1>11. \A i \in 1..b : new[a + f + i] = old[a + 1 + i]
    <2>1. ASSUME NEW i \in 1..b PROVE new[a + f + i] = old[a + 1 + i]
      <3>1. /\ a + f + i \in 1..(a + f + b) /\ ~(a + f + i <= a + f) /\ (a + f + i) - (a + f) = i
            /\ a + 1 + i \in 1..(a + 1 + b) /\ ~(a + 1 + i <= a + 1) /\ (a + 1 + i) - (a + 1) = i
        BY <1>3
      <3>2. new[a + f + i] = B[i] /\ old[a + 1 + i] = B[i]
        BY <1>7, <1>8, <3>1
      <3>3. QED
        BY <3>2
    <2>2. QED
      BY <2>1
  <1>12. old[a + 1] = g
    <2>1. /\ a + 1 \in 1..(a + 1 + b) /\ a + 1 \in 1..(a + 1) /\ a + 1 <= a + 1
          /\ ~(a + 1 <= a) /\ (a + 1) - a = 1
      BY <1>3
    <2>2. old[a + 1] = P[a + 1] /\ P[a + 1] = G[1]
      BY <1>4, <1>7, <2>1
    <2>3. QED
      BY <1>3, <2>2
  <1>13. QED
    BY <1>1, <1>3, <1>7, <1>8, <1>9, <1>10, <1>11, <1>12 DEF Replaces

\* A file that completes g may take its place.
LEMMA CompletesReplaced ==
    ASSUME NEW A \in Seq(Attempts), NEW B \in Seq(Attempts), NEW F \in Seq(Attempts),
           NEW g \in Attempts, NEW G, Completes(A \o <<g>> \o B, G), Completes(F, g)
    PROVE  Completes(A \o F \o B, G)
  <1>1. PICK old, new : old = A \o <<g>> \o B /\ new = A \o F \o B
    OBVIOUS
  <1>2. PICK a, b, f : a = Len(A) /\ b = Len(B) /\ f = Len(F)
    OBVIOUS
  <1>3. /\ Replaces(new, old, F, a, b, f) /\ old[a + 1] = g
        /\ a \in Nat /\ b \in Nat /\ f \in Nat
    <2>1. /\ Replaces(new, old, F, Len(A), Len(B), Len(F)) /\ old[Len(A) + 1] = g
          /\ Len(A) \in Nat /\ Len(B) \in Nat /\ Len(F) \in Nat
      BY <1>1, ConcatReplaces, Zenon
    <2>2. QED
      BY <1>2, <2>1
  <1>4. Completes(old, G)
    BY <1>1
  <1>5. ASSUME NEW j \in Job, ~Covers(g, j) PROVE Places(F, j) = {}
    BY <1>5 DEF Completes, Places
  <1>6. ASSUME NEW j \in Job, Covers(G, j) PROVE Tiles(new, j, G.from, G.to)
    <2>1. Tiles(old, j, G.from, G.to)
      BY <1>4, <1>6 DEF Completes
    <2>2. \/ Covers(g, j) /\ Tiles(F, j, g.from, g.to)
          \/ ~Covers(g, j) /\ Places(F, j) = {}
      BY <1>5 DEF Completes
    <2>3. QED
      BY <1>3, <2>1, <2>2, TilesReplaced
  <1>7. ASSUME NEW j \in Job, ~Covers(G, j), NEW i \in DOMAIN new PROVE ~Covers(new[i], j)
    <2>1. Places(old, j) = {}
      BY <1>4, <1>7 DEF Completes, Places
    <2>2. ~Covers(g, j)
      <3>1. a + 1 \in DOMAIN old
        BY <1>3 DEF Replaces
      <3>2. QED
        BY <1>3, <2>1, <3>1 DEF Places
    <2>3. Places(F, j) = {}
      BY <1>5, <2>2
    <2>4. PICK P, Q, R : P = Places(old, j) /\ Q = Places(F, j) /\ R = Places(new, j)
      OBVIOUS
    <2>5. R = {}
      BY <1>3, <2>1, <2>3, <2>4, PlacesReplaced, SMTT(30)
    <2>6. QED
      BY <2>4, <2>5 DEF Places
  <1>8. Completes(new, G)
    BY <1>6, <1>7 DEF Completes
  <1>9. QED
    BY <1>1, <1>8

\* The same jobs over the same time, in whatever way.
SameSpan(a, b) == a.jobs = b.jobs /\ a.from = b.from /\ a.to = b.to

\* An attempt that is written completes itself.
LEMMA CompletesSelf ==
    ASSUME NEW a \in Attempts, NEW b, SameSpan(a, b) PROVE Completes(<<a>>, b)
  <1>1. \A j : Covers(a, j) <=> Covers(b, j)
    BY DEF Covers, SameSpan
  <1>2. PICK F : F = <<a>>
    OBVIOUS
  <1>3. DOMAIN F = {1} /\ F[1] = a
    BY <1>2
  <1>4. ASSUME NEW j \in Job, Covers(b, j) PROVE Tiles(F, j, b.from, b.to)
    <2>1. PICK P : P = Places(F, j)
      OBVIOUS
    <2>2. P = {1}
      BY <1>1, <1>3, <1>4, <2>1 DEF Places
    <2>3. /\ P # {}
          /\ \A i \in P : /\ First(P, i) => F[i].from = b.from
                          /\ Last(P, i) => F[i].to = b.to
                          /\ \A k \in P : Adjacent(P, i, k) => F[i].to = F[k].from
      BY <1>3, <2>2 DEF SameSpan, Adjacent
    <2>4. QED
      BY <2>1, <2>3, TilesPlaces
  <1>5. ASSUME NEW j \in Job, ~Covers(b, j), NEW i \in DOMAIN F PROVE ~Covers(F[i], j)
    BY <1>1, <1>3, <1>5
  <1>6. QED
    BY <1>2, <1>4, <1>5 DEF Completes

\* What completes an attempt completes any of the same jobs and range.
LEMMA CompletesSame ==
    ASSUME NEW file, NEW a, NEW b, SameSpan(a, b), Completes(file, a)
    PROVE  Completes(file, b)
  BY DEF Completes, SameSpan, Covers

\* Both halves together complete the attempt that was split.
LEMMA TimeChildrenComplete ==
    ASSUME TInv, MaySplit, SplittableInTime PROVE Completes(TimeChildren, attempt)
  <1>1. PICK F, m : F = TimeChildren /\ m = Middle
    OBVIOUS
  <1>2. /\ F \in Seq(Attempts) /\ Len(F) = 2
        /\ F[1].jobs = attempt.jobs /\ F[2].jobs = attempt.jobs
        /\ F[1].from = attempt.from /\ F[1].to = m
        /\ F[2].from = m /\ F[2].to = attempt.to
    BY <1>1, TimeChildrenFacts
  <1>3. DOMAIN F = {1, 2}
    BY <1>2
  <1>4. \A j : /\ Covers(F[1], j) <=> Covers(attempt, j)
               /\ Covers(F[2], j) <=> Covers(attempt, j)
    BY <1>2 DEF Covers
  <1>5. ASSUME NEW j \in Job, Covers(attempt, j)
        PROVE  Tiles(F, j, attempt.from, attempt.to)
    <2>1. PICK P : P = Places(F, j)
      OBVIOUS
    <2>2. P = {1, 2}
      BY <1>3, <1>4, <1>5, <2>1 DEF Places
    <2>3. /\ P # {}
          /\ \A i \in P : /\ First(P, i) => F[i].from = attempt.from
                          /\ Last(P, i) => F[i].to = attempt.to
                          /\ \A k \in P : Adjacent(P, i, k) => F[i].to = F[k].from
      BY <1>2, <2>2 DEF First, Last, Adjacent
    <2>4. QED
      BY <2>1, <2>3, TilesPlaces
  <1>6. ASSUME NEW j \in Job, ~Covers(attempt, j), NEW i \in DOMAIN F PROVE ~Covers(F[i], j)
    BY <1>3, <1>4, <1>6
  <1>7. QED
    BY <1>1, <1>5, <1>6 DEF Completes

\* So do the attempts for each of its jobs.
LEMMA JobChildrenComplete ==
    ASSUME TInv, MaySplit, attempt.jobs # <<>> PROVE Completes(JobChildren, attempt)
  <1>1. PICK F, n : F = JobChildren /\ n = Len(attempt.jobs)
    OBVIOUS
  <1>2. /\ F \in Seq(Attempts) /\ Len(F) = n
        /\ \A i \in 1..n : /\ F[i].jobs = <<attempt.jobs[i]>>
                           /\ F[i].from = attempt.from /\ F[i].to = attempt.to
    BY <1>1, JobChildrenFacts
  <1>3. /\ DOMAIN attempt.jobs = 1..n /\ n \in Nat /\ Distinct(attempt.jobs)
        /\ DOMAIN F = 1..n
    BY <1>1, <1>2 DEF TInv, Pending, Attempts
  <1>4. \A i \in 1..n : \A j : Covers(F[i], j) <=> attempt.jobs[i] = j
    <2>1. ASSUME NEW i \in 1..n, NEW j PROVE Covers(F[i], j) <=> attempt.jobs[i] = j
      <3>1. F[i].jobs = <<attempt.jobs[i]>>
        BY <1>2
      <3>2. QED
        BY <3>1 DEF Covers
    <2>2. QED
      BY <2>1
  <1>5. ASSUME NEW j \in Job, Covers(attempt, j)
        PROVE  Tiles(F, j, attempt.from, attempt.to)
    <2>1. PICK P : P = Places(F, j)
      OBVIOUS
    <2>2. PICK p \in 1..n : attempt.jobs[p] = j
      BY <1>3, <1>5 DEF Covers
    <2>3. P = {p}
      BY <1>3, <1>4, <2>1, <2>2 DEF Places, Distinct
    <2>4. /\ P # {}
          /\ \A i \in P : /\ First(P, i) => F[i].from = attempt.from
                          /\ Last(P, i) => F[i].to = attempt.to
                          /\ \A k \in P : Adjacent(P, i, k) => F[i].to = F[k].from
      BY <1>2, <2>3 DEF First, Last, Adjacent
    <2>5. QED
      BY <2>1, <2>4, TilesPlaces
  <1>6. ASSUME NEW j \in Job, ~Covers(attempt, j), NEW i \in DOMAIN F PROVE ~Covers(F[i], j)
    BY <1>3, <1>4, <1>6 DEF Covers
  <1>7. QED
    BY <1>1, <1>5, <1>6 DEF Completes

----------------------------------------------------------------------------
(* What is written and still to do completes every split.                  *)

\* With c in the middle of it, the frame completes the attempt it splits.
FrameDone(f, c) == Completes(f.file \o <<c>> \o f.todo, f.split)

\* Every frame but the innermost has the split above it in the middle.
Linked(s) == \A n \in DOMAIN s : n > 1 => FrameDone(s[n], s[n - 1].split)

\* The first call of all.
Root(s, a) == IF s = <<>> THEN a ELSE s[Len(s)].split

CInv ==
    /\ phase \in {"trying", "settling"} =>
         /\ Linked(stack)
         /\ SameSpan(Root(stack, attempt), FirstAttempt(config))
    /\ phase = "trying" /\ stack # <<>> => FrameDone(stack[1], attempt)
    /\ phase = "settling" => Completes(stack[1].file \o stack[1].todo, stack[1].split)
    /\ phase = "failed" => Len(staging) <= 1 /\ \A i \in DOMAIN staging : ~staging[i].whole
    /\ phase = "ok" => /\ Len(staging) = 1 /\ staging[1].whole
                      /\ Completes(staging[1].output, FirstAttempt(config))

\* Before the first attempt there is nothing to complete.
LEMMA CompleteInit == ASSUME Init PROVE CInv
  <1>1. stack = <<>> /\ phase = "trying" /\ attempt = FirstAttempt(config)
    BY DEF Init
  <1>2. Linked(stack) /\ Root(stack, attempt) = attempt
    BY <1>1 DEF Linked, Root
  <1>3. QED
    BY <1>1, <1>2 DEF CInv, SameSpan

\* The innermost frame may change, as long as it is the frame of its split.
LEMMA TopSwapped ==
    ASSUME NEW s \in Seq(Frames), s # <<>>, NEW g \in Frames, g.split = s[1].split,
           NEW t, t = WithTop(s, g), Linked(s), NEW a, NEW b
    PROVE  Linked(t) /\ Root(t, a) = Root(s, b) /\ t[1] = g /\ t # <<>>
  <1>1. /\ t \in Seq(Frames) /\ Len(t) = Len(s) /\ t[1] = g /\ t # <<>>
        /\ DOMAIN t = 1..Len(s) /\ \A n \in 2..Len(s) : t[n] = s[n]
    BY DEF WithTop
  <1>2. Len(s) \in Nat \ {0} /\ DOMAIN s = 1..Len(s)
    OBVIOUS
  <1>3. \A n \in 1..Len(s) : t[n].split = s[n].split
    <2>1. ASSUME NEW n \in 1..Len(s) PROVE t[n].split = s[n].split
      <3>1. n = 1 \/ n \in 2..Len(s)
        BY <1>2
      <3>2. QED
        BY <1>1, <3>1
    <2>2. QED
      BY <2>1
  <1>4. ASSUME NEW n \in DOMAIN t, n > 1 PROVE FrameDone(t[n], t[n - 1].split)
    <2>1. n \in 2..Len(s) /\ n - 1 \in 1..Len(s) /\ n \in DOMAIN s
      BY <1>1, <1>2, <1>4
    <2>2. FrameDone(s[n], s[n - 1].split)
      BY <1>4, <2>1 DEF Linked
    <2>3. t[n] = s[n] /\ t[n - 1].split = s[n - 1].split
      BY <1>1, <1>3, <2>1
    <2>4. QED
      BY <2>2, <2>3
  <1>5. Root(t, a) = Root(s, b)
    BY <1>1, <1>2, <1>3 DEF Root
  <1>6. QED
    BY <1>1, <1>4, <1>5 DEF Linked

\* AttemptSucceeds keeps what completes what.
LEMMA AttemptSucceedsKeepsComplete == ASSUME TInv, CInv, AttemptSucceeds PROVE CInv'
  <1>1. /\ phase = "trying" /\ staging = <<>> /\ config' = config /\ attempt' = attempt
        /\ attempt \in Attempts
    BY DEF TInv, Pending, AttemptSucceeds
  <1>2. PICK s, a, r, w : /\ s = stack /\ a = attempt /\ r = FirstAttempt(config)
                          /\ w = Written
    OBVIOUS
  <1>3. FirstAttempt(config)' = r
    BY <1>1, <1>2 DEF FirstAttempt
  <1>4. Linked(s) /\ SameSpan(Root(s, a), r)
    BY <1>1, <1>2 DEF CInv
  <1>5. w \in Attempts /\ <<w>> \in Seq(Attempts) /\ SameSpan(w, a)
    BY <1>1, <1>2, WrittenFacts DEF SameSpan
  <1>6. CASE stack = <<>>
    <2>1. staging' = Append(staging, Whole(<<w>>)) /\ phase' = "ok"
      BY <1>2, <1>6 DEF AttemptSucceeds, AppendTo
    <2>2. /\ Whole(<<w>>) \in Appends /\ Whole(<<w>>).output = <<w>>
          /\ Whole(<<w>>).whole = TRUE
      BY <1>5, OutputTypes
    <2>3. Len(staging') = 1 /\ staging'[1] = Whole(<<w>>)
      BY <1>1, <2>1, <2>2, Appended
    <2>4. Completes(<<w>>, r)
      <3>1. SameSpan(w, r)
        BY <1>2, <1>4, <1>6, <1>5 DEF Root, SameSpan
      <3>2. QED
        BY <1>5, <3>1, CompletesSelf
    <2>5. QED
      BY <1>3, <2>1, <2>2, <2>3, <2>4 DEF CInv
  <1>7. CASE stack # <<>>
    <2>1. PICK g : g = Filled(s[1], <<w>>)
      OBVIOUS
    <2>2. /\ stack' = [s EXCEPT ![1].file = @ \o <<w>>] /\ phase' = "settling"
      BY <1>2, <1>7 DEF AttemptSucceeds, AppendTo
    <2>3. s \in Seq(Frames) /\ s # <<>> /\ s[1] \in Frames
      BY <1>2, <1>7, FrameFacts DEF TInv
    <2>4. stack' = WithTop(s, g)
      BY <2>1, <2>2 DEF WithTop, Filled
    <2>5. /\ g \in Frames /\ g.todo = s[1].todo /\ g.split = s[1].split
          /\ g.file = s[1].file \o <<w>>
      <3> PICK f, o : f = s[1] /\ o = <<w>>
        OBVIOUS
      <3>1. o \in Seq(Attempts) /\ f \in Frames /\ g = Filled(f, o)
        BY <1>5, <2>1, <2>3
      <3>2. /\ g \in Frames /\ g.todo = f.todo /\ g.split = f.split
            /\ g.file = f.file \o o
        BY ONLY <3>1, FilledFrame
      <3> QED
        BY <3>2
    <2>6. FrameDone(s[1], a)
      BY <1>1, <1>2, <1>7 DEF CInv
    <2>7. Completes(g.file \o g.todo, g.split)
      <3>1. PICK f, o : f = s[1] /\ o = <<w>>
        OBVIOUS
      <3>2. /\ f.file \in Seq(Attempts) /\ f.todo \in Seq(Attempts)
            /\ f.split \in Attempts /\ o \in Seq(Attempts) /\ a \in Attempts
        BY <1>1, <1>2, <1>5, <2>3, <3>1 DEF Frames
      <3>3. Completes(o, a) /\ Completes(f.file \o <<a>> \o f.todo, f.split)
        BY <1>5, <2>6, <3>1, CompletesSelf DEF FrameDone
      <3>4. Completes(f.file \o o \o f.todo, f.split)
        BY <3>2, <3>3, CompletesReplaced
      <3>5. QED
        BY <2>5, <3>1, <3>4
    <2>8. Linked(stack') /\ Root(stack', attempt') = Root(s, a) /\ stack'[1] = g
      BY <1>1, <1>2, <1>4, <2>3, <2>4, <2>5, TopSwapped
    <2>9. QED
      BY <1>3, <1>4, <2>2, <2>7, <2>8 DEF CInv
  <1>8. QED
    BY <1>6, <1>7

\* NextChild keeps what completes what.
LEMMA NextChildKeepsComplete == ASSUME TInv, CInv, NextChild PROVE CInv'
  <1>1. /\ phase = "settling" /\ stack # <<>> /\ stack[1].todo # <<>> /\ config' = config
        /\ phase' = "trying" /\ attempt' = Head(stack[1].todo)
        /\ stack' = [stack EXCEPT ![1].todo = Tail(@)]
    BY DEF TInv, NextChild
  <1>2. PICK s, f, r, a : /\ s = stack /\ f = stack[1] /\ r = FirstAttempt(config)
                          /\ a = attempt
    OBVIOUS
  <1>3. FirstAttempt(config)' = r
    BY <1>1, <1>2 DEF FirstAttempt
  <1>4. /\ Linked(s) /\ SameSpan(Root(s, a), r)
        /\ Completes(f.file \o f.todo, f.split)
    BY <1>1, <1>2 DEF CInv
  <1>5. /\ s \in Seq(Frames) /\ f \in Frames /\ f = s[1] /\ s # <<>>
        /\ f.todo \in Seq(Attempts) /\ f.todo # <<>> /\ f.file \in Seq(Attempts)
    BY <1>1, <1>2, FrameFacts DEF TInv
  <1>6. PICK g, h : g = [f EXCEPT !.todo = Tail(f.todo)] /\ h = Head(f.todo)
    OBVIOUS
  <1>7. /\ Tail(f.todo) \in Seq(Attempts) /\ h \in Attempts /\ f.todo = <<h>> \o Tail(f.todo)
    BY <1>5, <1>6, HeadTailProperties
  <1>8. g \in Frames /\ g.file = f.file /\ g.todo = Tail(f.todo) /\ g.split = f.split
    BY <1>5, <1>6, <1>7 DEF Frames
  <1>9. stack' = WithTop(s, g) /\ attempt' = h
    BY <1>1, <1>2, <1>6 DEF WithTop
  <1>10. f.file \o f.todo = (f.file \o <<h>>) \o Tail(f.todo)
    <2>1. f.file \o (<<h>> \o Tail(f.todo)) = (f.file \o <<h>>) \o Tail(f.todo)
      <3>1. PICK x, y, z : x = f.file /\ y = <<h>> /\ z = Tail(f.todo)
        OBVIOUS
      <3>2. x \in Seq(Attempts) /\ y \in Seq(Attempts) /\ z \in Seq(Attempts)
        BY <1>5, <1>7, <3>1
      <3>3. (x \o y) \o z = x \o (y \o z)
        BY <3>2
      <3>4. QED
        BY <3>1, <3>3
    <2>2. QED
      BY <1>7, <2>1
  <1>11. FrameDone(g, h)
    BY <1>4, <1>8, <1>10 DEF FrameDone
  <1>12. Linked(stack') /\ Root(stack', attempt') = Root(s, a) /\ stack'[1] = g
    BY <1>4, <1>5, <1>8, <1>9, TopSwapped, SMTT(30)
  <1>13. QED
    BY <1>1, <1>3, <1>4, <1>9, <1>11, <1>12 DEF CInv

\* CloseSplit keeps what completes what.
LEMMA CloseSplitKeepsComplete == ASSUME TInv, CInv, CloseSplit PROVE CInv'
  <1>1. /\ phase = "settling" /\ stack # <<>> /\ staging = <<>> /\ config' = config
        /\ attempt' = attempt /\ stack[1].todo = <<>>
    BY DEF TInv, CloseSplit
  <1>2. PICK s, output, r, a, G : /\ s = stack /\ output = stack[1].file /\ a = attempt
                                  /\ r = FirstAttempt(config) /\ G = stack[1].split
    OBVIOUS
  <1>3. FirstAttempt(config)' = r
    BY <1>1, <1>2 DEF FirstAttempt
  <1>4. /\ s \in Seq(Frames) /\ s # <<>> /\ output \in Seq(Attempts) /\ G \in Attempts
        /\ Len(s) \in Nat \ {0} /\ DOMAIN s = 1..Len(s)
        /\ Tail(s) \in Seq(Frames) /\ Len(Tail(s)) = Len(s) - 1
        /\ \A n \in 1..Len(s) - 1 : Tail(s)[n] = s[n + 1]
    BY <1>1, <1>2, FrameFacts DEF TInv
  <1>5. /\ Linked(s) /\ SameSpan(Root(s, a), r)
        /\ Completes(output \o <<>>, G)
    BY <1>1, <1>2 DEF CInv
  <1>6. Completes(output, G)
    BY <1>4, <1>5, ConcatEmptySeq
  <1>7. CASE Len(stack) = 1
    <2>1. staging' = Append(staging, Whole(output)) /\ phase' = "ok"
      BY <1>2, <1>7 DEF CloseSplit
    <2>2. /\ Whole(output) \in Appends /\ Whole(output).output = output
          /\ Whole(output).whole = TRUE
      BY <1>4, OutputTypes
    <2>3. Len(staging') = 1 /\ staging'[1] = Whole(output)
      BY <1>1, <2>1, <2>2, Appended
    <2>4. SameSpan(G, r)
      BY <1>2, <1>4, <1>5, <1>7 DEF Root
    <2>5. Completes(output, r)
      BY <1>6, <2>4, CompletesSame
    <2>6. QED
      BY <1>3, <2>1, <2>2, <2>3, <2>5 DEF CInv
  <1>8. CASE Len(stack) # 1
    <2>1. PICK t : t = Tail(s)
      OBVIOUS
    <2>2. PICK g : g = Filled(t[1], output)
      OBVIOUS
    <2>3. /\ stack' = [t EXCEPT ![1].file = @ \o output] /\ phase' = "settling"
      BY <1>1, <1>2, <1>8, <2>1 DEF CloseSplit
    <2>4. stack' = WithTop(t, g)
      BY <2>2, <2>3 DEF WithTop, Filled
    <2>5. /\ t \in Seq(Frames) /\ Len(t) = Len(s) - 1 /\ Len(t) \in Nat \ {0} /\ t # <<>>
          /\ DOMAIN t = 1..Len(t) /\ t[1] \in Frames /\ t[1] = s[2] /\ 2 \in DOMAIN s
          /\ \A n \in 1..Len(t) : t[n] = s[n + 1]
      <3>1. t \in Seq(Frames) /\ Len(t) = Len(s) - 1 /\ Len(s) # 1
        BY <1>2, <1>4, <1>8, <2>1
      <3>2. Len(t) \in Nat \ {0} /\ 2 \in DOMAIN s
        BY <1>4, <3>1
      <3>3. \A n \in 1..Len(t) : t[n] = s[n + 1]
        BY <1>4, <2>1, <3>1
      <3>4. t[1] = s[2] /\ t # <<>> /\ DOMAIN t = 1..Len(t) /\ t[1] \in Frames
        BY <3>1, <3>2, <3>3
      <3>5. QED
        BY <3>1, <3>2, <3>3, <3>4
    <2>6. Linked(t)
      <3>1. ASSUME NEW n \in DOMAIN t, n > 1 PROVE FrameDone(t[n], t[n - 1].split)
        <4>1. /\ n \in 1..Len(t) /\ n - 1 \in 1..Len(t) /\ n + 1 \in DOMAIN s
              /\ n + 1 > 1 /\ (n + 1) - 1 = n /\ (n - 1) + 1 = n
          BY <1>4, <2>5, <3>1
        <4>2. t[n] = s[n + 1] /\ t[n - 1] = s[n]
          BY <2>5, <4>1
        <4>3. FrameDone(s[n + 1], s[(n + 1) - 1].split)
          BY <1>5, <4>1 DEF Linked
        <4>4. QED
          BY <4>1, <4>2, <4>3
      <3>2. QED
        BY <3>1 DEF Linked
    <2>7. Root(t, a) = Root(s, a)
      <3>1. Len(t) \in 1..Len(t) /\ Len(t) + 1 = Len(s)
        BY <1>4, <2>5
      <3>2. t[Len(t)] = s[Len(s)]
        BY <2>5, <3>1
      <3>3. QED
        BY <1>4, <2>5, <3>2 DEF Root
    <2>8. FrameDone(t[1], G)
      <3>1. PICK n, k : n = 2 /\ k = 1
        OBVIOUS
      <3>2. FrameDone(s[n], s[k].split)
        <4>1. n \in DOMAIN s /\ n > 1 /\ n - 1 = k
          BY <2>5, <3>1
        <4>2. FrameDone(s[n], s[n - 1].split)
          BY <1>5, <4>1 DEF Linked
        <4>3. QED
          BY <4>1, <4>2
      <3>3. QED
        BY <1>2, <2>5, <3>1, <3>2
    <2>9. /\ t[1].file \in Seq(Attempts) /\ t[1].todo \in Seq(Attempts)
          /\ t[1].split \in Attempts
      BY <2>5 DEF Frames
    <2>10. Completes(t[1].file \o output \o t[1].todo, t[1].split)
      BY <1>4, <1>6, <2>8, <2>9, CompletesReplaced DEF FrameDone
    <2>11. /\ g \in Frames /\ g.todo = t[1].todo /\ g.split = t[1].split
           /\ g.file = t[1].file \o output
      <3>1. PICK h : h = t[1]
        OBVIOUS
      <3>2. h \in Frames /\ g = Filled(h, output)
        BY <2>2, <2>5, <3>1
      <3>3. output \in Seq(Attempts)
        BY <1>4
      <3>4. /\ g \in Frames /\ g.todo = h.todo /\ g.split = h.split
            /\ g.file = h.file \o output
        BY <3>2, <3>3, FilledFrame
      <3>5. QED
        BY <3>1, <3>4
    <2>12. Completes(g.file \o g.todo, g.split)
      BY <2>10, <2>11
    <2>13. Linked(stack') /\ Root(stack', attempt') = Root(t, a) /\ stack'[1] = g
      <3>1. t \in Seq(Frames) /\ t # <<>> /\ attempt' = a
        BY <1>1, <1>2, <2>5
      <3>2. QED
        BY <2>4, <2>6, <2>11, <3>1, TopSwapped
    <2>14. QED
      BY <1>3, <1>5, <2>3, <2>7, <2>12, <2>13 DEF CInv
  <1>9. QED
    BY <1>7, <1>8

\* Fail keeps what completes what.
LEMMA FailKeepsComplete ==
    ASSUME TInv, NEW main, Fail(main), Len(main) <= 1, \A i \in DOMAIN main : ~main[i].whole
    PROVE  CInv'
  BY DEF Fail, CInv

\* AttemptAppendFails keeps what completes what.
LEMMA AttemptAppendFailsKeepsComplete == ASSUME TInv, AttemptAppendFails PROVE CInv'
  <1>1. phase = "trying" /\ staging = <<>> /\ phase' = "failed" /\ <<Written>> \in Seq(Attempts)
    BY WrittenFacts DEF TInv, Pending, AttemptAppendFails
  <1>2. PICK t : t = Torn(<<Written>>)
    OBVIOUS
  <1>3. staging' = IF stack = <<>> THEN Append(staging, t) ELSE staging
    BY <1>2 DEF AttemptAppendFails
  <1>4. t \in Appends /\ t.whole = FALSE
    BY <1>1, <1>2, OutputTypes
  <1>5. Len(staging') <= 1 /\ \A i \in DOMAIN staging' : ~staging'[i].whole
    BY <1>1, <1>3, <1>4
  <1>6. QED
    BY <1>1, <1>5 DEF CInv

\* SplitAppendFails keeps what completes what.
LEMMA SplitAppendFailsKeepsComplete == ASSUME TInv, SplitAppendFails PROVE CInv'
  <1>1. stack # <<>> /\ staging = <<>>
    BY DEF TInv, SplitAppendFails
  <1>2. PICK t, m : /\ t = Torn(stack[1].file)
                    /\ m = IF Len(stack) = 1 THEN Append(staging, t) ELSE staging
    OBVIOUS
  <1>3. t \in Appends /\ t.whole = FALSE
    BY <1>1, <1>2, FrameFacts, OutputTypes
  <1>4. Len(m) <= 1 /\ \A i \in DOMAIN m : ~m[i].whole
    BY <1>1, <1>2, <1>3
  <1>5. Fail(m)
    BY <1>2 DEF SplitAppendFails
  <1>6. QED
    BY <1>4, <1>5, FailKeepsComplete

\* Another attempt at the same window keeps its place.
LEMMA RetryKeepsComplete ==
    ASSUME TInv, CInv, phase = "trying", phase' = phase, config' = config, stack' = stack,
           staging' = staging, attempt' \in Attempts, SameSpan(attempt', attempt)
    PROVE  CInv'
  <1>1. PICK s, a, b, r : /\ s = stack /\ a = attempt /\ b = attempt'
                          /\ r = FirstAttempt(config)
    OBVIOUS
  <1>2. FirstAttempt(config)' = r /\ a \in Attempts /\ b \in Attempts /\ SameSpan(b, a)
    BY <1>1 DEF FirstAttempt, TInv, Pending
  <1>3. Linked(s) /\ SameSpan(Root(s, a), r)
    BY <1>1 DEF CInv
  <1>4. SameSpan(Root(s, b), r)
    BY <1>2, <1>3 DEF Root, SameSpan
  <1>5. ASSUME s # <<>> PROVE FrameDone(s[1], b)
    <2>1. PICK f : f = s[1]
      OBVIOUS
    <2>2. f.file \in Seq(Attempts) /\ f.todo \in Seq(Attempts)
      BY <1>1, <1>5, <2>1, FrameFacts
    <2>3. Completes(f.file \o <<a>> \o f.todo, f.split)
      BY <1>1, <1>5, <2>1 DEF CInv, FrameDone
    <2>4. Completes(<<b>>, a) /\ <<b>> \in Seq(Attempts)
      BY <1>2, CompletesSelf
    <2>5. PICK B : B = <<b>>
      OBVIOUS
    <2>6. Completes(f.file \o B \o f.todo, f.split)
      BY <1>2, <2>2, <2>3, <2>4, <2>5, CompletesReplaced
    <2>7. QED
      BY <2>1, <2>5, <2>6 DEF FrameDone
  <1>6. QED
    BY <1>1, <1>2, <1>3, <1>4, <1>5 DEF CInv

\* The attempt that is split hands its place over to its sub-attempts.
LEMMA SplitKeepsComplete ==
    ASSUME TInv, CInv, phase = "trying", NEW children \in Seq(Attempts), children # <<>>,
           Completes(children, attempt), Split(children)
    PROVE  CInv'
  <1>1. /\ config' = config /\ staging' = staging /\ phase' = phase
        /\ attempt' = Head(children) /\ attempt \in Attempts
    BY DEF Split, TInv, Pending
  <1>2. PICK s, f, a, c, r : /\ s = stack /\ a = attempt /\ c = Head(children)
                             /\ r = FirstAttempt(config)
                             /\ f = [split |-> a, todo |-> Tail(children), file |-> <<>>]
    OBVIOUS
  <1>3. FirstAttempt(config)' = r
    BY <1>1, <1>2 DEF FirstAttempt
  <1>4. s \in Seq(Frames) /\ Linked(s) /\ SameSpan(Root(s, a), r)
    BY <1>2 DEF TInv, CInv
  <1>5. stack' = <<f>> \o s
    BY <1>2 DEF Split
  <1>6. /\ c \in Attempts /\ Tail(children) \in Seq(Attempts)
        /\ children = <<c>> \o Tail(children)
    BY <1>2, HeadTailProperties
  <1>7. f \in Frames /\ f.todo = Tail(children) /\ f.file = <<>> /\ f.split = a
    BY <1>1, <1>2, <1>6 DEF Frames
  <1>8. FrameDone(f, c)
    <2>1. PICK y : y = <<c>>
      OBVIOUS
    <2>2. y \in Seq(Attempts)
      BY <1>6, <2>1
    <2>3. <<>> \o y = y
      BY <2>2, ConcatEmptySeq
    <2>4. f.file \o <<c>> \o f.todo = children
      BY <1>6, <1>7, <2>1, <2>3
    <2>5. QED
      BY <1>2, <1>7, <2>4 DEF FrameDone
  <1>9. PICK t : t = stack'
    OBVIOUS
  <1>10. /\ t \in Seq(Frames) /\ Len(t) = Len(s) + 1 /\ Len(s) \in Nat /\ DOMAIN s = 1..Len(s)
         /\ t[1] = f /\ t # <<>> /\ DOMAIN t = 1..Len(t)
         /\ \A n \in 1..Len(s) : t[n + 1] = s[n]
    <2>1. PICK F : F = <<f>>
      OBVIOUS
    <2>2. F \in Seq(Frames) /\ Len(F) = 1 /\ F[1] = f /\ t = F \o s
      BY <1>5, <1>7, <1>9, <2>1
    <2>3. /\ t \in Seq(Frames) /\ Len(t) = Len(s) + 1
          /\ \A n \in 1..Len(s) + 1 : t[n] = IF n <= 1 THEN F[n] ELSE s[n - 1]
      <3>1. s \in Seq(Frames) /\ Len(s) \in Nat
        BY <1>4
      <3>2. /\ F \o s \in Seq(Frames) /\ Len(F \o s) = Len(F) + Len(s)
            /\ \A n \in 1..(Len(F) + Len(s)) :
                 (F \o s)[n] = IF n <= Len(F) THEN F[n] ELSE s[n - Len(F)]
        BY <2>2, <3>1, ConcatProperties
      <3>3. QED
        BY ONLY <2>2, <3>1, <3>2
    <2>4. Len(s) \in Nat /\ DOMAIN s = 1..Len(s)
      BY <1>4
    <2>5. \A n \in 1..Len(s) : t[n + 1] = s[n]
      <3>1. ASSUME NEW n \in 1..Len(s) PROVE t[n + 1] = s[n]
        <4>1. n + 1 \in 1..Len(s) + 1 /\ ~(n + 1 <= 1) /\ (n + 1) - 1 = n
          BY <2>4
        <4>2. QED
          BY <2>3, <4>1
      <3>2. QED
        BY <3>1
    <2>6. t[1] = f
      BY <2>2, <2>3, <2>4
    <2>7. QED
      BY <2>3, <2>4, <2>5, <2>6
  <1>11. Linked(t)
    <2>1. ASSUME NEW n \in DOMAIN t, n > 1 PROVE FrameDone(t[n], t[n - 1].split)
      <3>1. PICK k : k = n - 1
        OBVIOUS
      <3>2. k \in 1..Len(s) /\ k + 1 = n /\ k \in DOMAIN s
        BY <1>10, <2>1, <3>1
      <3>3. t[n] = s[k]
        BY <1>10, <3>2
      <3>4. CASE k = 1
        <4>1. FrameDone(s[1], a)
          <5>1. stack # <<>>
            BY <1>2, <3>2
          <5>2. QED
            BY <1>2, <5>1 DEF CInv
        <4>2. t[n - 1] = f
          BY <1>10, <3>1, <3>4
        <4>3. QED
          BY <1>7, <3>3, <3>4, <4>1, <4>2
      <3>5. CASE k > 1
        <4>1. PICK m : m = k - 1
          OBVIOUS
        <4>2. m \in 1..Len(s) /\ m + 1 = k
          BY <1>10, <3>2, <3>5, <4>1
        <4>3. FrameDone(s[k], s[k - 1].split)
          BY <1>4, <3>2, <3>5 DEF Linked
        <4>4. t[n - 1] = s[m]
          BY <1>10, <3>1, <4>2
        <4>5. QED
          BY <3>3, <4>1, <4>3, <4>4
      <3>6. QED
        BY <3>2, <3>4, <3>5
    <2>2. QED
      BY <2>1 DEF Linked
  <1>12. Root(t, c) = Root(s, a)
    <2>1. CASE s = <<>>
      BY <1>7, <1>10, <2>1 DEF Root
    <2>2. CASE s # <<>>
      <3>1. Len(s) \in 1..Len(s)
        BY <1>4, <2>2
      <3>2. t[Len(t)] = s[Len(s)]
        BY <1>10, <3>1
      <3>3. QED
        BY <1>10, <2>2, <3>2 DEF Root
    <2>3. QED
      BY <2>1, <2>2
  <1>13. QED
    BY <1>1, <1>2, <1>3, <1>4, <1>8, <1>9, <1>10, <1>11, <1>12 DEF CInv

\* MissingRoute keeps what completes what.
LEMMA MissingRouteKeepsComplete == ASSUME TInv, CInv, MissingRoute PROVE CInv'
  <1>1. attempt \in Attempts /\ phase = "trying" /\ staging = <<>>
    BY DEF TInv, Pending, MissingRoute
  <1>2. CASE ~attempt.queryRange
    <2>1. Retry([attempt EXCEPT !.queryRange = TRUE, !.depth = attempt.depth + 1])
      BY <1>2 DEF MissingRoute
    <2>2. attempt.depth + 1 \in Nat
      BY <1>1 DEF Attempts
    <2>3. attempt' \in Attempts /\ SameSpan(attempt', attempt)
      BY <1>1, <2>1, <2>2 DEF Retry, Attempts, SameSpan
    <2>4. QED
      BY <1>1, <2>1, <2>3, RetryKeepsComplete DEF Retry
  <1>3. CASE Fail(staging)
    BY <1>1, <1>3, FailKeepsComplete
  <1>4. QED
    BY <1>2, <1>3 DEF MissingRoute

\* TooManySeries keeps what completes what.
LEMMA TooManySeriesKeepsComplete == ASSUME TInv, CInv, TooManySeries PROVE CInv'
  <1>1. phase = "trying" /\ staging = <<>>
    BY DEF TInv, TooManySeries
  <1>2. CASE Fail(staging)
    BY <1>1, <1>2, FailKeepsComplete
  <1>3. CASE MaySplit /\ Len(attempt.jobs) > 1 /\ Split(JobChildren)
    <2>1. attempt.jobs # <<>>
      BY <1>3
    <2>2. JobChildren \in Seq(Attempts) /\ JobChildren # <<>>
      BY <1>3, <2>1, JobChildrenFacts
    <2>3. Completes(JobChildren, attempt)
      BY <1>3, <2>1, JobChildrenComplete
    <2>4. QED
      BY <1>1, <1>3, <2>2, <2>3, SplitKeepsComplete
  <1>4. QED
    BY <1>2, <1>3 DEF TooManySeries, JobChildren

\* QueryTimeout keeps what completes what.
LEMMA QueryTimeoutKeepsComplete == ASSUME TInv, CInv, QueryTimeout PROVE CInv'
  <1>1. attempt \in Attempts /\ phase = "trying" /\ staging = <<>>
    BY DEF TInv, Pending, QueryTimeout
  <1>2. CASE Fail(staging)
    BY <1>1, <1>2, FailKeepsComplete
  <1>3. CASE MaySplit /\ SplittableInTime /\ Split(TimeChildren)
    <2>1. TimeChildren \in Seq(Attempts) /\ TimeChildren # <<>>
      <3>1. TimeChildren \in Seq(Attempts) /\ Len(TimeChildren) = 2
        BY <1>3, TimeChildrenFacts
      <3>2. QED
        BY <3>1
    <2>2. Completes(TimeChildren, attempt)
      BY <1>3, TimeChildrenComplete
    <2>3. QED
      BY <1>1, <1>3, <2>1, <2>2, SplitKeepsComplete
  <1>4. CASE /\ LargerSteps # {} /\ config' = config /\ stack' = stack /\ staging' = staging
             /\ phase' = phase
             /\ attempt' = [attempt EXCEPT !.step = NextStep, !.depth = 0]
    <2>1. NextStep \in Nat
      BY <1>4, NextStepFacts
    <2>2. attempt' \in Attempts /\ SameSpan(attempt', attempt)
      BY <1>1, <1>4, <2>1 DEF Attempts, SameSpan
    <2>3. QED
      BY <1>1, <1>4, <2>2, RetryKeepsComplete
  <1>5. QED
    BY <1>2, <1>3, <1>4 DEF QueryTimeout

\* No step breaks CInv.
LEMMA CompleteStep == ASSUME TInv, CInv, [Next]_vars PROVE CInv'
  <1>1. CASE UNCHANGED vars
    <2>1. FirstAttempt(config)' = FirstAttempt(config)
      BY <1>1 DEF vars, FirstAttempt
    <2>2. QED
      BY <1>1, <2>1 DEF vars, CInv
  <1>2. CASE AttemptSucceeds
    BY <1>2, AttemptSucceedsKeepsComplete
  <1>3. CASE AttemptAppendFails
    BY <1>3, AttemptAppendFailsKeepsComplete
  <1>4. CASE NextChild
    BY <1>4, NextChildKeepsComplete
  <1>5. CASE CloseSplit
    BY <1>5, CloseSplitKeepsComplete
  <1>6. CASE SplitAppendFails
    BY <1>6, SplitAppendFailsKeepsComplete
  <1>7. CASE MissingRoute
    BY <1>7, MissingRouteKeepsComplete
  <1>8. CASE TooManySeries
    BY <1>8, TooManySeriesKeepsComplete
  <1>9. CASE QueryTimeout
    BY <1>9, QueryTimeoutKeepsComplete
  <1>10. CASE OtherError
    <2>1. staging = <<>> /\ Fail(staging)
      BY <1>10 DEF OtherError, TInv
    <2>2. QED
      BY <2>1, FailKeepsComplete
  <1>11. QED
    BY <1>1, <1>2, <1>3, <1>4, <1>5, <1>6, <1>7, <1>8, <1>9, <1>10 DEF Next

\* runSplitAttemptsAtomically: the main staging file gets a window once and
\* whole, every selected job without a gap or an overlap, whatever way the
\* attempts were split, sent another way, retried with a larger step and put
\* together; of a window that fails it gets a part of one append at most.
THEOREM WindowAlwaysAtomic == Spec => []WindowIsAtomic
  <1>1. ASSUME TInv, CInv PROVE WindowIsAtomic
    <2>1. phase \in {"trying", "settling"} => staging = <<>>
      BY <1>1 DEF TInv
    <2>2. ASSUME phase = "ok", NEW i \in DOMAIN config.jobs
          PROVE  Tiles(staging[1].output, config.jobs[i], Start, End)
      <3>1. PICK r, j : r = FirstAttempt(config) /\ j = config.jobs[i]
        OBVIOUS
      <3>2. r.jobs = config.jobs /\ r.from = Start /\ r.to = End
        BY <3>1 DEF FirstAttempt
      <3>3. j \in Job /\ Covers(r, j)
        BY <1>1, <2>2, <3>1, <3>2, ConfigFacts DEF Covers
      <3>4. Completes(staging[1].output, r)
        BY <1>1, <2>2, <3>1 DEF CInv
      <3>5. QED
        BY <3>1, <3>2, <3>3, <3>4 DEF Completes
    <2>3. QED
      BY <1>1, <2>1, <2>2 DEF CInv, WindowIsAtomic
  <1>2. Init => TInv /\ CInv
    BY TypeInit, CompleteInit
  <1>3. TInv /\ CInv /\ [Next]_vars => (TInv /\ CInv)'
    BY TypeStep, CompleteStep
  <1>4. QED
    BY <1>1, <1>2, <1>3, PTL DEF Spec

----------------------------------------------------------------------------
(* That a window comes to an end, as far as it is no matter of fairness:   *)
(* the number of steps that may remain goes down with every step.  Coarser *)
(* steps start again at depth 0, and splits multiply attempts; but an      *)
(* attempt is always followed by ones of a lower rank.                     *)

\* How often an attempt may still be followed by others, at most.
Rank(a, c) ==
    Cardinality({s \in c.ladder : s > a.step}) * (2 * c.maxDepth + 4)
      + 2 * (c.maxDepth + 1 - a.depth) + (IF a.queryRange THEN 0 ELSE 1)

\* No split has more sub-attempts.
Fanout(c) == Len(c.jobs) + 2

\* The steps that an attempt of a rank less than r may take, at most, where
\* no split has more than m sub-attempts: it splits, and each of them takes
\* the steps of a lower rank, and one to be begun or to end the split.
Grown(m, steps) == m * (steps + 1) + 1

Effort(m, r) ==
    LET effort[k \in 0..r] == IF k = 0 THEN 0 ELSE Grown(m, effort[k - 1])
    IN  effort[r]

\* The steps that a split may still take when the attempt inside it is over.
Load(f, c) == Len(f.todo) * (Effort(Fanout(c), Rank(f.split, c)) + 1) + 1

Loads(s, c) ==
    LET loads[k \in 0..Len(s)] ==
          IF k = 0 THEN 0 ELSE loads[k - 1] + Load(s[Len(s) + 1 - k], c)
    IN  loads[Len(s)]

Steps(p, s, a, c) ==
    IF p \in {"ok", "failed"} THEN 0
    ELSE Loads(s, c) + 1 + (IF p = "trying" THEN Effort(Fanout(c), Rank(a, c) + 1) ELSE 0)

StepsLeft == Steps(phase, stack, attempt, config)

\* An attempt that has a rank, and no more jobs than were selected.
Ranked(a, c) ==
    /\ a \in Attempts
    /\ a.depth <= IF a.queryRange THEN c.maxDepth + 1 ELSE c.maxDepth
    /\ Len(a.jobs) <= Len(c.jobs)

\* What a split still has to do is of a lower rank than what it has split.
FrameRanked(f, c) ==
    /\ Ranked(f.split, c)
    /\ \A i \in DOMAIN f.todo : Ranked(f.todo[i], c) /\ Rank(f.todo[i], c) < Rank(f.split, c)

RankedStack(s, c) == s \in Seq(Frames) /\ \A n \in DOMAIN s : FrameRanked(s[n], c)

RInv == config \in Configs /\ Ranked(attempt, config) /\ RankedStack(stack, config)

\* A rank is a number.
LEMMA RankNat ==
    ASSUME NEW c \in Configs, NEW a, Ranked(a, c)
    PROVE  Rank(a, c) \in Nat
  <1> DEFINE above == {s \in c.ladder : s > a.step}
  <1>1. /\ c.ladder \subseteq Nat /\ IsFiniteSet(c.ladder) /\ c.maxDepth \in Nat
    BY ConfigAssumption DEF ConfigType
  <1>2. /\ a.depth \in Nat /\ a.depth <= c.maxDepth + 1
    BY <1>1 DEF Ranked, Attempts
  <1>3. Cardinality(above) \in Nat
    BY <1>1, FS_Subset, FS_CardinalityType
  <1> HIDE DEF above
  <1>4. Cardinality(above) * (2 * c.maxDepth + 4) \in Nat
    BY <1>1, <1>3, Z3
  <1>5. 2 * (c.maxDepth + 1 - a.depth) \in Nat
    BY <1>1, <1>2
  <1>6. QED
    BY <1>4, <1>5 DEF Rank, above

\* An attempt of the same step that is deeper has a lower rank, and so has
\* one of the same depth that has fallen back.
LEMMA DeeperRank ==
    ASSUME NEW c \in Configs, NEW a, Ranked(a, c), NEW b, Ranked(b, c),
           b.step = a.step, b.depth = a.depth + 1
    PROVE  Rank(b, c) < Rank(a, c)
  <1> PICK x : x = Cardinality({s \in c.ladder : s > a.step}) * (2 * c.maxDepth + 4)
    OBVIOUS
  <1>1. c.maxDepth \in Nat /\ a.depth \in Nat
    BY ConfigAssumption DEF ConfigType, Ranked, Attempts
  <1>2. x \in Int
    <2>1. Rank(a, c) = x + 2 * (c.maxDepth + 1 - a.depth) + (IF a.queryRange THEN 0 ELSE 1)
      BY DEF Rank
    <2>2. IsFiniteSet(c.ladder)
      BY ConfigAssumption DEF ConfigType
    <2>3. Cardinality({s \in c.ladder : s > a.step}) \in Nat
      BY <2>2, FS_Subset, FS_CardinalityType
    <2> PICK n \in Nat : n = Cardinality({s \in c.ladder : s > a.step})
      BY <2>3
    <2>4. x = n * (2 * c.maxDepth + 4)
      OBVIOUS
    <2>5. QED
      BY <1>1, <2>4, Z3
  <1>3. /\ Rank(a, c) = x + 2 * (c.maxDepth + 1 - a.depth) + (IF a.queryRange THEN 0 ELSE 1)
        /\ Rank(b, c) = x + 2 * (c.maxDepth + 1 - (a.depth + 1)) + (IF b.queryRange THEN 0 ELSE 1)
    BY DEF Rank
  <1>4. QED
    BY <1>1, <1>2, <1>3

\* So has an attempt of a larger step of the ladder, whatever its depth.
LEMMA CoarserRank ==
    ASSUME NEW c \in Configs, NEW a, Ranked(a, c), NEW b, Ranked(b, c),
           b.step \in c.ladder, b.step > a.step
    PROVE  Rank(b, c) < Rank(a, c)
  <1> DEFINE Above(t) == {s \in c.ladder : s > t}
  <1>1. /\ c.maxDepth \in Nat /\ c.ladder \subseteq Nat /\ IsFiniteSet(c.ladder)
        /\ a.depth \in Nat /\ b.depth \in Nat /\ a.step \in Nat
        /\ a.depth <= c.maxDepth + 1
    BY ConfigAssumption DEF ConfigType, Ranked, Attempts
  <1>2. a.depth = c.maxDepth + 1 => a.queryRange
    BY <1>1 DEF Ranked
  <1>3. Above(b.step) \subseteq Above(a.step) \ {b.step} /\ b.step \in Above(a.step)
    BY <1>1
  <1>4. IsFiniteSet(Above(a.step))
    BY <1>1, FS_Subset
  <1> PICK x, y : x = Cardinality(Above(a.step)) /\ y = Cardinality(Above(b.step))
    OBVIOUS
  <1>5. x \in Nat /\ y \in Nat /\ y <= x - 1
    <2> HIDE DEF Above
    <2>1. /\ IsFiniteSet(Above(a.step) \ {b.step})
          /\ Cardinality(Above(a.step) \ {b.step}) = x - 1
      BY <1>3, <1>4, FS_RemoveElement
    <2>2. QED
      BY <1>3, <1>4, <2>1, FS_Subset, FS_CardinalityType
  <1> PICK w : w = 2 * c.maxDepth + 4
    OBVIOUS
  <1>6. w \in Nat /\ w > 0
    BY <1>1
  <1>7. x * w \in Int /\ y * w \in Int /\ y * w <= x * w - w
    <2>1. x * w \in Int /\ y * w \in Int /\ (x - 1 - y) * w >= 0
      BY <1>5, <1>6, Z3
    <2>2. (x - 1 - y) * w = x * w - w - y * w
      BY <1>5, <1>6, Z3
    <2>3. QED
      BY <1>6, <2>1, <2>2
  <1>8. /\ Rank(a, c) = x * w + 2 * (c.maxDepth + 1 - a.depth) + (IF a.queryRange THEN 0 ELSE 1)
        /\ Rank(b, c) = y * w + 2 * (c.maxDepth + 1 - b.depth) + (IF b.queryRange THEN 0 ELSE 1)
    BY DEF Rank
  <1> PICK u, v : u = x * w /\ v = y * w
    OBVIOUS
  <1> HIDE DEF Above
  <1>9. u \in Int /\ v \in Int /\ v <= u - w
    BY <1>7
  <1>10. /\ Rank(a, c) = u + 2 * (c.maxDepth + 1 - a.depth) + (IF a.queryRange THEN 0 ELSE 1)
         /\ Rank(b, c) = v + 2 * (c.maxDepth + 1 - b.depth) + (IF b.queryRange THEN 0 ELSE 1)
    BY <1>8
  <1>11. w = 2 * c.maxDepth + 4
    OBVIOUS
  <1>12. QED
    BY ONLY <1>1, <1>6, <1>9, <1>10, <1>11

\* Another rank takes more steps, but no less than a number of them.
LEMMA GrownNat ==
    ASSUME NEW m \in Nat, NEW x \in Nat
    PROVE  Grown(m, x) \in Nat /\ (m # 0 => x < Grown(m, x))
  <1>1. m * (x + 1) + 1 \in Nat /\ (m # 0 => x < m * (x + 1) + 1)
    BY Z3
  <1>2. QED
    BY <1>1 DEF Grown

\* f is a table of the efforts up to rank r.
EffortTable(f, m, r) == f = [k \in 0..r |-> IF k = 0 THEN 0 ELSE Grown(m, f[k - 1])]

\* Efforts are the entries of such a table.
LEMMA EffortSteps ==
    ASSUME NEW m \in Nat, NEW r \in Nat
    PROVE  \E f : /\ f \in [0..r -> Nat] /\ f[0] = 0
                  /\ \A k \in 1..r : f[k] = Grown(m, f[k - 1])
                  /\ Effort(m, r) = f[r]
  <1> DEFINE step == [x \in Nat \X (1..r) |-> Grown(m, x[1])]
  <1>1. \A x \in Nat : Grown(m, x) \in Nat
    BY GrownNat
  <1>2. step \in [Nat \X (1..r) -> Nat] /\ 0 \in Nat
    <2>1. \A x \in Nat \X (1..r) : x[1] \in Nat
      OBVIOUS
    <2>2. \A x \in Nat \X (1..r) : Grown(m, x[1]) \in Nat
      BY <1>1, <2>1
    <2>3. QED
      BY <2>2
  <1>3. \A x \in Nat, k \in 1..r : step[<<x, k>>] = Grown(m, x)
    OBVIOUS
  <1> HIDE DEF step
  <1>4. PICK g \in [0..r -> Nat] : Table(g, 0, step, r)
    BY <1>2, Recursion
  <1>5. EffortTable(g, m, r)
    <2>1. \A k \in 0..r : k # 0 => k \in 1..r /\ k - 1 \in 0..r
      OBVIOUS
    <2>2. \A k \in 0..r : g[k] = IF k = 0 THEN 0 ELSE Grown(m, g[k - 1])
      BY <1>3, <1>4, <2>1 DEF Table
    <2>3. g = [k \in 0..r |-> g[k]]
      OBVIOUS
    <2>4. QED
      BY <2>2, <2>3 DEF EffortTable
  <1>6. Effort(m, r) = (CHOOSE f : EffortTable(f, m, r))[r]
    BY DEF Effort, EffortTable
  <1>7. PICK f : EffortTable(f, m, r) /\ Effort(m, r) = f[r]
    BY <1>5, <1>6
  <1>8. \A k \in 0..r : f[k] = IF k = 0 THEN 0 ELSE Grown(m, f[k - 1])
    BY <1>7 DEF EffortTable
  <1> DEFINE G == {k \in 0..r : f[k] \in Nat}
  <1>9. 0 \in G
    BY <1>8
  <1>10. ASSUME NEW k \in 1..r, k - 1 \in G
         PROVE  k \in G
    <2>1. k \in 0..r /\ f[k - 1] \in Nat /\ f[k] = Grown(m, f[k - 1])
      BY <1>8, <1>10
    <2>2. f[k] \in Nat
      BY <1>1, <2>1
    <2>3. QED
      BY <2>1, <2>2
  <1>11. \A k \in 0..r : k \in G
    <2> HIDE DEF G
    <2>1. QED
      BY <1>9, <1>10, Upward
  <1>12. f \in [0..r -> Nat]
    <2>1. f = [k \in 0..r |-> f[k]]
      BY <1>7 DEF EffortTable
    <2>2. QED
      BY <1>11, <2>1
  <1>13. f[0] = 0 /\ \A k \in 1..r : f[k] = Grown(m, f[k - 1])
    BY <1>8
  <1>14. QED
    BY <1>7, <1>12, <1>13

\* The effort of a rank.
LEMMA EffortFacts ==
    ASSUME NEW m \in Nat, NEW r \in Nat
    PROVE  /\ Effort(m, r) \in Nat
           /\ Effort(m, r + 1) = Grown(m, Effort(m, r))
  <1>1. PICK f : /\ f \in [0..r -> Nat] /\ f[0] = 0
                 /\ \A k \in 1..r : f[k] = Grown(m, f[k - 1])
                 /\ Effort(m, r) = f[r]
    BY EffortSteps
  <1>2. PICK g : /\ g \in [0..r + 1 -> Nat] /\ g[0] = 0
                 /\ \A k \in 1..r + 1 : g[k] = Grown(m, g[k - 1])
                 /\ Effort(m, r + 1) = g[r + 1]
    <2>1. r + 1 \in Nat
      OBVIOUS
    <2>2. QED
      BY <2>1, EffortSteps, Zenon
  <1> DEFINE G == {k \in 0..r : f[k] = g[k]}
  <1>3. 0 \in G
    BY <1>1, <1>2
  <1>4. ASSUME NEW k \in 1..r, k - 1 \in G
        PROVE  k \in G
    BY <1>1, <1>2, <1>4
  <1>5. r \in G
    <2> HIDE DEF G
    <2>1. \A k \in 0..r : k \in G
      BY <1>3, <1>4, Upward
    <2>2. QED
      BY <2>1
  <1>6. f[r] = g[r] /\ f[r] \in Nat
    BY <1>1, <1>5
  <1>7. g[r + 1] = Grown(m, g[(r + 1) - 1]) /\ (r + 1) - 1 = r
    BY <1>2
  <1>8. QED
    BY <1>1, <1>2, <1>6, <1>7

\* A lower rank takes no more effort.
LEMMA EffortMonotonic ==
    ASSUME NEW m \in Nat \ {0}, NEW q \in Nat, NEW r \in Nat, q <= r
    PROVE  Effort(m, q) <= Effort(m, r)
  <1> DEFINE G == {k \in 0..r - q : Effort(m, q) <= Effort(m, q + k)}
  <1>1. r - q \in Nat
    OBVIOUS
  <1>2. 0 \in G
    BY <1>1, EffortFacts
  <1>3. ASSUME NEW k \in 1..r - q, k - 1 \in G
        PROVE  k \in G
    <2> PICK p : p = q + (k - 1)
      OBVIOUS
    <2>1. p \in Nat /\ q + k = p + 1 /\ k \in 0..r - q
      OBVIOUS
    <2>2. Effort(m, q) <= Effort(m, p)
      BY <1>3
    <2>3. /\ Effort(m, p) \in Nat /\ Effort(m, q) \in Nat
          /\ Effort(m, p + 1) = Grown(m, Effort(m, p))
      BY <2>1, EffortFacts
    <2>4. Effort(m, p) < Effort(m, p + 1) /\ Effort(m, p + 1) \in Nat
      BY <2>3, GrownNat
    <2>5. Effort(m, q) <= Effort(m, p + 1)
      BY <2>2, <2>3, <2>4
    <2>6. QED
      BY <2>1, <2>5
  <1>4. r - q \in G
    <2> HIDE DEF G
    <2>1. \A k \in 0..r - q : k \in G
      BY <1>1, <1>2, <1>3, Upward
    <2>2. QED
      BY <1>1, <2>1
  <1>5. q + (r - q) = r
    OBVIOUS
  <1>6. QED
    BY <1>4, <1>5

----------------------------------------------------------------------------
\* What a split has still to do is a number.
LEMMA LoadNat ==
    ASSUME NEW c \in Configs, NEW f \in Frames, FrameRanked(f, c)
    PROVE  Load(f, c) \in Nat \ {0}
  <1>1. Fanout(c) \in Nat /\ Len(f.todo) \in Nat
    BY ConfigAssumption DEF ConfigType, Fanout, Frames
  <1>2. Rank(f.split, c) \in Nat
    BY RankNat DEF FrameRanked
  <1>3. Effort(Fanout(c), Rank(f.split, c)) \in Nat
    BY <1>1, <1>2, EffortFacts
  <1>4. \A n, e \in Nat : n * (e + 1) + 1 \in Nat \ {0}
    BY Z3
  <1>5. QED
    BY <1>1, <1>3, <1>4 DEF Load

\* f is a table of what the outermost splits have still to do.
LoadTable(f, s, c) ==
    f = [k \in 0..Len(s) |-> IF k = 0 THEN 0 ELSE f[k - 1] + Load(s[Len(s) + 1 - k], c)]

\* Loads is the last entry of such a table.
LEMMA LoadSteps ==
    ASSUME NEW c \in Configs, NEW s, RankedStack(s, c)
    PROVE  \E f : /\ f \in [0..Len(s) -> Nat] /\ f[0] = 0
                  /\ \A k \in 1..Len(s) : f[k] = f[k - 1] + Load(s[Len(s) + 1 - k], c)
                  /\ Loads(s, c) = f[Len(s)]
  <1> DEFINE n == Len(s)
             step == [x \in Nat \X (1..n) |-> x[1] + Load(s[n + 1 - x[2]], c)]
  <1>1. /\ n \in Nat /\ DOMAIN s = 1..n
        /\ \A k \in 1..n : n + 1 - k \in 1..n /\ Load(s[n + 1 - k], c) \in Nat
    <2>1. s \in Seq(Frames)
      BY DEF RankedStack
    <2>2. n \in Nat /\ DOMAIN s = 1..n /\ \A k \in 1..n : s[k] \in Frames
      BY <2>1
    <2>3. \A k \in 1..n : n + 1 - k \in 1..n
      BY <2>2
    <2>4. \A k \in 1..n : Load(s[k], c) \in Nat
      BY <2>2, LoadNat DEF RankedStack
    <2>5. QED
      BY <2>2, <2>3, <2>4
  <1>2. step \in [Nat \X (1..n) -> Nat] /\ 0 \in Nat
    <2>1. \A x \in Nat \X (1..n) : x[1] \in Nat /\ Load(s[n + 1 - x[2]], c) \in Nat
      BY <1>1
    <2>2. \A x \in Nat \X (1..n) : x[1] + Load(s[n + 1 - x[2]], c) \in Nat
      BY <2>1
    <2>3. QED
      BY <2>2
  <1>3. \A x \in Nat, k \in 1..n : step[<<x, k>>] = x + Load(s[n + 1 - k], c)
    OBVIOUS
  <1> HIDE DEF step
  <1>4. PICK g \in [0..n -> Nat] : Table(g, 0, step, n)
    BY <1>1, <1>2, Recursion
  <1>5. LoadTable(g, s, c)
    <2>1. \A k \in 0..n : k # 0 => k \in 1..n /\ k - 1 \in 0..n
      BY <1>1
    <2>2. \A k \in 0..n : g[k] = IF k = 0 THEN 0 ELSE g[k - 1] + Load(s[n + 1 - k], c)
      BY <1>3, <1>4, <2>1 DEF Table
    <2>3. g = [k \in 0..n |-> g[k]]
      OBVIOUS
    <2>4. QED
      BY <2>2, <2>3 DEF LoadTable
  <1>6. Loads(s, c) = (CHOOSE f : LoadTable(f, s, c))[n]
    BY DEF Loads, LoadTable
  <1>7. PICK f : LoadTable(f, s, c) /\ Loads(s, c) = f[n]
    BY <1>5, <1>6
  <1>8. \A k \in 0..n : f[k] = IF k = 0 THEN 0 ELSE f[k - 1] + Load(s[n + 1 - k], c)
    BY <1>7 DEF LoadTable
  <1> DEFINE G == {k \in 0..n : f[k] \in Nat}
  <1>9. 0 \in G
    BY <1>1, <1>8
  <1>10. ASSUME NEW k \in 1..n, k - 1 \in G
         PROVE  k \in G
    <2>1. /\ k \in 0..n /\ f[k - 1] \in Nat /\ Load(s[n + 1 - k], c) \in Nat
          /\ f[k] = f[k - 1] + Load(s[n + 1 - k], c)
      BY <1>1, <1>8, <1>10
    <2>2. f[k] \in Nat
      BY <2>1
    <2>3. QED
      BY <2>1, <2>2
  <1>11. \A k \in 0..n : k \in G
    <2> HIDE DEF G
    <2>1. QED
      BY <1>1, <1>9, <1>10, Upward
  <1>12. f \in [0..n -> Nat]
    <2>1. f = [k \in 0..n |-> f[k]]
      BY <1>7 DEF LoadTable
    <2>2. QED
      BY <1>11, <2>1
  <1>13. /\ f[0] = 0
         /\ \A k \in 1..n : f[k] = f[k - 1] + Load(s[n + 1 - k], c)
    BY <1>1, <1>8
  <1>14. QED
    BY <1>7, <1>12, <1>13

\* The load of a stack is that of its first frame and of the others.
LEMMA LoadsFacts ==
    ASSUME NEW c \in Configs, NEW s, RankedStack(s, c), NEW t, RankedStack(t, c),
           Len(s) = Len(t) + 1, \A n \in 1..Len(t) : s[n + 1] = t[n]
    PROVE  /\ Loads(s, c) = Load(s[1], c) + Loads(t, c)
           /\ Loads(t, c) \in Nat /\ Load(s[1], c) \in Nat \ {0}
  <1> DEFINE m == Len(t)
  <1>1. m \in Nat /\ DOMAIN s = 1..m + 1 /\ DOMAIN t = 1..m /\ s \in Seq(Frames)
    BY DEF RankedStack
  <1>2. PICK f : /\ f \in [0..Len(s) -> Nat] /\ f[0] = 0
                 /\ \A k \in 1..Len(s) : f[k] = f[k - 1] + Load(s[Len(s) + 1 - k], c)
                 /\ Loads(s, c) = f[Len(s)]
    BY LoadSteps
  <1>3. PICK g : /\ g \in [0..m -> Nat] /\ g[0] = 0
                 /\ \A k \in 1..m : g[k] = g[k - 1] + Load(t[m + 1 - k], c)
                 /\ Loads(t, c) = g[m]
    BY LoadSteps
  <1>4. \A k \in 1..m : s[Len(s) + 1 - k] = t[m + 1 - k]
    <2>1. \A k \in 1..m : m + 1 - k \in 1..m /\ (m + 1 - k) + 1 = (m + 1) + 1 - k
      BY <1>1
    <2>2. QED
      BY <2>1
  <1> DEFINE G == {k \in 0..m : f[k] = g[k]}
  <1>5. 0 \in G
    BY <1>1, <1>2, <1>3
  <1>6. ASSUME NEW k \in 1..m, k - 1 \in G
        PROVE  k \in G
    <2>1. k \in 0..m /\ k \in 1..Len(s) /\ f[k - 1] = g[k - 1]
      BY <1>1, <1>6
    <2>2. f[k] = f[k - 1] + Load(t[m + 1 - k], c)
      BY <1>2, <1>4, <2>1
    <2>3. g[k] = g[k - 1] + Load(t[m + 1 - k], c)
      BY <1>3
    <2>4. QED
      BY <2>1, <2>2, <2>3
  <1>7. f[m] = g[m] /\ g[m] \in Nat
    <2>1. \A k \in 0..m : k \in G
      <3> HIDE DEF G
      <3>1. QED
        BY <1>1, <1>5, <1>6, Upward
    <2>2. QED
      BY <1>1, <1>3, <2>1
  <1>8. f[m + 1] = f[m] + Load(s[1], c)
    <2>1. /\ m + 1 \in 1..Len(s) /\ (m + 1) - 1 = m
          /\ (m + 1) + 1 - (m + 1) = 1
      BY <1>1
    <2>2. QED
      BY <1>2, <2>1
  <1>9. Load(s[1], c) \in Nat \ {0}
    <2>1. 1 \in DOMAIN s /\ s[1] \in Frames
      BY <1>1
    <2>2. QED
      BY <2>1, LoadNat DEF RankedStack
  <1>10. QED
    BY <1>1, <1>2, <1>3, <1>7, <1>8, <1>9

\* The load of a stack is a number.
LEMMA LoadsNat ==
    ASSUME NEW c \in Configs, NEW s, RankedStack(s, c)
    PROVE  Loads(s, c) \in Nat
  <1>1. PICK f : /\ f \in [0..Len(s) -> Nat] /\ Loads(s, c) = f[Len(s)]
    BY LoadSteps
  <1>2. s \in Seq(Frames)
    BY DEF RankedStack
  <1>3. QED
    BY <1>1, <1>2

----------------------------------------------------------------------------
\* A rank depends on the step, the depth and the kind of an attempt only; a
\* load on what a split has to do.
LEMMA SameLoad ==
    ASSUME NEW c, NEW f, NEW g, g.todo = f.todo, g.split = f.split
    PROVE  Load(g, c) = Load(f, c) /\ (FrameRanked(f, c) => FrameRanked(g, c))
  BY DEF Load, FrameRanked

\* The load of a stack with another frame in the place of its first.
LEMMA TopLoads ==
    ASSUME NEW c \in Configs, NEW s, RankedStack(s, c), s # <<>>,
           NEW f \in Frames, FrameRanked(f, c), NEW t, t = WithTop(s, f)
    PROVE  /\ RankedStack(t, c) /\ RankedStack(Tail(s), c)
           /\ Loads(s, c) = Load(s[1], c) + Loads(Tail(s), c)
           /\ Loads(t, c) = Load(f, c) + Loads(Tail(s), c)
           /\ Loads(Tail(s), c) \in Nat /\ Load(s[1], c) \in Nat \ {0}
           /\ Load(f, c) \in Nat \ {0}
  <1>1. s \in Seq(Frames) /\ Len(s) \in Nat \ {0} /\ DOMAIN s = 1..Len(s)
    <2>1. s \in Seq(Frames)
      BY DEF RankedStack
    <2>2. QED
      BY <2>1
  <1>2. /\ t \in Seq(Frames) /\ Len(t) = Len(s) /\ t[1] = f
        /\ DOMAIN t = 1..Len(s) /\ \A n \in 2..Len(s) : t[n] = s[n]
    BY <1>1 DEF WithTop
  <1>3. /\ Tail(s) \in Seq(Frames) /\ Len(Tail(s)) = Len(s) - 1
        /\ \A n \in 1..Len(s) - 1 : Tail(s)[n] = s[n + 1]
    BY <1>1, HeadTailProperties
  <1>4. RankedStack(t, c)
    <2>1. \A n \in DOMAIN t : n = 1 \/ (n \in 2..Len(s) /\ n \in DOMAIN s)
      BY <1>1, <1>2
    <2>2. QED
      BY <1>2, <2>1 DEF RankedStack
  <1> PICK u : u = Tail(s)
    OBVIOUS
  <1>5. RankedStack(u, c) /\ Len(u) = Len(s) - 1
    <2>1. DOMAIN u = 1..Len(s) - 1 /\ \A n \in 1..Len(s) - 1 : u[n] = s[n + 1] /\ n + 1 \in DOMAIN s
      BY <1>1, <1>3
    <2>2. QED
      BY <1>3, <2>1 DEF RankedStack
  <1>6. /\ Len(s) = Len(u) + 1 /\ Len(t) = Len(u) + 1
        /\ \A n \in 1..Len(u) : s[n + 1] = u[n] /\ t[n + 1] = u[n]
    <2>1. Len(s) = Len(u) + 1 /\ Len(t) = Len(u) + 1
      BY <1>1, <1>2, <1>5
    <2>2. ASSUME NEW n \in 1..Len(u) PROVE s[n + 1] = u[n] /\ t[n + 1] = u[n]
      <3>1. n \in 1..Len(s) - 1 /\ n + 1 \in 2..Len(s)
        BY <1>1, <1>5
      <3>2. QED
        BY <1>2, <1>3, <3>1
    <2>3. QED
      BY <2>1, <2>2
  <1>7. /\ Loads(s, c) = Load(s[1], c) + Loads(u, c)
        /\ Loads(u, c) \in Nat /\ Load(s[1], c) \in Nat \ {0}
    BY <1>5, <1>6, LoadsFacts
  <1>8. Loads(t, c) = Load(t[1], c) + Loads(u, c) /\ Load(t[1], c) \in Nat \ {0}
    BY <1>4, <1>5, <1>6, LoadsFacts
  <1>9. QED
    BY <1>2, <1>4, <1>5, <1>7, <1>8

\* What the bound is made of, of a window that is not over.
LEMMA StepsFacts ==
    ASSUME NEW c \in Configs, NEW s, RankedStack(s, c), NEW a, Ranked(a, c),
           NEW m, m = Fanout(c), NEW r, r = Rank(a, c)
    PROVE  /\ m \in Nat \ {0} /\ r \in Nat /\ Loads(s, c) \in Nat
           /\ Effort(m, r) \in Nat /\ Effort(m, r + 1) \in Nat
           /\ Effort(m, r + 1) = Grown(m, Effort(m, r))
           /\ Effort(m, r) < Effort(m, r + 1)
           /\ Steps("trying", s, a, c) = Loads(s, c) + 1 + Effort(m, r + 1)
           /\ Steps("settling", s, a, c) = Loads(s, c) + 1
           /\ Steps("ok", s, a, c) = 0 /\ Steps("failed", s, a, c) = 0
  <1>1. m \in Nat \ {0}
    <2>1. Len(c.jobs) \in Nat
      BY ConfigAssumption DEF ConfigType
    <2>2. QED
      BY <2>1 DEF Fanout
  <1>2. r \in Nat
    BY RankNat
  <1>3. Loads(s, c) \in Nat
    BY LoadsNat
  <1>4. Effort(m, r) \in Nat /\ Effort(m, r + 1) = Grown(m, Effort(m, r))
    BY <1>1, <1>2, EffortFacts
  <1>5. Effort(m, r + 1) \in Nat /\ Effort(m, r) < Effort(m, r + 1)
    <2> PICK e : e = Effort(m, r)
      OBVIOUS
    <2>1. e \in Nat /\ m \in Nat /\ m # 0
      BY <1>1, <1>4
    <2>2. Grown(m, e) \in Nat /\ e < Grown(m, e)
      BY <2>1, GrownNat
    <2>3. QED
      BY <1>4, <2>2
  <1>6. /\ Steps("trying", s, a, c) = Loads(s, c) + 1 + Effort(m, r + 1)
        /\ Steps("settling", s, a, c) = Loads(s, c) + 1 + 0
        /\ Steps("ok", s, a, c) = 0 /\ Steps("failed", s, a, c) = 0
    BY DEF Steps
  <1>7. QED
    BY <1>1, <1>2, <1>3, <1>4, <1>5, <1>6

\* Another attempt at the same window, of a lower rank.
LEMMA FewerByRetry ==
    ASSUME NEW c \in Configs, NEW s, RankedStack(s, c), NEW a, Ranked(a, c),
           NEW b, Ranked(b, c), Rank(b, c) < Rank(a, c)
    PROVE  Steps("trying", s, b, c) < Steps("trying", s, a, c)
  <1> PICK m, r, q, l : m = Fanout(c) /\ r = Rank(a, c) /\ q = Rank(b, c) /\ l = Loads(s, c)
    OBVIOUS
  <1>1. /\ m \in Nat \ {0} /\ r \in Nat /\ l \in Nat
        /\ Effort(m, r) \in Nat /\ Effort(m, r + 1) \in Nat
        /\ Effort(m, r) < Effort(m, r + 1)
        /\ Steps("trying", s, a, c) = l + 1 + Effort(m, r + 1)
    BY StepsFacts
  <1>2. /\ q \in Nat /\ Effort(m, q + 1) \in Nat
        /\ Steps("trying", s, b, c) = l + 1 + Effort(m, q + 1)
    BY StepsFacts
  <1>3. Effort(m, q + 1) <= Effort(m, r)
    <2>1. q + 1 \in Nat /\ q + 1 <= r
      BY <1>1, <1>2
    <2>2. QED
      BY <1>1, <2>1, EffortMonotonic
  <1> PICK x, y, z : x = Effort(m, q + 1) /\ y = Effort(m, r) /\ z = Effort(m, r + 1)
    OBVIOUS
  <1>4. {x, y, z, l} \subseteq Nat /\ x <= y /\ y < z
    BY <1>1, <1>2, <1>3
  <1>5. Steps("trying", s, b, c) = l + 1 + x /\ Steps("trying", s, a, c) = l + 1 + z
    BY <1>1, <1>2
  <1>6. QED
    BY ONLY <1>4, <1>5

\* What a sub-attempt takes, and to begin it, is in the load of its split.
LEMMA SubAttempt ==
    ASSUME NEW c \in Configs, NEW a, Ranked(a, c), NEW b, Ranked(b, c),
           Rank(b, c) < Rank(a, c),
           NEW m, m = Fanout(c)
    PROVE  Effort(m, Rank(b, c) + 1) \in Nat /\ Effort(m, Rank(a, c)) \in Nat
           /\ Effort(m, Rank(b, c) + 1) <= Effort(m, Rank(a, c))
  <1> PICK q, r : q = Rank(b, c) /\ r = Rank(a, c)
    OBVIOUS
  <1>1. m \in Nat \ {0}
    <2>1. Len(c.jobs) \in Nat
      BY ConfigAssumption DEF ConfigType
    <2>2. QED
      BY <2>1 DEF Fanout
  <1>2. q \in Nat /\ r \in Nat
    BY RankNat
  <1>3. q + 1 \in Nat /\ q + 1 <= r
    BY <1>2
  <1>4. QED
    BY <1>1, <1>2, <1>3, EffortMonotonic, EffortFacts

\* The attempt inside a split is over: the split gets its output.
LEMMA FewerBySettling ==
    ASSUME NEW c \in Configs, NEW s, RankedStack(s, c), s # <<>>,
           NEW a, Ranked(a, c), NEW f \in Frames,
           f.todo = s[1].todo, f.split = s[1].split,
           NEW t, t = WithTop(s, f)
    PROVE  RankedStack(t, c) /\ Steps("settling", t, a, c) < Steps("trying", s, a, c)
  <1>1. FrameRanked(s[1], c)
    <2>1. 1 \in DOMAIN s
      <3>1. s \in Seq(Frames)
        BY DEF RankedStack
      <3>2. QED
        BY <3>1
    <2>2. QED
      BY <2>1 DEF RankedStack
  <1>2. Load(f, c) = Load(s[1], c) /\ FrameRanked(f, c)
    BY <1>1, SameLoad
  <1>3. /\ RankedStack(t, c) /\ Loads(t, c) = Loads(s, c)
    <2>1. /\ RankedStack(t, c)
          /\ Loads(s, c) = Load(s[1], c) + Loads(Tail(s), c)
          /\ Loads(t, c) = Load(f, c) + Loads(Tail(s), c)
      BY <1>2, TopLoads
    <2>2. QED
      BY <1>2, <2>1
  <1> PICK l, e : l = Loads(s, c) /\ e = Effort(Fanout(c), Rank(a, c) + 1)
    OBVIOUS
  <1>4. /\ l \in Nat /\ e \in Nat /\ e > 0
        /\ Steps("trying", s, a, c) = l + 1 + e
    <2>1. /\ l \in Nat /\ e \in Nat /\ Effort(Fanout(c), Rank(a, c)) \in Nat
          /\ Effort(Fanout(c), Rank(a, c)) < e
          /\ Steps("trying", s, a, c) = l + 1 + e
      BY StepsFacts
    <2>2. QED
      BY <2>1
  <1>5. Steps("settling", t, a, c) = l + 1
    BY <1>3, StepsFacts
  <1>6. Steps("settling", t, a, c) < Steps("trying", s, a, c)
    BY ONLY <1>4, <1>5
  <1>7. QED
    BY <1>3, <1>6

\* The next sub-attempt of a split is begun.
LEMMA FewerByNext ==
    ASSUME NEW c \in Configs, NEW s, RankedStack(s, c), s # <<>>,
           NEW a, Ranked(a, c), NEW f \in Frames,
           s[1].todo # <<>>, f.todo = Tail(s[1].todo), f.split = s[1].split,
           NEW b, b = Head(s[1].todo),
           NEW t, t = WithTop(s, f)
    PROVE  /\ RankedStack(t, c) /\ Ranked(b, c)
           /\ Steps("trying", t, b, c) < Steps("settling", s, a, c)
  <1> PICK g, todo, n, m :
        g = s[1] /\ todo = s[1].todo /\ n = Len(s[1].todo) /\ m = Fanout(c)
    OBVIOUS
  <1>1. FrameRanked(g, c) /\ g \in Frames
    <2>1. s \in Seq(Frames)
      BY DEF RankedStack
    <2>2. 1 \in DOMAIN s /\ s[1] \in Frames
      BY <2>1
    <2>3. QED
      BY <2>2 DEF RankedStack
  <1>2. todo \in Seq(Attempts) /\ todo # <<>>
    BY <1>1 DEF Frames
  <1>3. /\ n \in Nat \ {0} /\ DOMAIN todo = 1..n /\ b = todo[1]
        /\ Tail(todo) \in Seq(Attempts) /\ Len(Tail(todo)) = n - 1
        /\ DOMAIN Tail(todo) = 1..n - 1
        /\ \A i \in 1..n - 1 : Tail(todo)[i] = todo[i + 1] /\ i + 1 \in 1..n
    BY <1>2, HeadTailProperties
  <1>4. /\ Ranked(g.split, c)
        /\ \A i \in 1..n : Ranked(todo[i], c) /\ Rank(todo[i], c) < Rank(g.split, c)
    BY <1>1, <1>3 DEF FrameRanked
  <1>5. Ranked(b, c) /\ Rank(b, c) < Rank(g.split, c)
    BY <1>3, <1>4
  <1>6. FrameRanked(f, c)
    <2>1. f.todo = Tail(todo) /\ f.split = g.split
      OBVIOUS
    <2>2. \A i \in 1..n - 1 : Ranked(Tail(todo)[i], c) /\ Rank(Tail(todo)[i], c) < Rank(g.split, c)
      BY <1>3, <1>4
    <2>3. QED
      BY <1>3, <1>4, <2>1, <2>2 DEF FrameRanked
  <1> PICK l, e, d, h : /\ l = Loads(Tail(s), c) /\ e = Effort(m, Rank(g.split, c))
                        /\ d = Effort(m, Rank(b, c) + 1) /\ h = n * (e + 1)
    OBVIOUS
  <1>7. /\ RankedStack(t, c) /\ l \in Nat
        /\ Loads(s, c) = Load(g, c) + l /\ Loads(t, c) = Load(f, c) + l
    BY <1>6, TopLoads
  <1>8. d \in Nat /\ e \in Nat /\ d <= e
    BY <1>4, <1>5, SubAttempt
  <1>9. Load(g, c) = h + 1 /\ Load(f, c) = h - e
    <2>1. Load(g, c) = n * (e + 1) + 1
      BY DEF Load
    <2>2. Load(f, c) = (n - 1) * (e + 1) + 1
      BY <1>3 DEF Load
    <2>3. \A k, x \in Nat : k * (x + 1) \in Nat /\ (k - 1) * (x + 1) = k * (x + 1) - (x + 1)
      BY Z3
    <2>4. h \in Nat /\ (n - 1) * (e + 1) = h - (e + 1)
      BY <1>3, <1>8, <2>3
    <2>5. QED
      BY <1>8, <2>1, <2>2, <2>4
  <1>10. h \in Nat
    <2>1. \A k, x \in Nat : k * (x + 1) \in Nat
      BY Z3
    <2>2. QED
      BY <1>3, <1>8, <2>1
  <1>11. /\ Steps("settling", s, a, c) = ((h + 1) + l) + 1
         /\ Steps("trying", t, b, c) = ((h - e) + l) + 1 + d
    <2>1. Steps("settling", s, a, c) = Loads(s, c) + 1
      BY StepsFacts
    <2>2. Steps("trying", t, b, c) = Loads(t, c) + 1 + d
      BY <1>5, <1>7, StepsFacts
    <2>3. QED
      BY <1>7, <1>9, <2>1, <2>2
  <1>12. Steps("trying", t, b, c) < Steps("settling", s, a, c)
    <2>1. {l, e, d, h} \subseteq Nat /\ d <= e
      BY <1>7, <1>8, <1>10
    <2> PICK x, y : x = Steps("settling", s, a, c) /\ y = Steps("trying", t, b, c)
      OBVIOUS
    <2>2. x = ((h + 1) + l) + 1 /\ y = ((h - e) + l) + 1 + d
      BY <1>11
    <2>3. y < x
      BY ONLY <2>1, <2>2
    <2>4. QED
      BY <2>3
  <1>13. QED
    BY <1>5, <1>7, <1>12

\* A split ends, and gives its output to the one around it.
LEMMA FewerByClosing ==
    ASSUME NEW c \in Configs, NEW s, RankedStack(s, c),
           Tail(s) # <<>>, s # <<>>, NEW a, Ranked(a, c),
           NEW f \in Frames, f.todo = Tail(s)[1].todo, f.split = Tail(s)[1].split,
           NEW t, t = WithTop(Tail(s), f)
    PROVE  RankedStack(t, c) /\ Steps("settling", t, a, c) < Steps("settling", s, a, c)
  <1> PICK u, g : u = Tail(s) /\ g = s[1]
    OBVIOUS
  <1>1. g \in Frames /\ FrameRanked(g, c) /\ s = WithTop(s, g)
    <2>1. s \in Seq(Frames)
      BY DEF RankedStack
    <2>2. 1 \in DOMAIN s /\ s[1] \in Frames
      BY <2>1
    <2>3. s = [s EXCEPT ![1] = s[1]]
      BY <2>1
    <2>4. QED
      BY <2>2, <2>3 DEF RankedStack, WithTop
  <1>2. /\ RankedStack(u, c) /\ Loads(s, c) = Load(g, c) + Loads(u, c)
        /\ Load(g, c) \in Nat \ {0}
    BY <1>1, TopLoads
  <1>3. FrameRanked(u[1], c)
    <2>1. u \in Seq(Frames)
      BY <1>2 DEF RankedStack
    <2>2. 1 \in DOMAIN u
      BY <2>1
    <2>3. QED
      BY <1>2, <2>2 DEF RankedStack
  <1>4. f.todo = u[1].todo /\ f.split = u[1].split
    OBVIOUS
  <1>5. Load(f, c) = Load(u[1], c) /\ FrameRanked(f, c)
    BY <1>3, <1>4, SameLoad
  <1>6. RankedStack(t, c) /\ Loads(t, c) = Loads(u, c)
    <2>1. u # <<>> /\ t = WithTop(u, f)
      OBVIOUS
    <2>2. /\ RankedStack(t, c)
          /\ Loads(u, c) = Load(u[1], c) + Loads(Tail(u), c)
          /\ Loads(t, c) = Load(f, c) + Loads(Tail(u), c)
      BY <1>2, <1>5, <2>1, TopLoads
    <2>3. QED
      BY <1>5, <2>2
  <1> PICK l, k : l = Loads(u, c) /\ k = Load(g, c)
    OBVIOUS
  <1>7. l \in Nat /\ k \in Nat /\ k > 0
    BY <1>2, LoadsNat
  <1>8. Steps("settling", s, a, c) = (k + l) + 1 /\ Steps("settling", t, a, c) = l + 1
    <2>1. Steps("settling", s, a, c) = Loads(s, c) + 1
      BY StepsFacts
    <2>2. Steps("settling", t, a, c) = Loads(t, c) + 1
      BY <1>6, StepsFacts
    <2>3. QED
      BY <1>2, <1>6, <2>1, <2>2
  <1>9. Steps("settling", t, a, c) < Steps("settling", s, a, c)
    BY ONLY <1>7, <1>8
  <1>10. QED
    BY <1>6, <1>9

\* Attempts that may follow from a.
Lower(children, a, c) ==
    \A i \in DOMAIN children : Ranked(children[i], c) /\ Rank(children[i], c) < Rank(a, c)

\* The stack around the sub-attempts of a.
Opened(s, a, children) ==
    <<[split |-> a, todo |-> Tail(children), file |-> <<>>]>> \o s

\* An attempt is split: its first sub-attempt is made, the others are to do.
LEMMA FewerBySplitting ==
    ASSUME NEW c \in Configs, NEW s, RankedStack(s, c),
           NEW a, Ranked(a, c),
           NEW children \in Seq(Attempts), children # <<>>,
           Len(children) <= Fanout(c),
           Lower(children, a, c)
    PROVE  /\ RankedStack(Opened(s, a, children), c) /\ Ranked(Head(children), c)
           /\ Steps("trying", Opened(s, a, children), Head(children), c)
                < Steps("trying", s, a, c)
  <1> PICK f : f = [split |-> a, todo |-> Tail(children), file |-> <<>>]
    OBVIOUS
  <1> PICK t : t = <<f>> \o s
    OBVIOUS
  <1> PICK b, n, m : b = Head(children) /\ n = Len(children) /\ m = Fanout(c)
    OBVIOUS
  <1>1. /\ b = children[1] /\ Tail(children) \in Seq(Attempts)
        /\ n \in Nat \ {0} /\ DOMAIN children = 1..n /\ Len(Tail(children)) = n - 1
        /\ DOMAIN Tail(children) = 1..n - 1
        /\ \A i \in 1..n - 1 : Tail(children)[i] = children[i + 1] /\ i + 1 \in 1..n
    BY HeadTailProperties
  <1>2. Ranked(b, c) /\ Rank(b, c) < Rank(a, c)
    <2>1. 1 \in DOMAIN children
      BY <1>1
    <2>2. QED
      BY <1>1, <2>1 DEF Lower
  <1>3. /\ f \in Frames /\ FrameRanked(f, c) /\ f.split = a /\ f.todo = Tail(children)
    <2>1. f.split = a /\ f.todo = Tail(children)
      OBVIOUS
    <2>2. f \in Frames
      BY <1>1 DEF Frames, Ranked
    <2>3. \A i \in 1..n - 1 : /\ Ranked(Tail(children)[i], c)
                              /\ Rank(Tail(children)[i], c) < Rank(a, c)
      BY <1>1 DEF Lower
    <2>4. QED
      BY <1>1, <2>1, <2>2, <2>3 DEF FrameRanked
  <1>4. /\ RankedStack(t, c) /\ Loads(t, c) = Load(f, c) + Loads(s, c)
    <2>1. s \in Seq(Frames)
      BY DEF RankedStack
    <2>2. Len(s) \in Nat /\ DOMAIN s = 1..Len(s)
      BY <2>1
    <2>3. <<f>> \in Seq(Frames) /\ Len(<<f>>) = 1 /\ <<f>>[1] = f
      BY <1>3
    <2>4. /\ t \in Seq(Frames) /\ Len(t) = 1 + Len(s)
          /\ \A k \in 1..1 + Len(s) : t[k] = IF k <= 1 THEN <<f>>[k] ELSE s[k - 1]
      BY <2>1, <2>3, ConcatProperties
    <2>5. DOMAIN t = 1..1 + Len(s)
      BY <2>4
    <2>6. t[1] = f /\ \A k \in 1..Len(s) : t[k + 1] = s[k]
      <3>1. 1 \in 1..1 + Len(s)
        BY <2>2
      <3>2. \A k \in 1..Len(s) : k + 1 \in 1..1 + Len(s) /\ ~(k + 1 <= 1) /\ (k + 1) - 1 = k
        BY <2>2
      <3>3. QED
        BY <2>3, <2>4, <3>1, <3>2
    <2>7. \A k \in DOMAIN t : k = 1 \/ (k - 1 \in DOMAIN s /\ t[k] = s[k - 1])
      <3>1. \A k \in 1..1 + Len(s) : k = 1 \/ (k - 1 \in 1..Len(s) /\ (k - 1) + 1 = k)
        BY <2>2
      <3>2. QED
        BY <2>2, <2>5, <2>6, <3>1
    <2>8. RankedStack(t, c)
      <3>1. ASSUME NEW k \in DOMAIN t PROVE FrameRanked(t[k], c)
        BY <1>3, <2>6, <2>7 DEF RankedStack
      <3>2. QED
        BY <2>4, <3>1 DEF RankedStack
    <2>9. Len(t) = Len(s) + 1
      BY <2>2, <2>4
    <2>10. Loads(t, c) = Load(t[1], c) + Loads(s, c)
      BY <2>6, <2>8, <2>9, LoadsFacts
    <2>11. QED
      BY <2>6, <2>8, <2>10
  <1>5. PICK l, e, d : l = Loads(s, c) /\ e = Effort(m, Rank(a, c)) /\ d = Effort(m, Rank(b, c) + 1)
    OBVIOUS
  <1>6. /\ m \in Nat \ {0} /\ l \in Nat /\ e \in Nat
        /\ Effort(m, Rank(a, c) + 1) = Grown(m, e)
        /\ Steps("trying", s, a, c) = l + 1 + Effort(m, Rank(a, c) + 1)
    BY <1>5, StepsFacts
  <1>7. d \in Nat /\ d <= e
    BY <1>2, <1>5, SubAttempt
  <1>8. PICK x, y : x = n * (e + 1) /\ y = m * (e + 1)
    OBVIOUS
  <1>9. x \in Nat /\ y \in Nat /\ x <= y /\ (n - 1) * (e + 1) = x - (e + 1)
    <2>1. n \in Nat /\ m \in Nat /\ n <= m /\ e \in Nat
      BY <1>1, <1>6
    <2>2. \A i, z \in Nat : /\ i * (z + 1) \in Nat
                             /\ (i - 1) * (z + 1) = i * (z + 1) - (z + 1)
      BY Z3
    <2>3. \A k, z \in Nat : k * (z + 1) >= 0
      BY Z3
    <2>4. \A i, j, z \in Nat : (j - i) * (z + 1) = j * (z + 1) - i * (z + 1)
      BY Z3
    <2>5. PICK k \in Nat : k = m - n
      BY <2>1
    <2>6. k * (e + 1) = y - x
      BY <1>8, <2>1, <2>4, <2>5
    <2>7. y - x >= 0
      BY <2>1, <2>3, <2>6
    <2>8. x \in Nat /\ y \in Nat /\ (n - 1) * (e + 1) = x - (e + 1)
      BY <1>8, <2>1, <2>2
    <2>9. QED
      BY <2>7, <2>8
  <1>10. Steps("trying", s, a, c) = l + 1 + (y + 1)
    BY <1>6, <1>8 DEF Grown
  <1>11. Steps("trying", t, b, c) = ((x - (e + 1)) + 1 + l) + 1 + d
    <2>1. Load(f, c) = (n - 1) * (e + 1) + 1
      BY <1>1, <1>3, <1>5 DEF Load
    <2>2. Steps("trying", t, b, c) = Loads(t, c) + 1 + d
      BY <1>2, <1>4, <1>5, StepsFacts
    <2>3. Loads(t, c) = ((x - (e + 1)) + 1) + l
      BY <1>4, <1>5, <1>9, <2>1
    <2>4. QED
      BY <2>2, <2>3
  <1>12. Steps("trying", t, b, c) < Steps("trying", s, a, c)
    <2>1. PICK v, w : v = Steps("trying", s, a, c) /\ w = Steps("trying", t, b, c)
      OBVIOUS
    <2>2. v = l + 1 + (y + 1) /\ w = ((x - (e + 1)) + 1 + l) + 1 + d
      BY <1>10, <1>11, <2>1
    <2>3. w < v
      <3>1. /\ x \in Int /\ y \in Int /\ l \in Int /\ e \in Int /\ d \in Int
            /\ x <= y /\ d <= e
        BY <1>6, <1>7, <1>9
      <3>2. QED
        BY ONLY <2>2, <3>1
    <2>4. QED
      BY <2>1, <2>3
  <1>13. t = Opened(s, a, children)
    BY DEF Opened
  <1>14. QED
    BY <1>2, <1>4, <1>12, <1>13

----------------------------------------------------------------------------
(* The steps take from the bound.                                          *)

\* The first attempt has a rank.
LEMMA RankedInit == ASSUME Init PROVE RInv
  <1>1. TInv
    BY TypeInit
  <1>2. /\ attempt \in Attempts /\ attempt.depth = 0 /\ attempt.jobs = config.jobs
        /\ stack = <<>> /\ config \in Configs
    BY <1>1 DEF TInv, Pending, Init, FirstAttempt
  <1>3. config.maxDepth \in Nat /\ Len(config.jobs) \in Nat
    BY <1>1, ConfigFacts
  <1>4. stack \in Seq(Frames) /\ DOMAIN stack = {}
    BY <1>2
  <1>5. Ranked(attempt, config) /\ RankedStack(stack, config)
    BY <1>2, <1>3, <1>4 DEF Ranked, RankedStack
  <1>6. QED
    BY <1>2, <1>5 DEF RInv

\* The window is over.
LEMMA OverProgress ==
    ASSUME RInv, phase \in {"trying", "settling"}, phase' \in {"ok", "failed"},
           stack' = <<>>, UNCHANGED <<config, attempt>>
    PROVE  RInv' /\ StepsLeft' < StepsLeft
  <1> PICK s, a, c : s = stack /\ a = attempt /\ c = config
    OBVIOUS
  <1>1. c \in Configs /\ Ranked(a, c) /\ RankedStack(s, c)
    BY DEF RInv
  <1>2. RankedStack(<<>>, c)
    <2>1. <<>> \in Seq(Frames) /\ DOMAIN <<>> = {}
      OBVIOUS
    <2>2. QED
      BY <2>1 DEF RankedStack
  <1>3. RInv'
    BY <1>1, <1>2 DEF RInv
  <1>4. StepsLeft > 0 /\ StepsLeft \in Nat
    <2>1. StepsLeft = Steps("trying", s, a, c) \/ StepsLeft = Steps("settling", s, a, c)
      BY DEF StepsLeft
    <2>2. /\ Loads(s, c) \in Nat /\ Effort(Fanout(c), Rank(a, c) + 1) \in Nat
          /\ Steps("trying", s, a, c) = Loads(s, c) + 1 + Effort(Fanout(c), Rank(a, c) + 1)
          /\ Steps("settling", s, a, c) = Loads(s, c) + 1
      BY <1>1, StepsFacts
    <2>3. QED
      BY <2>1, <2>2
  <1>5. StepsLeft' = 0
    BY DEF StepsLeft, Steps
  <1>6. QED
    BY <1>3, <1>4, <1>5

\* Another attempt at the same window.
LEMMA RetryProgress ==
    ASSUME RInv, phase = "trying", UNCHANGED <<config, stack, phase>>,
           NEW b, attempt' = b, Ranked(b, config), Rank(b, config) < Rank(attempt, config)
    PROVE  RInv' /\ StepsLeft' < StepsLeft
  <1> PICK s, a, c : s = stack /\ a = attempt /\ c = config
    OBVIOUS
  <1>1. c \in Configs /\ Ranked(a, c) /\ RankedStack(s, c) /\ Ranked(b, c)
    BY DEF RInv
  <1>2. Steps("trying", s, b, c) < Steps("trying", s, a, c)
    BY <1>1, FewerByRetry
  <1>3. StepsLeft = Steps("trying", s, a, c) /\ StepsLeft' = Steps("trying", s, b, c)
    BY DEF StepsLeft
  <1>4. RInv'
    BY <1>1 DEF RInv
  <1>5. QED
    BY <1>2, <1>3, <1>4

\* A split.
LEMMA SplitProgress ==
    ASSUME RInv, phase = "trying", phase' = phase,
           NEW children \in Seq(Attempts), children # <<>>, Split(children),
           Len(children) <= Fanout(config),
           Lower(children, attempt, config)
    PROVE  RInv' /\ StepsLeft' < StepsLeft
  <1> PICK s, a, c : s = stack /\ a = attempt /\ c = config
    OBVIOUS
  <1>1. /\ c \in Configs /\ Ranked(a, c) /\ RankedStack(s, c)
        /\ Len(children) <= Fanout(c) /\ Lower(children, a, c)
    BY DEF RInv
  <1>2. PICK t, b : t = Opened(s, a, children) /\ b = Head(children)
    OBVIOUS
  <1>3. config' = c /\ attempt' = b /\ stack' = t
    BY <1>2 DEF Split, Opened
  <1>4. /\ RankedStack(t, c) /\ Ranked(b, c)
        /\ Steps("trying", t, b, c) < Steps("trying", s, a, c)
    BY <1>1, <1>2, FewerBySplitting
  <1>5. StepsLeft = Steps("trying", s, a, c) /\ StepsLeft' = Steps("trying", t, b, c)
    BY <1>3 DEF StepsLeft
  <1>6. RInv'
    BY <1>1, <1>3, <1>4 DEF RInv
  <1>7. QED
    BY <1>4, <1>5, <1>6

\* An attempt succeeds.
LEMMA AttemptSucceedsProgress ==
    ASSUME TInv, RInv, AttemptSucceeds
    PROVE  RInv' /\ StepsLeft' < StepsLeft
  <1>1. phase = "trying" /\ UNCHANGED <<config, attempt>>
    BY DEF AttemptSucceeds
  <1>2. CASE stack = <<>>
    <2>1. phase' = "ok" /\ stack' = <<>>
      BY <1>2 DEF AttemptSucceeds, AppendTo
    <2>2. QED
      BY <1>1, <2>1, OverProgress
  <1>3. CASE stack # <<>>
    <2>1. PICK s, a, c, f, t, w : /\ s = stack /\ a = attempt /\ c = config /\ w = Written
                                  /\ f = Filled(stack[1], <<w>>) /\ t = WithTop(stack, f)
      OBVIOUS
    <2>2. c \in Configs /\ Ranked(a, c) /\ RankedStack(s, c)
      BY <2>1 DEF RInv
    <2>3. f \in Frames /\ f.todo = s[1].todo /\ f.split = s[1].split
      <3>1. s[1] \in Frames /\ <<w>> \in Seq(Attempts)
        BY <1>3, <2>1, <2>2, FrameFacts, WrittenFacts DEF Ranked
      <3>2. PICK top, output : top = s[1] /\ output = <<w>>
        OBVIOUS
      <3>3. top \in Frames /\ output \in Seq(Attempts) /\ f = Filled(top, output)
        BY <2>1, <3>1, <3>2
      <3>4. f \in Frames /\ f.todo = top.todo /\ f.split = top.split
        BY ONLY <3>3, FilledFrame
      <3>5. QED
        BY <3>2, <3>4
    <2>4. stack' = t /\ phase' = "settling"
      BY <1>3, <2>1 DEF AttemptSucceeds, AppendTo, WithTop, Filled
    <2>5. RankedStack(t, c) /\ Steps("settling", t, a, c) < Steps("trying", s, a, c)
      <3>1. s # <<>> /\ t = WithTop(s, f)
        BY <1>3, <2>1
      <3>2. QED
        BY <2>2, <2>3, <3>1, FewerBySettling
    <2>6. StepsLeft = Steps("trying", s, a, c) /\ StepsLeft' = Steps("settling", t, a, c)
      BY <1>1, <2>1, <2>4 DEF StepsLeft
    <2>7. RInv'
      BY <1>1, <2>1, <2>2, <2>4, <2>5 DEF RInv
    <2>8. QED
      BY <2>5, <2>6, <2>7
  <1>4. QED
    BY <1>2, <1>3

\* The next sub-attempt is begun.
LEMMA NextChildProgress ==
    ASSUME TInv, RInv, NextChild
    PROVE  RInv' /\ StepsLeft' < StepsLeft
  <1>1. phase = "settling" /\ phase' = "trying" /\ config' = config /\ stack # <<>>
    BY DEF NextChild, TInv
  <1>2. PICK s, a, c, b, f, t :
          /\ s = stack /\ a = attempt /\ c = config /\ b = Head(stack[1].todo)
          /\ f = [stack[1] EXCEPT !.todo = Tail(@)] /\ t = WithTop(stack, f)
    OBVIOUS
  <1>3. c \in Configs /\ Ranked(a, c) /\ RankedStack(s, c)
    BY <1>2 DEF RInv
  <1>4. s[1].todo # <<>> /\ attempt' = b /\ stack' = t
    BY <1>2 DEF NextChild, WithTop
  <1>5. f \in Frames /\ f.todo = Tail(s[1].todo) /\ f.split = s[1].split
    <2>1. s[1] \in Frames /\ s[1].todo \in Seq(Attempts)
      BY <1>1, <1>2, FrameFacts
    <2>2. Tail(s[1].todo) \in Seq(Attempts)
      BY <1>4, <2>1, HeadTailProperties
    <2>3. f = [s[1] EXCEPT !.todo = Tail(s[1].todo)]
      BY <1>2
    <2>4. QED
      BY <2>1, <2>2, <2>3 DEF Frames
  <1>6. /\ RankedStack(t, c) /\ Ranked(b, c)
        /\ Steps("trying", t, b, c) < Steps("settling", s, a, c)
    <2>1. s # <<>> /\ t = WithTop(s, f) /\ b = Head(s[1].todo)
      BY <1>1, <1>2
    <2>2. QED
      BY <1>3, <1>4, <1>5, <2>1, FewerByNext, Zenon
  <1>7. StepsLeft = Steps("settling", s, a, c) /\ StepsLeft' = Steps("trying", t, b, c)
    BY <1>1, <1>2, <1>4 DEF StepsLeft
  <1>8. RInv'
    BY <1>1, <1>2, <1>3, <1>4, <1>6 DEF RInv
  <1>9. QED
    BY <1>6, <1>7, <1>8

\* A split is complete.
LEMMA CloseSplitProgress ==
    ASSUME TInv, RInv, CloseSplit
    PROVE  RInv' /\ StepsLeft' < StepsLeft
  <1>1. phase = "settling" /\ UNCHANGED <<config, attempt>> /\ stack # <<>>
    BY DEF CloseSplit, TInv
  <1>2. CASE Len(stack) = 1
    <2>1. phase' = "ok" /\ stack' = <<>>
      BY <1>2 DEF CloseSplit
    <2>2. QED
      BY <1>1, <2>1, OverProgress
  <1>3. CASE Len(stack) # 1
    <2>1. PICK s, u, a, c, f, t :
            /\ s = stack /\ u = Tail(stack) /\ a = attempt /\ c = config
            /\ f = Filled(Tail(stack)[1], stack[1].file) /\ t = WithTop(Tail(stack), f)
      OBVIOUS
    <2>2. c \in Configs /\ Ranked(a, c) /\ RankedStack(s, c)
      BY <2>1 DEF RInv
    <2>3. u # <<>> /\ u[1] \in Frames /\ s[1].file \in Seq(Attempts)
      <3>1. /\ Len(stack) \in Nat \ {0} /\ u \in Seq(Frames) /\ Len(u) = Len(stack) - 1
            /\ s[1].file \in Seq(Attempts)
        BY <1>1, <2>1, FrameFacts
      <3>2. Len(u) \in Nat \ {0}
        BY <1>3, <3>1
      <3>3. QED
        BY <3>1, <3>2
    <2>4. f \in Frames /\ f.todo = u[1].todo /\ f.split = u[1].split
      <3>1. PICK top, output : top = u[1] /\ output = s[1].file
        OBVIOUS
      <3>2. top \in Frames /\ output \in Seq(Attempts) /\ f = Filled(top, output)
        BY <2>1, <2>3, <3>1
      <3>3. f \in Frames /\ f.todo = top.todo /\ f.split = top.split
        BY ONLY <3>2, FilledFrame
      <3>4. QED
        BY <3>1, <3>3
    <2>5. stack' = t /\ phase' = "settling"
      BY <1>1, <1>3, <2>1 DEF CloseSplit, WithTop, Filled
    <2>6. RankedStack(t, c) /\ Steps("settling", t, a, c) < Steps("settling", s, a, c)
      <3>1. /\ s # <<>> /\ Tail(s) # <<>> /\ t = WithTop(Tail(s), f)
            /\ f.todo = Tail(s)[1].todo /\ f.split = Tail(s)[1].split
        BY <1>1, <2>1, <2>3, <2>4
      <3>2. QED
        BY <2>2, <2>4, <3>1, FewerByClosing, Zenon
    <2>7. StepsLeft = Steps("settling", s, a, c) /\ StepsLeft' = Steps("settling", t, a, c)
      BY <1>1, <2>1, <2>5 DEF StepsLeft
    <2>8. RInv'
      BY <1>1, <2>1, <2>2, <2>5, <2>6 DEF RInv
    <2>9. QED
      BY <2>6, <2>7, <2>8
  <1>4. QED
    BY <1>2, <1>3

\* Attempts that follow from the one under way: of the same step and deeper.
LEMMA DeeperAttempt ==
    ASSUME TInv, RInv, NEW b \in Attempts,
           b.depth = attempt.depth + 1, b.step = attempt.step,
           b.depth <= config.maxDepth \/ (b.queryRange /\ b.depth <= config.maxDepth + 1),
           Len(b.jobs) <= Len(attempt.jobs)
    PROVE  Ranked(b, config) /\ Rank(b, config) < Rank(attempt, config)
  <1>1. /\ config \in Configs /\ Ranked(attempt, config)
        /\ Len(attempt.jobs) <= Len(config.jobs)
    BY DEF RInv, Ranked
  <1>2. /\ Len(attempt.jobs) \in Nat /\ Len(config.jobs) \in Nat /\ Len(b.jobs) \in Nat
        /\ b.depth \in Nat /\ config.maxDepth \in Nat
    <2>1. attempt.jobs \in Seq(Job) /\ b.jobs \in Seq(Job) /\ b.depth \in Nat
      BY <1>1 DEF Ranked, Attempts
    <2>2. config.jobs \in Seq(Job) /\ config.maxDepth \in Nat
      BY ConfigFacts
    <2>3. QED
      BY <2>1, <2>2
  <1>3. /\ Len(b.jobs) <= Len(config.jobs)
        /\ b.depth <= IF b.queryRange THEN config.maxDepth + 1 ELSE config.maxDepth
    BY <1>1, <1>2
  <1>4. Ranked(b, config)
    BY <1>3 DEF Ranked
  <1>5. QED
    BY <1>1, <1>4, DeeperRank

\* The range read is not served: the same window by query_range.
LEMMA MissingRouteProgress ==
    ASSUME TInv, RInv, MissingRoute
    PROVE  RInv' /\ StepsLeft' < StepsLeft
  <1>1. CASE attempt.queryRange
    <2>1. phase = "trying" /\ Fail(staging)
      BY <1>1 DEF MissingRoute
    <2>2. QED
      BY <2>1, OverProgress DEF Fail
  <1>2. CASE ~attempt.queryRange
    <2>1. PICK b : b = [attempt EXCEPT !.queryRange = TRUE, !.depth = @ + 1]
      OBVIOUS
    <2>2. /\ phase = "trying" /\ attempt' = b /\ UNCHANGED <<config, stack, phase>>
      BY <1>2, <2>1 DEF MissingRoute, Retry
    <2>3. /\ attempt \in Attempts /\ attempt.depth \in Nat /\ config.maxDepth \in Nat
          /\ attempt.depth <= config.maxDepth
      BY <1>2, ConfigFacts DEF TInv, Pending, Attempts
    <2>4. /\ b \in Attempts /\ b.depth = attempt.depth + 1 /\ b.step = attempt.step
          /\ b.queryRange = TRUE /\ b.jobs = attempt.jobs
      <3>1. attempt.depth + 1 \in Nat
        BY <2>3
      <3>2. b = [attempt EXCEPT !.queryRange = TRUE, !.depth = attempt.depth + 1]
        BY <2>1
      <3>3. QED
        BY <2>3, <3>1, <3>2 DEF Attempts
    <2>5. Ranked(b, config) /\ Rank(b, config) < Rank(attempt, config)
      <3>1. b.depth <= config.maxDepth + 1 /\ Len(b.jobs) <= Len(attempt.jobs)
        <4>1. ASSUME NEW x \in Attempts PROVE Len(x.jobs) \in Nat
          <5>1. x.jobs \in Seq(Job)
            BY DEF Attempts
          <5>2. QED
            BY <5>1
        <4>2. QED
          BY <2>3, <2>4, <4>1
      <3>2. QED
        BY <2>4, <3>1, DeeperAttempt
    <2>6. QED
      BY <2>2, <2>5, RetryProgress
  <1>3. QED
    BY <1>1, <1>2

\* Appending to the destination fails, or the backend does.
LEMMA FailureProgress ==
    ASSUME RInv, AttemptAppendFails \/ SplitAppendFails \/ OtherError
    PROVE  RInv' /\ StepsLeft' < StepsLeft
  <1>1. /\ phase \in {"trying", "settling"} /\ phase' = "failed" /\ stack' = <<>>
        /\ UNCHANGED <<config, attempt>>
    BY DEF AttemptAppendFails, SplitAppendFails, OtherError, Fail
  <1>2. QED
    BY <1>1, OverProgress

\* There are too many series: an attempt for each job.
LEMMA TooManySeriesProgress ==
    ASSUME TInv, RInv, TooManySeries
    PROVE  RInv' /\ StepsLeft' < StepsLeft
  <1>1. CASE Fail(staging)
    BY <1>1, OverProgress DEF TooManySeries, Fail
  <1>2. CASE ~Fail(staging)
    <2>1. /\ phase = "trying" /\ MaySplit /\ Len(attempt.jobs) > 1
          /\ Split(JobChildren) /\ phase' = phase
      BY <1>2 DEF TooManySeries, JobChildren, Split
    <2>2. attempt \in Attempts /\ attempt.jobs \in Seq(Job) /\ attempt.jobs # <<>>
      <3>1. attempt \in Attempts
        BY DEF RInv, Ranked
      <3>2. attempt.jobs \in Seq(Job)
        BY <3>1 DEF Attempts
      <3>3. QED
        BY <2>1, <3>1, <3>2
    <2>3. PICK n : n = Len(attempt.jobs)
      OBVIOUS
    <2>4. /\ JobChildren \in Seq(Attempts) /\ JobChildren # <<>> /\ Len(JobChildren) = n
          /\ \A i \in 1..n : /\ Pending(JobChildren[i])
                             /\ JobChildren[i].jobs = <<attempt.jobs[i]>>
                             /\ JobChildren[i].step = attempt.step
      BY <2>1, <2>2, <2>3, JobChildrenFacts
    <2>5. n \in Nat /\ DOMAIN JobChildren = 1..n /\ DOMAIN attempt.jobs = 1..n
      BY <2>2, <2>3, <2>4
    <2>6. ASSUME NEW i \in 1..n PROVE JobChildren[i].depth = attempt.depth + 1
      <3>1. JobChildren[i] = JobChild(attempt.jobs[i])
        BY <2>5 DEF JobChildren
      <3>2. \A j : JobChild(j).depth = attempt.depth + 1
        BY <2>2 DEF JobChild, Attempts
      <3>3. QED
        BY <3>1, <3>2
    <2>7. ASSUME NEW i \in 1..n
          PROVE  /\ Ranked(JobChildren[i], config)
                 /\ Rank(JobChildren[i], config) < Rank(attempt, config)
      <3>1. PICK b : b = JobChildren[i]
        OBVIOUS
      <3>2. /\ b \in Attempts /\ b.depth = attempt.depth + 1 /\ b.step = attempt.step
            /\ Len(b.jobs) = 1
        <4>1. Pending(b) /\ b.jobs = <<attempt.jobs[i]>> /\ b.step = attempt.step
          BY <2>4, <3>1
        <4>2. b \in Attempts /\ Len(b.jobs) = 1
          BY <4>1 DEF Pending
        <4>3. QED
          BY <2>6, <3>1, <4>1, <4>2
      <3>3. b.depth <= config.maxDepth
        BY <2>1, <2>2, <3>2, ConfigFacts DEF MaySplit, Attempts
      <3>4. Len(b.jobs) <= Len(attempt.jobs)
        BY <2>1, <2>3, <2>5, <3>2
      <3>5. QED
        BY <3>1, <3>2, <3>3, <3>4, DeeperAttempt
    <2>8. Len(JobChildren) <= Fanout(config)
      <3>1. n <= Len(config.jobs)
        BY <2>3 DEF RInv, Ranked
      <3>2. Len(config.jobs) \in Nat
        BY ConfigFacts
      <3>3. QED
        BY <2>4, <2>5, <3>1, <3>2 DEF Fanout
    <2>9. Lower(JobChildren, attempt, config)
      BY <2>5, <2>7 DEF Lower
    <2>10. QED
      BY <2>1, <2>4, <2>8, <2>9, SplitProgress
  <1>3. QED
    BY <1>1, <1>2

\* The query times out: two halves, or a coarser step, which starts again at
\* depth 0.
LEMMA QueryTimeoutProgress ==
    ASSUME TInv, RInv, QueryTimeout
    PROVE  RInv' /\ StepsLeft' < StepsLeft
  <1>1. /\ phase = "trying" /\ attempt \in Attempts /\ config \in Configs
        /\ attempt.depth \in Nat /\ config.maxDepth \in Nat
    BY ConfigFacts DEF QueryTimeout, RInv, Ranked, Attempts
  <1>2. CASE attempt.queryRange /\ MaySplit /\ SplittableInTime
    <2>1. Split(TimeChildren) /\ phase' = phase
      BY <1>2 DEF QueryTimeout, Split
    <2>2. /\ TimeChildren \in Seq(Attempts) /\ Len(TimeChildren) = 2
          /\ \A i \in 1..2 : /\ TimeChildren[i].jobs = attempt.jobs
                             /\ TimeChildren[i].step = attempt.step
      BY <1>2, TimeChildrenFacts
    <2>3. /\ DOMAIN TimeChildren = 1..2 /\ TimeChildren # <<>>
          /\ \A i \in 1..2 : TimeChildren[i] \in Attempts
      <3>1. TimeChildren \in Seq(Attempts) /\ Len(TimeChildren) = 2
        BY <2>2
      <3>2. QED
        BY ONLY <3>1
    <2>4. ASSUME NEW i \in 1..2
          PROVE  TimeChildren[i] \in Attempts /\ TimeChildren[i].depth = attempt.depth + 1
      <3>1. TimeChildren[i] \in Attempts
        BY <2>3
      <3>2. TimeChildren[1].depth = attempt.depth + 1 /\ TimeChildren[2].depth = attempt.depth + 1
        BY <1>1 DEF TimeChildren, Attempts
      <3>3. i = 1 \/ i = 2
        OBVIOUS
      <3>4. QED
        BY <3>1, <3>2, <3>3
    <2>5. ASSUME NEW i \in 1..2
          PROVE  /\ Ranked(TimeChildren[i], config)
                 /\ Rank(TimeChildren[i], config) < Rank(attempt, config)
      <3>1. PICK b : b = TimeChildren[i]
        OBVIOUS
      <3>2. /\ b \in Attempts /\ b.depth = attempt.depth + 1 /\ b.step = attempt.step
            /\ b.jobs = attempt.jobs
        BY <2>2, <2>4, <3>1
      <3>3. b.depth <= config.maxDepth
        BY <1>1, <1>2, <3>2 DEF MaySplit
      <3>4. Len(b.jobs) <= Len(attempt.jobs)
        <4>1. attempt.jobs \in Seq(Job)
          BY <1>1 DEF Attempts
        <4>2. Len(attempt.jobs) \in Nat
          BY <4>1
        <4>3. QED
          BY <3>2, <4>2
      <3>5. QED
        BY <3>1, <3>2, <3>3, <3>4, DeeperAttempt
    <2>6. Len(TimeChildren) <= Fanout(config)
      <3>1. Len(config.jobs) \in Nat
        BY ConfigFacts
      <3>2. QED
        BY <2>2, <3>1 DEF Fanout
    <2>7. Lower(TimeChildren, attempt, config)
      BY <2>3, <2>5 DEF Lower
    <2>8. QED
      BY <1>1, <2>1, <2>2, <2>3, <2>6, <2>7, SplitProgress
  <1>3. CASE /\ ~(attempt.queryRange /\ MaySplit /\ SplittableInTime)
             /\ attempt.queryRange /\ LargerSteps # {}
    <2>1. PICK b : b = [attempt EXCEPT !.step = NextStep, !.depth = 0]
      OBVIOUS
    <2>2. attempt' = b /\ UNCHANGED <<config, stack, phase>>
      BY <1>3, <2>1 DEF QueryTimeout
    <2>3. NextStep \in config.ladder /\ NextStep \in Nat /\ NextStep > attempt.step
      <3>1. LargerSteps \subseteq Nat /\ LargerSteps \subseteq config.ladder
        BY ConfigFacts DEF LargerSteps
      <3>2. \E s \in LargerSteps : \A t \in LargerSteps : s <= t
        BY <1>3, <3>1, Least
      <3>3. NextStep \in LargerSteps
        BY <3>2 DEF NextStep
      <3>4. QED
        BY <1>3, <3>1, <3>3, NextStepFacts
    <2>4. /\ b \in Attempts /\ b.step = NextStep /\ b.depth = 0 /\ b.jobs = attempt.jobs
      BY <1>1, <2>1, <2>3 DEF Attempts
    <2>5. Ranked(b, config)
      BY <1>1, <2>4 DEF RInv, Ranked
    <2>6. Rank(b, config) < Rank(attempt, config)
      <3>1. Ranked(attempt, config)
        BY DEF RInv
      <3>2. b.step \in config.ladder /\ b.step > attempt.step
        BY <2>3, <2>4
      <3>3. QED
        BY <1>1, <2>5, <3>1, <3>2, CoarserRank
    <2>7. QED
      BY <1>1, <2>2, <2>5, <2>6, RetryProgress
  <1>4. CASE /\ ~(attempt.queryRange /\ MaySplit /\ SplittableInTime)
             /\ ~(attempt.queryRange /\ LargerSteps # {})
    <2>1. phase' = "failed" /\ stack' = <<>> /\ UNCHANGED <<config, attempt>>
      BY <1>4 DEF QueryTimeout, Fail
    <2>2. QED
      BY <1>1, <2>1, OverProgress
  <1>5. QED
    BY <1>2, <1>3, <1>4

\* Every step of the specification takes from the bound.
LEMMA StepProgress ==
    ASSUME TInv, RInv, Next
    PROVE  RInv' /\ StepsLeft' < StepsLeft
  <1>1. CASE AttemptAppendFails \/ SplitAppendFails \/ OtherError
    BY <1>1, FailureProgress
  <1>2. CASE AttemptSucceeds
    BY <1>2, AttemptSucceedsProgress
  <1>3. CASE NextChild
    BY <1>3, NextChildProgress
  <1>4. CASE CloseSplit
    BY <1>4, CloseSplitProgress
  <1>5. CASE MissingRoute
    BY <1>5, MissingRouteProgress
  <1>6. CASE TooManySeries
    BY <1>6, TooManySeriesProgress
  <1>7. CASE QueryTimeout
    BY <1>7, QueryTimeoutProgress
  <1>8. QED
    BY <1>1, <1>2, <1>3, <1>4, <1>5, <1>6, <1>7 DEF Next

\* Whatever the backend answers, and in whatever order: every step brings the
\* window closer to its end, so that no more are made than StepsLeft says at
\* first.  Splits end at the maximum depth; a coarser step starts again at
\* depth 0, but the ladder ends, and an attempt falls back to query_range
\* only once (exportWindowAdaptive, runSplitAttemptsAtomically).
THEOREM EveryStepProgresses ==
    Spec => [](StepsLeft \in Nat) /\ [][StepsLeft' < StepsLeft]_vars
  <1>1. Init => RInv
    BY RankedInit
  <1>2. TInv /\ RInv /\ [Next]_vars => RInv'
    <2>1. ASSUME TInv, RInv, UNCHANGED vars PROVE RInv'
      BY <2>1 DEF RInv, vars
    <2>2. QED
      BY <2>1, StepProgress
  <1>3. TInv /\ RInv => StepsLeft \in Nat
    <2>1. ASSUME TInv, RInv PROVE StepsLeft \in Nat
      <3>1. PICK s, a, c : s = stack /\ a = attempt /\ c = config
        OBVIOUS
      <3>2. c \in Configs /\ Ranked(a, c) /\ RankedStack(s, c)
        BY <2>1, <3>1 DEF RInv
      <3>3. /\ Loads(s, c) \in Nat /\ Effort(Fanout(c), Rank(a, c) + 1) \in Nat
            /\ Steps("trying", s, a, c) = Loads(s, c) + 1 + Effort(Fanout(c), Rank(a, c) + 1)
            /\ Steps("settling", s, a, c) = Loads(s, c) + 1
            /\ Steps("ok", s, a, c) = 0 /\ Steps("failed", s, a, c) = 0
        BY <3>2, StepsFacts
      <3>4. \A p \in {"trying", "settling", "ok", "failed"} : Steps(p, s, a, c) \in Nat
        BY <3>3
      <3>5. StepsLeft = Steps(phase, s, a, c) /\ phase \in {"trying", "settling", "ok", "failed"}
        BY <2>1, <3>1 DEF StepsLeft, TInv
      <3>6. QED
        BY <3>4, <3>5
    <2>2. QED
      BY <2>1
  <1>4. TInv /\ RInv /\ [Next]_vars => [StepsLeft' < StepsLeft]_vars
    BY StepProgress
  <1>5. Spec => []RInv
    BY <1>1, <1>2, TypeInvariant, PTL DEF Spec
  <1>6. QED
    BY <1>3, <1>4, <1>5, TypeInvariant, PTL DEF Spec
=============================================================================
