---------------------------- MODULE BatchWindows ----------------------------
(***************************************************************************)
(* How the time range of an export is cut: CalculateBatchWindows           *)
(* (services/batching.go) cuts it into the windows of the batches, and     *)
(* exportViaQueryRange (services/export_service.go), where a window is     *)
(* sampled, cuts each window into chunks of an hour, for which it asks the *)
(* backend in turn.  Both are loops over a cursor; each iteration is a     *)
(* step.  Time is an integer in any unit.                                  *)
(***************************************************************************)
EXTENDS Integers, Sequences

CONSTANTS
    Ranges,       \* the time ranges a client may ask for
    Customs,      \* the values of custom_interval_seconds; none is 0
    Steps,        \* the values of metric_step_seconds; none is 0
    MinInterval, MaxInterval,  \* minBatchInterval, maxBatchInterval
    MidInterval, LongInterval, \* the other two intervals that are recommended
    ShortRange, MidRange,      \* up to which durations the first two are
    ChunkSize     \* what one query_range request asks for at most

ASSUME RangeAssumption == Ranges \subseteq [start : Int, end : Int]
ASSUME SettingAssumption == Customs \subseteq Nat /\ Steps \subseteq Nat
ASSUME IntervalAssumption ==
    /\ {MinInterval, MaxInterval, MidInterval, LongInterval, ChunkSize}
         \subseteq Nat \ {0}
    /\ {ShortRange, MidRange} \subseteq Nat
    /\ MinInterval <= MidInterval /\ MidInterval <= LongInterval
    /\ LongInterval <= MaxInterval

VARIABLES
    range,    \* the range of the export, fixed
    enabled,  \* settings.Enabled, fixed
    custom,   \* settings.CustomIntervalSecs, fixed
    override, \* the step asked for, fixed
    phase,    \* "cutting" into windows, "sampling" them, or "done"
    windows,  \* the windows so far
    cursor,   \* current; when sampling, currentStart
    index,    \* the window that is sampled
    samples   \* the times of the samples of one series, as they arrive

vars == <<range, enabled, custom, override, phase, windows, cursor, index, samples>>
fixed == <<range, enabled, custom, override>>

Window == [start : Int, end : Int]

TypeOK ==
    /\ range \in Ranges
    /\ enabled \in BOOLEAN
    /\ custom \in Customs
    /\ override \in Steps
    /\ phase \in {"cutting", "sampling", "done"}
    /\ windows \in Seq(Window)
    /\ cursor \in Int
    /\ range.start <= cursor
    /\ range.start <= range.end => cursor <= range.end
    /\ index \in Nat \ {0}
    /\ samples \in Seq(Int)

Init ==
    /\ range \in Ranges
    /\ enabled \in BOOLEAN
    /\ custom \in Customs
    /\ override \in Steps
    /\ phase = "cutting"
    /\ windows = <<>>
    /\ cursor = range.start
    /\ index = 1
    /\ samples = <<>>

----------------------------------------------------------------------------
\* Mutant: no upper limit.
ClampedBelow(n) == IF n < MinInterval THEN MinInterval ELSE n

Clamped(n) ==
    IF n < MinInterval THEN MinInterval
    ELSE IF n > MaxInterval THEN MaxInterval ELSE n

\* recommendedIntervalForDuration
Recommended(duration) ==
    IF duration <= ShortRange THEN MinInterval
    ELSE IF duration <= MidRange THEN MidInterval ELSE LongInterval

\* selectBatchInterval
Interval ==
    IF custom > 0 THEN Clamped(custom) ELSE Recommended(range.end - range.start)

\* determineQueryRangeStep, of the window that is sampled.
Step(w) == IF override > 0 THEN Clamped(override) ELSE Recommended(w.end - w.start)

\* Mutant: a cursor may pass the end.
UpToAnywhere(t, end) == t

\* No cursor passes the end.
UpTo(t, end) == IF t > end THEN end ELSE t

\* An empty range, and one that is not to be cut, is one window.
OneWindow ==
    /\ phase = "cutting"
    /\ windows = <<>>
    /\ range.end <= range.start \/ ~enabled
    /\ windows' = <<range>>
    /\ phase' = "sampling"
    /\ UNCHANGED <<fixed, cursor, index, samples>>

\* Mutant: the next window starts after the end of this one.
CutWindowApart ==
    LET next == UpTo(cursor + Interval, range.end) IN
    /\ phase = "cutting"
    /\ enabled
    /\ cursor < range.end
    /\ windows' = Append(windows, [start |-> cursor, end |-> next])
    /\ cursor' = UpTo(next + 1, range.end)
    /\ UNCHANGED <<fixed, phase, index, samples>>

CutWindow ==
    LET next == UpTo(cursor + Interval, range.end) IN
    /\ phase = "cutting"
    /\ enabled
    /\ cursor < range.end
    /\ windows' = Append(windows, [start |-> cursor, end |-> next])
    /\ cursor' = next
    /\ UNCHANGED <<fixed, phase, index, samples>>

\* Mutant: the end must be passed.
AllCutPast ==
    /\ phase = "cutting"
    /\ windows # <<>>
    /\ cursor > range.end
    /\ phase' = "sampling"
    /\ cursor' = windows[1].start
    /\ UNCHANGED <<fixed, windows, index, samples>>

\* The first window is the first to be sampled.
AllCut ==
    /\ phase = "cutting"
    /\ windows # <<>>
    /\ cursor >= range.end
    /\ phase' = "sampling"
    /\ cursor' = windows[1].start
    /\ UNCHANGED <<fixed, windows, index, samples>>

----------------------------------------------------------------------------
\* What query_range returns for a series that has a value all the time: a
\* point at the start and every step after it, the end included.
Points(start, end, step) ==
    [k \in 1..((end - start) \div step) + 1 |-> start + (k - 1) * step]

\* Mutant, which a comment in the code ponders: the next chunk starts a step
\* after the end of this one.
QueryChunkApart ==
    LET w == windows[index]
        end == UpTo(cursor + ChunkSize, w.end)
    IN
    /\ phase = "sampling"
    /\ cursor < w.end
    /\ samples' = samples \o Points(cursor, end, Step(w))
    /\ cursor' = UpTo(end + Step(w), w.end)
    /\ UNCHANGED <<fixed, phase, windows, index>>

\* One request; the next chunk starts where this one ends.
QueryChunk ==
    LET w == windows[index]
        end == UpTo(cursor + ChunkSize, w.end)
    IN
    /\ phase = "sampling"
    /\ cursor < w.end
    /\ samples' = samples \o Points(cursor, end, Step(w))
    /\ cursor' = end
    /\ UNCHANGED <<fixed, phase, windows, index>>

\* The next batch.
NextWindow ==
    /\ phase = "sampling"
    /\ cursor >= windows[index].end
    /\ index < Len(windows)
    /\ index' = index + 1
    /\ cursor' = windows[index + 1].start
    /\ UNCHANGED <<fixed, phase, windows, samples>>

Finish ==
    /\ phase = "sampling"
    /\ cursor >= windows[index].end
    /\ index = Len(windows)
    /\ phase' = "done"
    /\ UNCHANGED <<fixed, windows, cursor, index, samples>>

Next ==
    \/ OneWindow
    \/ CutWindow
    \/ AllCut
    \/ QueryChunk
    \/ NextWindow
    \/ Finish

Spec == Init /\ [][Next]_vars

\* The loops do not wait for anybody.
FairSpec == Spec /\ WF_vars(Next)

----------------------------------------------------------------------------
\* Where the windows that were cut reach to.
Reached == IF windows = <<>> THEN range.start ELSE windows[Len(windows)].end

\* The windows follow each other from the start of the range without gap or
\* overlap, and once they are cut, up to its end (CalculateBatchWindows).
WindowsTile ==
    /\ windows # <<>> => windows[1].start = range.start
    /\ \A i \in 1..Len(windows) - 1 : windows[i].end = windows[i + 1].start
    /\ phase # "cutting" => windows # <<>> /\ Reached = range.end

\* With batching, no window is longer than the largest interval, and only
\* the last may be shorter than the smallest: batches are neither too large
\* for the backend nor too many.
WindowsBounded ==
    enabled /\ range.start < range.end =>
        \A i \in 1..Len(windows) :
            LET length == windows[i].end - windows[i].start IN
            /\ 0 < length /\ length <= MaxInterval
            /\ windows[i].end < range.end => MinInterval <= length

\* "duplicates are better than gaps" (exportViaQueryRange): from the start of
\* the range on, samples are no further apart than the step, wherever windows
\* and chunks are cut, and none is missing at the end.
\* The price: what lies on a cut may come twice, but never three times.
DuplicatesNotGaps ==
    /\ samples # <<>> => samples[1] = range.start
    /\ \A k \in 1..Len(samples) - 1 :
         /\ samples[k] <= samples[k + 1]
         /\ \E i \in 1..Len(windows) :
              /\ windows[i].start <= samples[k] /\ samples[k] <= windows[i].end
              /\ samples[k + 1] - samples[k] <= Step(windows[i])
    /\ phase = "done" /\ range.start < range.end =>
         /\ samples # <<>>
         /\ range.end - samples[Len(samples)] < Step(windows[Len(windows)])
    /\ \A k \in 1..Len(samples) - 2 : samples[k] < samples[k + 2]

\* Every range is cut and sampled in the end.
Ends == <>(phase = "done")
=============================================================================
