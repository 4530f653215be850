------------------------- MODULE BatchWindowsProofs -------------------------
(***************************************************************************)
(* For every range and every setting: the windows of an export tile its    *)
(* range (WindowsTile), keep to their limits (WindowsBounded), and are     *)
(* sampled without gaps (DuplicatesNotGaps).                               *)
(*                                                                         *)
(* None is inductive: a window that is cut follows the one before it       *)
(* because the cursor stands at that one's end, and it is not empty        *)
(* because the cursor has not reached the end of the range.  That is what  *)
(* CursorReached adds; WindowsInside and IndexInside keep the cursor in    *)
(* the range when it goes through the windows again.  Samples need to know *)
(* how far behind the cursor the last two of them are (LastSample).        *)
(*                                                                         *)
(* And that the loops end, as far as it is no matter of fairness: every    *)
(* step lowers a bound of the number of steps (EveryStepProgresses), and   *)
(* there are no more windows than fit (NeverTooMany).                      *)
(***************************************************************************)
EXTENDS BatchWindows, TLAPS

\* While the windows are cut, the cursor is where they reach to, and they are
\* cut only if there is something to cut.
CursorReached ==
    phase = "cutting" =>
        /\ cursor = Reached
        /\ windows # <<>> => enabled /\ range.start < range.end

\* No window lies outside of the range.
WindowsInside ==
    \A i \in 1..Len(windows) :
        /\ range.start <= windows[i].start
        /\ range.start <= range.end => windows[i].end <= range.end

\* The window that is sampled is one of them, and the first one at first.
IndexInside ==
    IF phase = "cutting" THEN index = 1 ELSE index \in 1..Len(windows)

IInv ==
    /\ TypeOK
    /\ CursorReached
    /\ WindowsInside
    /\ IndexInside
    /\ WindowsTile
    /\ WindowsBounded

----------------------------------------------------------------------------
\* What selectBatchInterval returns is within the limits.
LEMMA IntervalInLimits ==
    ASSUME TypeOK
    PROVE  Interval \in Int /\ MinInterval <= Interval /\ Interval <= MaxInterval
           /\ 0 < MinInterval
  BY IntervalAssumption, SettingAssumption, RangeAssumption, SMTT(30)
     DEF TypeOK, Interval, Clamped, Recommended

\* The step is a positive number.
LEMMA StepPositive ==
    ASSUME TypeOK, NEW w \in Window
    PROVE  Step(w) \in Nat \ {0}
  BY IntervalAssumption, SettingAssumption DEF TypeOK, Step, Clamped, Recommended, Window

\* A division in which nothing is negative.
LEMMA QuotientNat ==
    ASSUME NEW a \in Nat, NEW b \in Nat \ {0}
    PROVE  a \div b \in Nat
  BY SMT

\* What a chunk returns is a sequence of times.
LEMMA PointsType ==
    ASSUME NEW start \in Int, NEW end \in Int, start < end, NEW step \in Nat \ {0}
    PROVE  Points(start, end, step) \in Seq(Int)
  <1> DEFINE n == ((end - start) \div step) + 1
  <1>1. n \in Nat
    BY QuotientNat
  <1>2. \A k \in 1..n : start + (k - 1) * step \in Int
    OBVIOUS
  <1> QED
    BY <1>1, <1>2 DEF Points

----------------------------------------------------------------------------
\* Initially there is no window, and the cursor is at the start.
LEMMA InitIInv == Init => IInv
  <1> SUFFICES ASSUME Init PROVE IInv
    OBVIOUS
  <1>1. range.start \in Int /\ range.end \in Int
    BY RangeAssumption DEF Init
  <1> QED
    BY <1>1 DEF Init, IInv, TypeOK, CursorReached, WindowsInside, IndexInside,
                WindowsTile, WindowsBounded, Reached

\* A range that is not cut.
LEMMA OneWindowIInv == IInv /\ OneWindow => IInv'
  <1> SUFFICES ASSUME IInv, OneWindow PROVE IInv'
    OBVIOUS
  <1>1. range \in Window /\ UNCHANGED range
    BY RangeAssumption DEF IInv, TypeOK, OneWindow, fixed, Window
  <1>2. windows' \in Seq(Window) /\ Len(windows') = 1 /\ windows'[1] = range
    BY <1>1 DEF OneWindow
  <1>3. cursor = range.start
    BY DEF IInv, OneWindow, CursorReached, Reached
  <1>4. range.end <= range.start \/ ~enabled'
    BY DEF OneWindow, fixed
  <1>5. TypeOK'
    BY <1>2 DEF IInv, TypeOK, OneWindow, fixed
  <1>6. IndexInside'
    BY <1>2 DEF IInv, OneWindow, IndexInside
  <1>7. WindowsInside' /\ WindowsTile' /\ CursorReached'
    <2>1. windows' # <<>> /\ range' = range /\ phase' = "sampling"
      BY <1>1, <1>2 DEF OneWindow
    <2>2. range.start \in Int /\ range.end \in Int
      BY <1>1 DEF Window
    <2> QED
      BY <1>2, <2>1, <2>2 DEF WindowsInside, WindowsTile, CursorReached, Reached
  <1>8. WindowsBounded'
    BY <1>1, <1>4 DEF WindowsBounded, Window
  <1> QED
    BY <1>2, <1>5, <1>6, <1>7, <1>8 DEF IInv

\* A window is cut off.
LEMMA CutWindowIInv == IInv /\ CutWindow => IInv'
  <1> SUFFICES ASSUME IInv, CutWindow PROVE IInv'
    OBVIOUS
  <1> DEFINE next == UpTo(cursor + Interval, range.end)
             n == Len(windows)
  <1>1. /\ UNCHANGED <<range, enabled, custom, override, phase, index, samples>>
        /\ phase = "cutting" /\ enabled
        /\ cursor' = next
        /\ windows' = Append(windows, [start |-> cursor, end |-> next])
        /\ cursor < range.end
    BY DEF CutWindow, fixed
  <1>2. /\ range.start \in Int /\ range.end \in Int /\ cursor \in Int
        /\ range.start <= cursor
        /\ windows \in Seq(Window) /\ n \in Nat
    BY RangeAssumption DEF IInv, TypeOK
  <1>3. /\ next \in Int /\ cursor < next /\ next <= range.end
        /\ next - cursor <= MaxInterval
        /\ next < range.end => MinInterval <= next - cursor
    <2>1. /\ Interval \in Int /\ MinInterval <= Interval /\ Interval <= MaxInterval
          /\ MinInterval \in Nat \ {0} /\ MaxInterval \in Nat \ {0}
      BY IntervalInLimits, IntervalAssumption DEF IInv
    <2>2. next = IF cursor + Interval > range.end THEN range.end ELSE cursor + Interval
      BY DEF UpTo
    <2> HIDE DEF next
    <2>3. QED
      BY <1>1, <1>2, <2>1, <2>2
  <1>4. /\ windows' \in Seq(Window) /\ Len(windows') = n + 1
        /\ \A i \in 1..n : windows'[i] = windows[i]
        /\ windows'[n + 1] = [start |-> cursor, end |-> next]
    BY <1>1, <1>2, <1>3 DEF Window
  <1>5. windows' # <<>> /\ Reached' = next
    BY <1>2, <1>4 DEF Reached
  <1>6. TypeOK'
    BY <1>1, <1>2, <1>3, <1>4 DEF IInv, TypeOK
  <1>7. CursorReached'
    BY <1>1, <1>2, <1>5 DEF CursorReached
  <1>8. WindowsInside'
    BY <1>1, <1>2, <1>3, <1>4 DEF IInv, WindowsInside
  <1>9. WindowsTile'
    <2>1. windows'[1].start = range.start
      BY <1>1, <1>2, <1>4 DEF IInv, CursorReached, Reached, WindowsTile
    <2>2. \A i \in 1..n : windows'[i].end = windows'[i + 1].start
      BY <1>1, <1>2, <1>4 DEF IInv, CursorReached, Reached, WindowsTile
    <2> QED
      BY <1>1, <1>2, <1>4, <2>1, <2>2 DEF WindowsTile
  <1>10. WindowsBounded'
    BY <1>1, <1>2, <1>3, <1>4 DEF IInv, WindowsBounded
  <1> QED
    BY <1>1, <1>6, <1>7, <1>8, <1>9, <1>10 DEF IInv, IndexInside

\* The cursor goes back to the first window.
LEMMA AllCutIInv == IInv /\ AllCut => IInv'
  <1> SUFFICES ASSUME IInv, AllCut PROVE IInv'
    OBVIOUS
  <1>1. /\ UNCHANGED <<range, enabled, custom, override, windows, index, samples>>
        /\ phase' = "sampling" /\ phase = "cutting"
        /\ windows # <<>> /\ cursor >= range.end
        /\ cursor' = windows[1].start
    BY DEF AllCut, fixed
  <1>2. /\ range.start \in Int /\ range.end \in Int /\ cursor \in Int
        /\ windows \in Seq(Window) /\ Len(windows) \in Nat \ {0}
    BY <1>1, RangeAssumption DEF IInv, TypeOK
  <1>3. cursor' = range.start
    BY <1>1 DEF IInv, WindowsTile
  <1>4. Reached = range.end
    BY <1>1, <1>2 DEF IInv, TypeOK, CursorReached
  <1> QED
    <2>1. TypeOK'
      BY <1>1, <1>2, <1>3 DEF IInv, TypeOK
    <2>2. IndexInside'
      BY <1>1, <1>2 DEF IInv, IndexInside
    <2>3. WindowsTile'
      BY <1>1, <1>4 DEF IInv, WindowsTile, Reached
    <2>4. CursorReached' /\ WindowsInside' /\ WindowsBounded'
      BY <1>1 DEF IInv, CursorReached, WindowsInside, WindowsBounded
    <2> QED
      BY <2>1, <2>2, <2>3, <2>4 DEF IInv

\* A chunk moves the cursor within its window.
LEMMA QueryChunkIInv == IInv /\ QueryChunk => IInv'
  <1> SUFFICES ASSUME IInv, QueryChunk PROVE IInv'
    OBVIOUS
  <1> DEFINE w == windows[index]
             end == UpTo(cursor + ChunkSize, w.end)
  <1>1. /\ UNCHANGED <<range, enabled, custom, override, phase, windows, index>>
        /\ phase = "sampling" /\ cursor < w.end
        /\ samples' = samples \o Points(cursor, end, Step(w))
        /\ cursor' = end
    BY DEF QueryChunk, fixed
  <1>2. /\ range.start \in Int /\ range.end \in Int /\ cursor \in Int
        /\ index \in 1..Len(windows) /\ w \in Window /\ range.start <= cursor
    BY <1>1, RangeAssumption DEF IInv, TypeOK, IndexInside
  <1>3. end \in Int /\ cursor < end /\ end <= w.end
    <2>1. ChunkSize \in Int /\ 0 < ChunkSize
      BY IntervalAssumption
    <2>2. w.end \in Int
      BY <1>2 DEF Window
    <2> HIDE DEF w
    <2> QED
      BY <1>1, <1>2, <2>1, <2>2 DEF UpTo
  <1>4. samples' \in Seq(Int)
    <2>1. Points(cursor, end, Step(w)) \in Seq(Int)
      BY <1>2, <1>3, PointsType, StepPositive DEF IInv
    <2> QED
      BY <1>1, <2>1 DEF IInv, TypeOK
  <1>5. range.start <= range.end => end <= range.end
    BY <1>2, <1>3 DEF IInv, WindowsInside, Window
  <1> QED
    BY <1>1, <1>2, <1>3, <1>4, <1>5
    DEF IInv, TypeOK, CursorReached, WindowsInside, IndexInside, WindowsTile,
        WindowsBounded, Reached

\* The cursor goes to the start of another window.
LEMMA NextWindowIInv == IInv /\ NextWindow => IInv'
  <1> SUFFICES ASSUME IInv, NextWindow PROVE IInv'
    OBVIOUS
  <1>1. /\ UNCHANGED <<range, enabled, custom, override, phase, windows, samples>>
        /\ phase = "sampling" /\ index < Len(windows)
        /\ index' = index + 1 /\ cursor' = windows[index + 1].start
    BY DEF NextWindow, fixed
  <1>2. /\ range.start \in Int /\ range.end \in Int
        /\ index \in 1..Len(windows) /\ index + 1 \in 1..Len(windows)
        /\ windows[index] \in Window /\ windows[index + 1] \in Window
        /\ windows[index].end = windows[index + 1].start
    BY <1>1, RangeAssumption DEF IInv, TypeOK, IndexInside, WindowsTile
  <1>3. /\ range.start <= cursor'
        /\ range.start <= range.end => cursor' <= range.end
    BY <1>1, <1>2 DEF IInv, WindowsInside, Window
  <1> QED
    BY <1>1, <1>2, <1>3
    DEF IInv, TypeOK, CursorReached, WindowsInside, IndexInside, WindowsTile,
        WindowsBounded, Reached, Window

\* The last window is sampled.
LEMMA FinishIInv == IInv /\ Finish => IInv'
  BY DEF IInv, Finish, fixed, TypeOK, CursorReached, WindowsInside, IndexInside,
         WindowsTile, WindowsBounded, Reached

\* No step breaks the invariant.
LEMMA NextIInv == IInv /\ [Next]_vars => IInv'
  <1> SUFFICES ASSUME IInv, [Next]_vars PROVE IInv'
    OBVIOUS
  <1>1. CASE UNCHANGED vars
    BY <1>1 DEF IInv, vars, TypeOK, CursorReached, WindowsInside, IndexInside,
                WindowsTile, WindowsBounded, Reached
  <1> QED
    BY <1>1, OneWindowIInv, CutWindowIInv, AllCutIInv, QueryChunkIInv,
       NextWindowIInv, FinishIInv DEF Next

\* The invariant holds throughout.
LEMMA InductiveInvariant == Spec => []IInv
  BY InitIInv, NextIInv, PTL DEF Spec

----------------------------------------------------------------------------
(* Sequences of times.                                                     *)

\* The first n of s are not ahead of time c, nor is any there three times.
Behind(s, n, c) ==
    /\ n # 0 => s[n] <= c
    /\ n > 1 => s[n - 1] < c
    /\ \A k \in 1..n - 2 : s[k] < s[k + 2]

\* The first m of P go from a time to another, a step apart.
Spread(P, m, from, to, step) ==
    /\ P[1] = from
    /\ \A k \in 1..m : P[k] \in Int /\ from <= P[k] /\ P[k] <= to
    /\ \A k \in 1..m - 1 : P[k + 1] = P[k] + step

\* The first m of P, behind the first n of s.
Joined(t, s, n, P, m) ==
    /\ \A k \in 1..n : t[k] = s[k] /\ s[k] \in Int
    /\ \A k \in 1..m : t[n + k] = P[k]

\* Two neighbours: as they were, at the seam, or a step apart.
Neighbours(t, k, s, n, from, to, step) ==
    \/ k < n /\ t[k] = s[k] /\ t[k + 1] = s[k + 1]
    \/ k = n /\ t[k] = s[k] /\ t[k + 1] = from
    \/ n < k /\ from <= t[k] /\ t[k] <= to /\ t[k + 1] = t[k] + step

----------------------------------------------------------------------------
(* Samples.  The next one is taken at the cursor; so what has to be known  *)
(* of those that there are is how far behind the cursor they are.          *)

\* Time t has been sampled within some window, less than its step before u.
Near(t, u) ==
    \E i \in 1..Len(windows) :
        /\ windows[i].start <= t /\ t <= windows[i].end
        /\ u - t < Step(windows[i])

\* Several windows are cut only from a range that is not empty.
SeveralWindows ==
    phase # "cutting" /\ Len(windows) # 1 => enabled /\ range.start < range.end

\* The cursor of the loop over a window that is not empty stays in it.
CursorInside ==
    phase = "sampling" =>
        \/ cursor = windows[index].start
        \/ windows[index].start < cursor /\ cursor <= windows[index].end

\* The last samples and the cursor.
LastSample ==
    phase = "sampling" =>
      LET n == Len(samples) IN
      /\ n = 0 => cursor = range.start
      /\ n # 0 => /\ Near(samples[n], cursor)
                  /\ windows[index].start < cursor =>
                       cursor - samples[n] < Step(windows[index])
      /\ Behind(samples, n, cursor)

\* Those before.
Spaced ==
    /\ phase = "cutting" => samples = <<>>
    /\ samples # <<>> => samples[1] = range.start
    /\ \A k \in 1..Len(samples) - 1 :
         /\ samples[k] <= samples[k + 1]
         /\ \E i \in 1..Len(windows) :
              /\ windows[i].start <= samples[k] /\ samples[k] <= windows[i].end
              /\ samples[k + 1] - samples[k] <= Step(windows[i])
    /\ \A k \in 1..Len(samples) - 2 : samples[k] < samples[k + 2]

SampledToEnd ==
    phase = "done" /\ range.start < range.end =>
      /\ samples # <<>>
      /\ range.end - samples[Len(samples)] < Step(windows[Len(windows)])

SInv == SeveralWindows /\ CursorInside /\ LastSample /\ Spaced /\ SampledToEnd

----------------------------------------------------------------------------
\* A factor that is not negative keeps an order.
LEMMA TimesMonotonic ==
    ASSUME NEW a \in Nat, NEW b \in Nat, a <= b, NEW c \in Nat
    PROVE  a * c <= b * c
  <1>1. (b - a) * c >= 0
    BY Z3
  <1>2. b * c - a * c = (b - a) * c
    BY Z3
  <1>3. a * c \in Int /\ b * c \in Int
    BY Z3
  <1> QED
    BY <1>1, <1>2, <1>3

\* The points of a chunk: from its start, a step apart, to less than a step
\* before its end.
LEMMA PointsFacts ==
    ASSUME NEW start \in Int, NEW end \in Int, start < end, NEW step \in Nat \ {0},
           NEW P, P = Points(start, end, step)
    PROVE  /\ P \in Seq(Int) /\ Len(P) \in Nat \ {0}
           /\ Spread(P, Len(P), start, end, step)
           /\ end - P[Len(P)] < step
  <1> DEFINE q == (end - start) \div step
             r == (end - start) % step
  <1>1. end - start \in Nat
    OBVIOUS
  <1>2. q \in Nat
    BY <1>1, QuotientNat
  <1>3. r \in Nat /\ r < step
    BY <1>1, Z3
  <1>4. end - start = step * q + r
    BY <1>1, Z3
  <1>5. P \in Seq(Int) /\ Len(P) = q + 1
    <2>1. P \in Seq(Int)
      BY PointsType
    <2>2. DOMAIN P = 1..q + 1
      BY DEF Points
    <2>3. Len(P) \in Nat /\ DOMAIN P = 1..Len(P)
      BY <2>1
    <2> HIDE DEF q
    <2> QED
      BY <1>2, <2>1, <2>2, <2>3
  <1>6. \A k \in 1..q + 1 : P[k] = start + (k - 1) * step
    BY DEF Points
  <1> HIDE DEF q, r
  <1>7. step * q \in Nat /\ step * q = q * step
    BY <1>2, Z3
  <1>8. ASSUME NEW k \in 1..q + 1
        PROVE  P[k] \in Int /\ start <= P[k] /\ P[k] <= end
    <2>1. k - 1 \in Nat /\ k - 1 <= q
      BY <1>2
    <2>2. (k - 1) * step <= q * step
      BY <1>2, <2>1, TimesMonotonic
    <2>3. (k - 1) * step \in Nat
      BY <2>1, Z3
    <2> QED
      BY <1>3, <1>4, <1>6, <1>7, <2>2, <2>3
  <1>9. ASSUME NEW k \in 1..q
        PROVE  P[k + 1] = P[k] + step
    <2>1. k \in 1..q + 1 /\ k + 1 \in 1..q + 1
      BY <1>2
    <2>2. P[k] = start + (k - 1) * step /\ P[k + 1] = start + ((k + 1) - 1) * step
      BY <1>6, <2>1
    <2>3. ((k + 1) - 1) * step = (k - 1) * step + step
      BY <2>1, Z3
    <2>4. (k - 1) * step \in Int
      BY <2>1, Z3
    <2> QED
      BY <2>2, <2>3, <2>4
  <1>10. P[1] = start
    <2>1. 1 \in 1..q + 1
      BY <1>2
    <2>2. P[1] = start + (1 - 1) * step
      BY <1>6, <2>1
    <2> QED
      BY <2>2
  <1>11. end - P[q + 1] < step
    <2>1. q + 1 \in 1..q + 1
      BY <1>2
    <2>2. P[q + 1] = start + ((q + 1) - 1) * step
      BY <1>6, <2>1
    <2>3. (q + 1) - 1 = q
      BY <1>2
    <2>4. P[q + 1] = start + q * step
      BY <2>2, <2>3
    <2> QED
      BY <1>3, <1>4, <1>7, <2>4
  <1> QED
    <2>1. Len(P) \in Nat \ {0} /\ Len(P) - 1 = q
      BY <1>2, <1>5
    <2>2. Spread(P, q + 1, start, end, step)
      <3>1. (q + 1) - 1 = q
        BY <1>2
      <3> QED
        BY <1>8, <1>9, <1>10, <3>1 DEF Spread
    <2> QED
      BY <1>5, <1>11, <2>1, <2>2

----------------------------------------------------------------------------
\* Before the first window.
LEMMA SamplesInit == Init => SInv
  BY DEF Init, SInv, SeveralWindows, CursorInside, LastSample, Spaced, SampledToEnd

\* A range that is not cut.
LEMMA OneWindowSamples == IInv /\ SInv /\ OneWindow => SInv'
  <1> SUFFICES ASSUME IInv, SInv, OneWindow PROVE SInv'
    OBVIOUS
  <1>1. /\ samples = <<>> /\ samples' = <<>> /\ range' = range
        /\ phase' = "sampling" /\ cursor' = cursor /\ windows' = <<range>>
        /\ index' = 1
    BY DEF SInv, Spaced, OneWindow, fixed, IInv, IndexInside
  <1>2. Len(windows') = 1 /\ windows'[1] = range
    BY <1>1
  <1>3. cursor = range.start
    BY DEF IInv, OneWindow, CursorReached, Reached
  <1> QED
    BY <1>1, <1>2, <1>3
    DEF SInv, SeveralWindows, CursorInside, LastSample, Spaced, SampledToEnd, Behind

\* Nothing is sampled while windows are cut.
LEMMA CutWindowSamples == IInv /\ SInv /\ CutWindow => SInv'
  <1> SUFFICES ASSUME IInv, SInv, CutWindow PROVE SInv'
    OBVIOUS
  <1>1. /\ samples = <<>> /\ samples' = <<>> /\ phase' = "cutting"
    BY DEF SInv, Spaced, CutWindow, fixed
  <1> QED
    BY <1>1 DEF SInv, SeveralWindows, CursorInside, LastSample, Spaced, SampledToEnd

\* The first sample is taken at the start of the first window.
LEMMA AllCutSamples == IInv /\ SInv /\ AllCut => SInv'
  <1> SUFFICES ASSUME IInv, SInv, AllCut PROVE SInv'
    OBVIOUS
  <1>1. /\ samples = <<>> /\ samples' = <<>> /\ phase' = "sampling"
        /\ windows' = windows /\ windows # <<>> /\ cursor' = windows[1].start
        /\ index' = 1 /\ UNCHANGED <<range, enabled>>
    BY DEF SInv, Spaced, AllCut, fixed, IInv, IndexInside
  <1>2. cursor' = range.start
    BY <1>1 DEF IInv, WindowsTile
  <1>3. enabled /\ range.start < range.end
    BY <1>1 DEF IInv, CursorReached, AllCut
  <1> QED
    BY <1>1, <1>2, <1>3
    DEF SInv, SeveralWindows, CursorInside, LastSample, Spaced, SampledToEnd, Behind

\* The windows and their steps.
LEMMA WindowFacts ==
    ASSUME TypeOK, NEW i \in 1..Len(windows)
    PROVE  /\ windows[i].start \in Int /\ windows[i].end \in Int
           /\ Step(windows[i]) \in Nat \ {0}
  <1>1. windows[i] \in Window
    BY DEF TypeOK
  <1> QED
    BY <1>1, StepPositive DEF Window

\* Points put behind samples that are not ahead of them, as functions.
LEMMA FunctionsJoined ==
    ASSUME NEW n \in Nat, NEW m \in Nat \ {0}, NEW s, NEW P, NEW t,
           NEW c \in Int, NEW e \in Int, c < e, NEW step \in Nat \ {0},
           Joined(t, s, n, P, m), Spread(P, m, c, e, step), Behind(s, n, c)
    PROVE  /\ Behind(t, n + m, e)
           /\ \A k \in 1..(n + m) - 1 : Neighbours(t, k, s, n, c, e, step)
  <1> USE DEF Joined, Spread, Behind
  <1>1. t[n + m] = P[m] /\ t[n + 1] = c
    <2>1. 1 \in 1..m /\ m \in 1..m
      OBVIOUS
    <2> QED
      BY <2>1
  <1>2. ASSUME NEW k \in n + 1..n + m
        PROVE  /\ t[k] \in Int /\ c <= t[k] /\ t[k] <= e
               /\ k < n + m => t[k + 1] = t[k] + step
    <2>1. PICK i \in 1..m : k = n + i
      <3>1. k - n \in 1..m /\ k = n + (k - n)
        OBVIOUS
      <3> QED
        BY <3>1
    <2>2. t[k] = P[i] /\ c <= t[k] /\ t[k] <= e /\ t[k] \in Int
      BY <2>1
    <2>3. CASE k < n + m
      <3>1. i \in 1..m - 1 /\ i + 1 \in 1..m /\ n + (i + 1) = k + 1
        BY <2>1, <2>3
      <3>2. t[k + 1] = P[i + 1]
        BY <3>1
      <3>3. P[i + 1] = P[i] + step
        BY <3>1
      <3> QED
        BY <2>2, <3>2, <3>3
    <2> QED
      BY <2>2, <2>3
  <1>3. ASSUME NEW k \in 1..(n + m) - 1
        PROVE  \/ k < n /\ t[k] = s[k] /\ t[k + 1] = s[k + 1]
               \/ k = n /\ t[k] = s[k] /\ t[k + 1] = c
               \/ n < k /\ c <= t[k] /\ t[k] <= e /\ t[k + 1] = t[k] + step
    <2>1. CASE k < n
      <3>1. k \in 1..n /\ k + 1 \in 1..n
        BY <2>1
      <3> QED
        BY <2>1, <3>1
    <2>2. CASE k = n
      <3>1. k \in 1..n
        BY <2>2
      <3>2. t[k] = s[k]
        BY <3>1
      <3> QED
        BY ONLY <1>1, <2>2, <3>2
    <2>3. CASE n < k
      <3>1. k \in n + 1..n + m /\ k < n + m
        BY <2>3
      <3>2. c <= t[k] /\ t[k] <= e /\ t[k + 1] = t[k] + step
        BY <1>2, <3>1
      <3> QED
        BY ONLY <2>3, <3>2
    <2>4. k < n \/ k = n \/ n < k
      OBVIOUS
    <2> QED
      BY ONLY <2>1, <2>2, <2>3, <2>4
  <1>4. ASSUME NEW k \in 1..(n + m) - 2
        PROVE  t[k] < t[k + 2]
    <2>1. CASE k + 2 <= n
      <3>1. k \in 1..n /\ k + 2 \in 1..n /\ k \in 1..n - 2
        BY <2>1
      <3>2. s[k] < s[k + 2]
        BY <3>1
      <3>3. t[k] = s[k] /\ t[k + 2] = s[k + 2]
        BY <3>1
      <3> QED
        BY ONLY <3>2, <3>3
    <2>2. CASE k + 1 = n
      <3>1. k \in 1..n /\ k = n - 1 /\ n > 1 /\ k + 2 = n + 1
        BY <2>2
      <3>2. s[n - 1] < c
        BY <3>1
      <3>3. t[k] = s[k]
        BY <3>1
      <3> QED
        BY ONLY <1>1, <3>1, <3>2, <3>3
    <2>3. CASE k = n
      <3>1. n \in 1..n /\ n # 0 /\ n + 1 \in n + 1..n + m /\ n + 1 < n + m
        BY <2>3
      <3>2. t[n] = s[n] /\ s[n] \in Int /\ s[n] <= c
        BY <3>1
      <3>3. t[(n + 1) + 1] = t[n + 1] + step
        BY <1>2, <3>1
      <3>4. (n + 1) + 1 = n + 2
        OBVIOUS
      <3>5. t[n + 2] = c + step
        BY ONLY <1>1, <3>3, <3>4
      <3>6. t[n] < t[n + 2]
        BY ONLY <3>2, <3>5, step \in Nat \ {0}, c \in Int
      <3> QED
        BY ONLY <2>3, <3>6
    <2>4. CASE n < k
      <3>1. /\ k \in n + 1..n + m /\ k + 1 \in n + 1..n + m /\ (k + 1) + 1 = k + 2
            /\ k < n + m /\ k + 1 < n + m
        BY <2>4
      <3>2. t[k + 1] = t[k] + step /\ t[(k + 1) + 1] = t[k + 1] + step /\ t[k] \in Int
        BY <1>2, <3>1
      <3>3. t[k + 2] = (t[k] + step) + step
        BY ONLY <3>1, <3>2
      <3> QED
        BY ONLY <3>2, <3>3, step \in Nat \ {0}
    <2>5. k + 2 <= n \/ k + 1 = n \/ k = n \/ n < k
      OBVIOUS
    <2> QED
      BY ONLY <2>1, <2>2, <2>3, <2>4, <2>5
  <1>5. ASSUME n + m > 1
        PROVE  t[(n + m) - 1] < e
    <2>1. CASE m = 1
      <3>1. n # 0 /\ n \in 1..n /\ (n + m) - 1 = n
        BY <1>5, <2>1
      <3>2. s[n] <= c /\ t[n] = s[n] /\ s[n] \in Int
        BY <3>1
      <3>3. t[n] < e
        BY ONLY <3>2, c < e, c \in Int, e \in Int
      <3> QED
        BY ONLY <3>1, <3>3
    <2>2. CASE m # 1
      <3>1. PICK k \in n + 1..n + m : k = (n + m) - 1
        BY <2>2
      <3>2. k < n + m /\ k + 1 = n + m /\ n + m \in n + 1..n + m
        BY <3>1
      <3>3. t[k + 1] = t[k] + step /\ t[k] \in Int
        BY <1>2, <3>2
      <3>4. t[n + m] <= e
        BY <1>2, <3>2
      <3>5. t[k] < e
        BY ONLY <3>2, <3>3, <3>4, step \in Nat \ {0}, e \in Int
      <3> QED
        BY ONLY <3>1, <3>5
    <2> QED
      BY <2>1, <2>2
  <1>6. t[n + m] <= e
    BY <1>2
  <1>7. Behind(t, n + m, e)
    BY ONLY <1>4, <1>5, <1>6 DEF Behind
  <1> QED
    BY ONLY <1>3, <1>7 DEF Neighbours

\* The same, of sequences.
LEMMA SamplesExtended ==
    ASSUME NEW s \in Seq(Int), NEW P \in Seq(Int), NEW t, t = s \o P, Len(P) # 0,
           NEW c \in Int, NEW e \in Int, c < e, NEW step \in Nat \ {0},
           Spread(P, Len(P), c, e, step), Behind(s, Len(s), c)
    PROVE  /\ t \in Seq(Int) /\ Len(t) = Len(s) + Len(P)
           /\ Joined(t, s, Len(s), P, Len(P))
           /\ Behind(t, Len(t), e)
           /\ \A k \in 1..Len(t) - 1 : Neighbours(t, k, s, Len(s), c, e, step)
  <1>1. PICK n, m : n = Len(s) /\ m = Len(P)
    OBVIOUS
  <1>2. /\ t \in Seq(Int) /\ Len(t) = n + m
        /\ \A k \in 1..n + m : t[k] = IF k <= n THEN s[k] ELSE P[k - n]
    BY <1>1
  <1>3. n \in Nat /\ m \in Nat \ {0}
    BY <1>1
  <1>4. \A k \in 1..n : t[k] = s[k] /\ s[k] \in Int
    BY <1>1, <1>2, <1>3
  <1>5. \A k \in 1..m : t[n + k] = P[k]
    <2> TAKE k \in 1..m
    <2>1. n + k \in 1..n + m /\ ~(n + k <= n) /\ (n + k) - n = k
      BY <1>3
    <2> QED
      BY <1>2, <2>1
  <1>6. Joined(t, s, n, P, m)
    BY <1>4, <1>5 DEF Joined
  <1>7. Spread(P, m, c, e, step) /\ Behind(s, n, c)
    BY <1>1
  <1>8. /\ Behind(t, n + m, e)
        /\ \A k \in 1..(n + m) - 1 : Neighbours(t, k, s, n, c, e, step)
    BY <1>3, <1>6, <1>7, FunctionsJoined
  <1> QED
    BY <1>1, <1>2, <1>6, <1>8

\* One request.
LEMMA QueryChunkSamples == IInv /\ SInv /\ QueryChunk => SInv'
  <1> SUFFICES ASSUME IInv, SInv, QueryChunk PROVE SInv'
    OBVIOUS
  <1>0. PICK c, s : c = cursor /\ s = samples
    OBVIOUS
  <1>1. PICK w : w = windows[index]
    OBVIOUS
  <1>2. PICK step : step = Step(w)
    OBVIOUS
  <1>3. PICK end : end = UpTo(c + ChunkSize, w.end)
    OBVIOUS
  <1>4. PICK P : P = Points(c, end, step)
    OBVIOUS
  <1>5. /\ UNCHANGED <<fixed, phase, windows, index>>
        /\ phase = "sampling" /\ c < w.end
        /\ samples' = s \o P /\ cursor' = end
    BY <1>0, <1>1, <1>2, <1>3, <1>4 DEF QueryChunk
  <1>6. UNCHANGED <<range, enabled, custom, override>>
    BY <1>0, <1>5 DEF fixed
  <1>7. index \in 1..Len(windows) /\ Len(windows) \in Nat
    BY <1>0, <1>5 DEF IInv, TypeOK, IndexInside
  <1>8. /\ w.start \in Int /\ w.end \in Int /\ step \in Nat \ {0}
        /\ c \in Int /\ s \in Seq(Int)
    BY <1>0, <1>1, <1>2, <1>7, WindowFacts DEF IInv, TypeOK
  <1>9. w.start <= c
    BY <1>0, <1>1, <1>5, <1>8 DEF SInv, CursorInside
  <1>10. end \in Int /\ c < end /\ end <= w.end
    <2>1. ChunkSize \in Int /\ 0 < ChunkSize
      BY IntervalAssumption
    <2> QED
      BY <1>0, <1>3, <1>5, <1>8, <2>1 DEF UpTo
  <1>11. /\ P \in Seq(Int) /\ Len(P) \in Nat \ {0}
         /\ Spread(P, Len(P), c, end, step)
         /\ end - P[Len(P)] < step
    BY <1>4, <1>8, <1>10, PointsFacts
  <1>12. PICK n, m : n = Len(s) /\ m = Len(P)
    OBVIOUS
  <1>13. /\ n # 0 => Near(s[n], c)
         /\ n = 0 => c = range.start
         /\ Behind(s, n, c)
    BY <1>0, <1>5, <1>12 DEF SInv, LastSample
  <1>14. PICK t : t = samples'
    OBVIOUS
  <1>15. /\ t \in Seq(Int) /\ Len(t) = n + m
         /\ Joined(t, s, n, P, m)
         /\ Behind(t, Len(t), end)
         /\ \A k \in 1..Len(t) - 1 : Neighbours(t, k, s, n, c, end, step)
    <2>1. t = s \o P /\ Len(P) # 0 /\ Behind(s, Len(s), c)
      BY <1>5, <1>11, <1>12, <1>13, <1>14
    <2> QED
      BY <1>8, <1>10, <1>11, <1>12, <2>1, SamplesExtended
  <1>16. n \in Nat /\ m \in Nat \ {0}
    BY <1>8, <1>11, <1>12
  <1>17. /\ t[n + m] = P[m] /\ P[m] \in Int /\ c <= P[m] /\ P[m] <= end
         /\ end - P[m] < step /\ t[n + 1] = c
    <2>1. m \in 1..m /\ 1 \in 1..m
      BY <1>16
    <2> QED
      BY <1>11, <1>12, <1>15, <2>1 DEF Joined, Spread
  <1>18. \A i \in 1..Len(windows) : Step(windows[i])' = Step(windows[i])
    BY <1>0, <1>5, <1>6 DEF Step, Recommended
  <1>19. Step(windows[index])' = step
    BY <1>0, <1>1, <1>2, <1>7, <1>18, <1>5
  <1>20. LastSample'
    <2>1. Len(t) \in Nat /\ Len(t) # 0 /\ t[Len(t)] = P[m]
      BY <1>15, <1>16, <1>17
    <2>2. /\ windows[index].start <= P[m] /\ P[m] <= windows[index].end
      BY <1>1, <1>8, <1>9, <1>10, <1>17
    <2>3. Near(samples[Len(samples)], cursor)'
      BY <1>5, <1>7, <1>14, <1>17, <1>19, <2>1, <2>2 DEF Near
    <2> QED
      BY <1>5, <1>14, <1>15, <1>17, <1>19, <2>1, <2>3 DEF LastSample
  <1>21. ASSUME NEW k \in 1..Len(t) - 1
         PROVE  /\ t[k] <= t[k + 1]
                /\ \E i \in 1..Len(windows) :
                     /\ windows[i].start <= t[k] /\ t[k] <= windows[i].end
                     /\ t[k + 1] - t[k] <= Step(windows[i])
    <2>1. CASE k < n /\ t[k] = s[k] /\ t[k + 1] = s[k + 1]
      <3>1. k \in 1..n - 1
        BY <1>16, <2>1
      <3>2. /\ s[k] <= s[k + 1]
            /\ \E i \in 1..Len(windows) :
                 /\ windows[i].start <= s[k] /\ s[k] <= windows[i].end
                 /\ s[k + 1] - s[k] <= Step(windows[i])
        BY <1>0, <1>12, <3>1 DEF SInv, Spaced
      <3> QED
        BY <2>1, <3>2
    <2>2. CASE k = n /\ t[k] = s[k] /\ t[k + 1] = c
      <3>1. n # 0 /\ s[n] \in Int /\ s[n] <= c
        BY <1>8, <1>12, <1>13, <1>16, <2>2 DEF Behind
      <3>2. PICK i \in 1..Len(windows) :
              /\ windows[i].start <= s[n] /\ s[n] <= windows[i].end
              /\ c - s[n] < Step(windows[i])
        BY <1>13, <3>1 DEF Near
      <3>3. Step(windows[i]) \in Nat
        BY WindowFacts DEF IInv
      <3>4. c - s[n] <= Step(windows[i])
        BY <1>8, <3>1, <3>2, <3>3
      <3> QED
        BY <2>2, <3>1, <3>2, <3>4
    <2>3. CASE n < k /\ c <= t[k] /\ t[k] <= end /\ t[k + 1] = t[k] + step
      <3>1. t[k] \in Int
        BY <1>15
      <3>2. /\ t[k] <= t[k + 1] /\ t[k + 1] - t[k] <= step
            /\ w.start <= t[k] /\ t[k] <= w.end
        BY <1>8, <1>9, <1>10, <2>3, <3>1
      <3> QED
        BY <1>1, <1>2, <1>7, <3>2
    <2> QED
      BY <1>15, <2>1, <2>2, <2>3 DEF Neighbours
  <1>22. Spaced'
    <2>1. t[1] = range.start /\ t # <<>>
      <3>1. CASE n = 0
        BY <1>13, <1>15, <1>16, <1>17, <3>1
      <3>2. CASE n # 0
        <4>1. s # <<>> /\ 1 \in 1..n
          BY <1>12, <1>16, <3>2
        <4>2. s[1] = range.start /\ t[1] = s[1]
          BY <1>0, <1>15, <4>1 DEF SInv, Spaced, Joined
        <4> QED
          BY <1>15, <1>16, <4>2
      <3> QED
        BY <3>1, <3>2
    <2>2. \A k \in 1..Len(t) - 1 :
            /\ t[k] <= t[k + 1]
            /\ \E i \in 1..Len(windows) :
                 /\ windows[i].start <= t[k] /\ t[k] <= windows[i].end
                 /\ t[k + 1] - t[k] <= Step(windows[i])'
      BY <1>18, <1>21
    <2>3. \A k \in 1..Len(t) - 2 : t[k] < t[k + 2]
      BY <1>15 DEF Behind
    <2> QED
      BY <1>5, <1>6, <1>14, <2>1, <2>2, <2>3 DEF Spaced
  <1>23. SeveralWindows' /\ SampledToEnd' /\ CursorInside'
    <2>1. w.start < end
      BY <1>0, <1>8, <1>9, <1>10
    <2> QED
      BY <1>0, <1>1, <1>5, <1>6, <1>10, <2>1
      DEF SInv, SeveralWindows, SampledToEnd, CursorInside
  <1> QED
    BY <1>0, <1>20, <1>22, <1>23 DEF SInv

\* Where a loop ends, the window ends, unless the only one is empty.
LEMMA CursorAtEnd ==
    ASSUME IInv, SInv, phase = "sampling", cursor >= windows[index].end,
           range.start < range.end
    PROVE  cursor = windows[index].end /\ windows[index].start < cursor
  <1>1. index \in 1..Len(windows) /\ Len(windows) \in Nat
    BY DEF IInv, TypeOK, IndexInside
  <1>2. /\ windows[index].start \in Int /\ windows[index].end \in Int
        /\ cursor \in Int
    BY <1>1, WindowFacts DEF IInv, TypeOK
  <1>3. windows[index].start < windows[index].end
    <2>1. CASE enabled
      <3>1. 0 < windows[index].end - windows[index].start
        BY <1>1, <2>1 DEF IInv, WindowsBounded
      <3> QED
        BY <1>2, <3>1
    <2>2. CASE ~enabled
      <3>1. Len(windows) = 1
        BY <2>2 DEF SInv, SeveralWindows
      <3>2. index = 1
        BY <1>1, <3>1
      <3>3. windows[1].start = range.start /\ windows[1].end = range.end
        BY <3>1 DEF IInv, WindowsTile, Reached
      <3> QED
        BY <3>2, <3>3
    <2> QED
      BY <2>1, <2>2
  <1> QED
    BY <1>2, <1>3 DEF SInv, CursorInside

\* The next window starts where the cursor is.
LEMMA NextWindowSamples == IInv /\ SInv /\ NextWindow => SInv'
  <1> SUFFICES ASSUME IInv, SInv, NextWindow PROVE SInv'
    OBVIOUS
  <1>1. /\ UNCHANGED <<fixed, range, enabled, override, phase, windows, samples>>
        /\ phase = "sampling" /\ index < Len(windows)
        /\ cursor >= windows[index].end
        /\ index' = index + 1 /\ cursor' = windows[index + 1].start
    BY DEF NextWindow, fixed
  <1>2. index \in 1..Len(windows) - 1 /\ Len(windows) # 1 /\ index + 1 \in 1..Len(windows)
    BY <1>1 DEF IInv, TypeOK, IndexInside
  <1>3. range.start < range.end
    BY <1>1, <1>2 DEF SInv, SeveralWindows
  <1>4. cursor' = cursor
    BY <1>1, <1>2, <1>3, CursorAtEnd DEF IInv, WindowsTile
  <1>5. \A i \in 1..Len(windows) : Step(windows[i])' = Step(windows[i])
    BY <1>1 DEF Step, Recommended
  <1>6. \A t, u : Near(t, u) => Near(t, u)'
    BY <1>1, <1>5 DEF Near
  <1>7. CursorInside'
    BY <1>1 DEF CursorInside
  <1>8. cursor \in Int
    BY DEF IInv, TypeOK
  <1>9. LastSample'
    BY <1>1, <1>4, <1>6, <1>8 DEF SInv, LastSample
  <1>10. Spaced'
    BY <1>1, <1>5 DEF SInv, Spaced
  <1> QED
    BY <1>1, <1>7, <1>9, <1>10 DEF SInv, SeveralWindows, SampledToEnd

\* The last sample is near the end of the range.
LEMMA FinishSamples == IInv /\ SInv /\ Finish => SInv'
  <1> SUFFICES ASSUME IInv, SInv, Finish PROVE SInv'
    OBVIOUS
  <1>1. /\ UNCHANGED <<fixed, range, enabled, override, windows, cursor, index, samples>>
        /\ phase = "sampling" /\ phase' = "done" /\ index = Len(windows)
        /\ cursor >= windows[index].end
    BY DEF Finish, fixed
  <1>2. index \in 1..Len(windows) /\ Len(windows) \in Nat
    BY <1>1 DEF IInv, TypeOK, IndexInside
  <1>3. \A i \in 1..Len(windows) : Step(windows[i])' = Step(windows[i])
    BY <1>1 DEF Step, Recommended
  <1>4. ASSUME range.start < range.end
        PROVE  /\ samples # <<>>
               /\ range.end - samples[Len(samples)] < Step(windows[Len(windows)])
    <2>1. cursor = windows[index].end /\ windows[index].start < cursor
      BY <1>1, <1>4, CursorAtEnd
    <2>2. cursor = range.end /\ range.start \in Int /\ range.end \in Int
      BY <1>1, <2>1, RangeAssumption DEF IInv, TypeOK, WindowsTile, Reached
    <2>3. Len(samples) # 0
      BY <1>1, <1>4, <2>2 DEF SInv, LastSample
    <2>4. cursor - samples[Len(samples)] < Step(windows[index])
      BY <1>1, <2>1, <2>3 DEF SInv, LastSample
    <2> QED
      BY <1>1, <2>2, <2>3, <2>4
  <1>5. SampledToEnd'
    BY <1>1, <1>2, <1>3, <1>4 DEF SampledToEnd
  <1>6. Spaced'
    BY <1>1, <1>3 DEF SInv, Spaced
  <1> QED
    BY <1>1, <1>5, <1>6 DEF SInv, SeveralWindows, CursorInside, LastSample

\* What is known of the samples holds throughout.
LEMMA SamplesInvariant == Spec => []SInv
  <1>1. ASSUME IInv, SInv, [Next]_vars
        PROVE  SInv'
    <2>1. CASE UNCHANGED vars
      BY <1>1, <2>1 DEF SInv, vars, SeveralWindows, CursorInside, LastSample, Spaced,
                        SampledToEnd, Near, Step, Recommended
    <2> QED
      BY <1>1, <2>1, OneWindowSamples, CutWindowSamples, AllCutSamples,
         QueryChunkSamples, NextWindowSamples, FinishSamples DEF Next
  <1> QED
    BY <1>1, SamplesInit, InductiveInvariant, PTL DEF Spec

\* Wherever windows and chunks are cut, samples are no further apart than
\* their step and none is missing at the end; none comes three times
\* (exportViaQueryRange: duplicates are better than gaps).
THEOREM NeverGaps == Spec => []DuplicatesNotGaps
  <1>1. SInv => DuplicatesNotGaps
    BY DEF SInv, Spaced, SampledToEnd, DuplicatesNotGaps
  <1> QED
    BY <1>1, SamplesInvariant, PTL

----------------------------------------------------------------------------
\* Whatever range a client asks for, the windows of its batches follow each
\* other without gap or overlap and, once cut, cover it (CalculateBatchWindows).
THEOREM WindowsAlwaysTile == Spec => []WindowsTile
  <1>1. IInv => WindowsTile
    BY DEF IInv
  <1> QED
    BY <1>1, InductiveInvariant, PTL

\* And whatever interval its settings name, no window is empty or too long,
\* and only the last is shorter than the smallest (selectBatchInterval).
THEOREM WindowsAlwaysBounded == Spec => []WindowsBounded
  <1>1. IInv => WindowsBounded
    BY DEF IInv
  <1> QED
    BY <1>1, InductiveInvariant, PTL

\* The cursors never leave the range, and samples are times.
THEOREM TypeCorrect == Spec => []TypeOK
  <1>1. IInv => TypeOK
    BY DEF IInv
  <1> QED
    BY <1>1, InductiveInvariant, PTL

----------------------------------------------------------------------------
(* That the loops end.  TLC checks it of a few ranges (Ends); here is the  *)
(* number that shows it of all: it goes down with every step.              *)

\* What a cursor has still to cover.
Left(from) == IF from < range.end THEN range.end - from ELSE 0

\* The steps that may remain, at most; what is cut is gone through again.
StepsLeft ==
    CASE phase = "cutting"  -> 2 * Left(cursor) + Len(windows) + Left(range.start) + 2
      [] phase = "sampling" -> Left(cursor) + (Len(windows) - index) + 1
      [] phase = "done"     -> 0

\* What is left is a number.
LEMMA LeftNat == ASSUME range.end \in Int, NEW from \in Int PROVE Left(from) \in Nat
  BY DEF Left

\* And less of it, the further the cursor is.
LEMMA LeftLess ==
    ASSUME range.end \in Int, NEW from \in Int, NEW to \in Int,
           from < to, to <= range.end
    PROVE  Left(to) < Left(from)
  BY DEF Left

\* The steps that may remain are a number.
LEMMA StepsLeftNat == ASSUME IInv PROVE StepsLeft \in Nat
  <1>1. /\ range.start \in Int /\ range.end \in Int /\ cursor \in Int
        /\ Len(windows) \in Nat /\ index \in Nat
        /\ phase \in {"cutting", "sampling", "done"}
        /\ phase # "cutting" => index <= Len(windows)
    BY RangeAssumption DEF IInv, TypeOK, IndexInside
  <1>2. Left(cursor) \in Nat /\ Left(range.start) \in Nat
    BY <1>1, LeftNat
  <1> QED
    BY <1>1, <1>2, SMTT(30) DEF StepsLeft

\* A step of the first loop.
LEMMA CutWindowProgress == ASSUME IInv, CutWindow PROVE StepsLeft' < StepsLeft
  <1> DEFINE next == UpTo(cursor + Interval, range.end)
             n == Len(windows)
  <1>1. /\ UNCHANGED <<range, phase>>
        /\ phase = "cutting" /\ cursor < range.end
        /\ cursor' = next
        /\ windows' = Append(windows, [start |-> cursor, end |-> next])
    BY DEF CutWindow, fixed
  <1>2. /\ range.start \in Int /\ range.end \in Int /\ cursor \in Int
        /\ windows \in Seq(Window) /\ n \in Nat
    BY RangeAssumption DEF IInv, TypeOK
  <1>3. next \in Int /\ cursor < next /\ next <= range.end
    BY <1>1, <1>2, IntervalInLimits, IntervalAssumption DEF IInv, UpTo
  <1>4. Len(windows') = n + 1
    BY <1>1, <1>2, <1>3 DEF Window
  <1> HIDE DEF next, n
  <1>5. Left(next) \in Nat /\ Left(cursor) \in Nat /\ Left(next) < Left(cursor)
    BY <1>2, <1>3, LeftNat, LeftLess
  <1>6. Left(range.start) \in Nat
    BY <1>2, LeftNat
  <1>7. StepsLeft = 2 * Left(cursor) + n + Left(range.start) + 2
    BY <1>1 DEF StepsLeft, n
  <1>8. StepsLeft' = 2 * Left(next) + (n + 1) + Left(range.start) + 2
    BY <1>1, <1>4 DEF StepsLeft, Left
  <1> QED
    BY <1>2, <1>5, <1>6, <1>7, <1>8, SMTT(30)

\* The first loop is over, and its cuts are gone through.
LEMMA CutProgress ==
    ASSUME IInv, OneWindow \/ AllCut
    PROVE  StepsLeft' < StepsLeft
  <1>1. /\ range.start \in Int /\ range.end \in Int /\ cursor \in Int
        /\ windows \in Seq(Window) /\ Len(windows) \in Nat
        /\ range' = range /\ phase = "cutting" /\ phase' = "sampling" /\ index' = 1
    BY RangeAssumption DEF IInv, TypeOK, OneWindow, AllCut, fixed, IndexInside
  <1>2. /\ cursor' = cursor \/ cursor' = range.start
        /\ Len(windows') <= Len(windows) + 1 /\ Len(windows') \in Nat
    <2>1. CASE OneWindow
      BY <1>1, <2>1 DEF OneWindow
    <2>2. CASE AllCut
      BY <1>1, <2>2 DEF IInv, WindowsTile, AllCut, fixed
    <2> QED
      BY <2>1, <2>2
  <1>3. Left(cursor) \in Nat /\ Left(range.start) \in Nat
    BY <1>1, LeftNat
  <1>4. StepsLeft = 2 * Left(cursor) + Len(windows) + Left(range.start) + 2
    BY <1>1 DEF StepsLeft
  <1>5. StepsLeft' = Left(cursor') + (Len(windows') - 1) + 1
    BY <1>1 DEF StepsLeft, Left
  <1>6. Left(cursor') = Left(cursor) \/ Left(cursor') = Left(range.start)
    BY <1>2
  <1> QED
    BY <1>1, <1>2, <1>3, <1>4, <1>5, <1>6, SMTT(30)

\* A step of the loops over the windows and their chunks.
LEMMA SamplingProgress ==
    ASSUME IInv, SInv, QueryChunk \/ NextWindow
    PROVE  StepsLeft' < StepsLeft
  <1>1. /\ range.start \in Int /\ range.end \in Int /\ cursor \in Int
        /\ windows \in Seq(Window) /\ Len(windows) \in Nat
        /\ index \in 1..Len(windows)
        /\ phase = "sampling"
        /\ UNCHANGED <<range, windows, phase>>
    BY RangeAssumption
       DEF IInv, TypeOK, QueryChunk, NextWindow, fixed, IndexInside
  <1>2. StepsLeft = Left(cursor) + (Len(windows) - index) + 1
    BY <1>1 DEF StepsLeft
  <1>3. StepsLeft' = Left(cursor') + (Len(windows) - index') + 1
    BY <1>1 DEF StepsLeft, Left
  <1>4. windows[index] \in Window
    BY <1>1
  <1>5. CASE QueryChunk
    <2> DEFINE w == windows[index]
               end == UpTo(cursor + ChunkSize, w.end)
    <2>1. cursor' = end /\ cursor < w.end /\ index' = index
      BY <1>5 DEF QueryChunk
    <2>2. w.end \in Int /\ ChunkSize \in Int /\ 0 < ChunkSize
      BY <1>4, IntervalAssumption DEF Window
    <2>3. range.start <= range.end => w.end <= range.end
      BY <1>1 DEF IInv, WindowsInside
    <2>4. range.start <= range.end
      <3>1. range.start <= cursor
        BY DEF IInv, TypeOK
      <3>2. CASE Len(windows) = 1
        <4>1. index = 1 /\ w.end = range.end
          BY <1>1, <3>2 DEF IInv, WindowsTile, Reached
        <4> QED
          BY <1>1, <2>1, <3>1, <4>1
      <3>3. CASE Len(windows) # 1
        BY <1>1, <3>3 DEF SInv, SeveralWindows
      <3> QED
        BY <3>2, <3>3
    <2> HIDE DEF w
    <2>5. end \in Int /\ cursor < end /\ end <= range.end
      BY <1>1, <2>1, <2>2, <2>3, <2>4 DEF UpTo
    <2>6. Left(end) \in Nat /\ Left(cursor) \in Nat /\ Left(end) < Left(cursor)
      BY <1>1, <2>5, LeftNat, LeftLess
    <2> HIDE DEF end
    <2> QED
      BY <1>1, <1>2, <1>3, <2>1, <2>6
  <1>6. CASE NextWindow
    <2>1. index' = index + 1 /\ cursor' = windows[index + 1].start
      BY <1>6 DEF NextWindow
    <2>2. cursor' = cursor
      <3>1. index < Len(windows) /\ cursor >= windows[index].end
        BY <1>6 DEF NextWindow
      <3>2. range.start < range.end
        <4>1. Len(windows) # 1
          <5> PICK n : n = Len(windows)
            OBVIOUS
          <5>1. n \in Nat /\ index \in 1..n /\ index < n
            BY <1>1, <3>1
          <5> QED
            BY <5>1
        <4> QED
          BY <1>1, <4>1 DEF SInv, SeveralWindows
      <3> QED
        BY <1>1, <2>1, <3>1, <3>2, CursorAtEnd DEF IInv, WindowsTile
    <2>3. Left(cursor) \in Nat
      BY <1>1, LeftNat
    <2> QED
      BY <1>1, <1>2, <1>3, <2>1, <2>2, <2>3
  <1> QED
    BY <1>5, <1>6

\* Whatever range a client asks for, and whatever its settings: every step
\* takes the loops closer to their end, so they make no more of them than
\* StepsLeft says at first (CalculateBatchWindows, exportViaQueryRange).
THEOREM EveryStepProgresses ==
    Spec => [](StepsLeft \in Nat) /\ [][StepsLeft' < StepsLeft]_vars
  <1>1. IInv => StepsLeft \in Nat
    BY StepsLeftNat
  <1>2. ASSUME IInv, SInv, Next
        PROVE  StepsLeft' < StepsLeft
    <2>1. CASE Finish
      <3>1. StepsLeft = Left(cursor) + (Len(windows) - index) + 1
        BY <2>1 DEF Finish, StepsLeft
      <3>2. StepsLeft' = 0
        BY <2>1 DEF Finish, StepsLeft
      <3>3. Left(cursor) \in Nat
        BY <1>2, LeftNat, RangeAssumption DEF IInv, TypeOK
      <3>4. Len(windows) - index = 0
        BY <1>2, <2>1 DEF Finish, IInv, TypeOK
      <3> QED
        BY <3>1, <3>2, <3>3, <3>4
    <2> QED
      BY <1>2, <2>1, CutWindowProgress, CutProgress, SamplingProgress DEF Next
  <1>3. IInv /\ SInv /\ [Next]_vars => [StepsLeft' < StepsLeft]_vars
    BY <1>2
  <1> QED
    BY <1>1, <1>3, InductiveInvariant, SamplesInvariant, PTL DEF Spec

\* The first loop makes no more windows than the smallest interval allows,
\* whatever interval the settings name: all but the last are that long.
NotTooMany ==
    enabled /\ range.start < range.end /\ windows # <<>> =>
        (Len(windows) - 1) * MinInterval <= range.end - range.start


\* So the last window starts that far from the start of the range.
LastStartsFar ==
    enabled /\ range.start < range.end /\ windows # <<>> =>
        (Len(windows) - 1) * MinInterval <= windows[Len(windows)].start - range.start

\* Another window: the one before it was not the last.
LEMMA CutWindowFar == ASSUME IInv, LastStartsFar, CutWindow PROVE LastStartsFar'
  <1> DEFINE next == UpTo(cursor + Interval, range.end)
             n == Len(windows)
  <1>1. /\ UNCHANGED <<range, enabled>>
        /\ phase = "cutting" /\ enabled /\ cursor < range.end
        /\ windows' = Append(windows, [start |-> cursor, end |-> next])
    BY DEF CutWindow, fixed
  <1>2. /\ range.start \in Int /\ range.end \in Int /\ cursor \in Int
        /\ windows \in Seq(Window) /\ n \in Nat /\ range.start <= cursor
        /\ cursor = Reached /\ MinInterval \in Nat
    BY <1>1, RangeAssumption, IntervalAssumption, SMTT(30) DEF IInv, TypeOK, CursorReached
  <1>3. next \in Int
    BY <1>1, <1>2, IntervalInLimits DEF IInv, UpTo
  <1>4. /\ Len(windows') = n + 1 /\ windows'[n + 1].start = cursor
        /\ windows' # <<>>
    BY <1>1, <1>2, <1>3 DEF Window
  <1>5. n * MinInterval <= cursor - range.start
    <2>1. CASE n = 0
      BY <1>2, <2>1
    <2>2. CASE n # 0
      <3>1. windows # <<>> /\ n \in 1..n /\ windows[n] \in Window
        BY <1>2, <2>2
      <3> PICK w : w = windows[n]
        OBVIOUS
      <3>2. cursor = w.end /\ w.start \in Int /\ w.end \in Int
        BY <1>2, <3>1 DEF Reached, Window
      <3>3. MinInterval <= w.end - w.start
        BY <1>1, <1>2, <3>1, <3>2 DEF IInv, WindowsBounded
      <3>4. (n - 1) * MinInterval <= w.start - range.start
        BY <1>1, <1>2, <3>1 DEF LastStartsFar
      <3>5. n * MinInterval = (n - 1) * MinInterval + MinInterval
            /\ (n - 1) * MinInterval \in Int
        BY <1>2, Z3
      <3> HIDE DEF n
      <3> QED
        BY <1>2, <3>2, <3>3, <3>4, <3>5, SMTT(30)
    <2> QED
      BY <2>1, <2>2
  <1> HIDE DEF n
  <1>6. (Len(windows') - 1) * MinInterval = n * MinInterval
    BY <1>2, <1>4
  <1> QED
    BY <1>1, <1>4, <1>5, <1>6 DEF LastStartsFar

\* A client does not make an export of countless batches, whatever interval
\* it asks for (selectBatchInterval clamps it to minBatchInterval).
THEOREM NeverTooMany == Spec => []NotTooMany
  <1>1. Init => LastStartsFar
    BY DEF Init, LastStartsFar
  <1>2. ASSUME IInv, LastStartsFar, [Next]_vars
        PROVE  LastStartsFar'
    <2>1. CASE OneWindow
      <3>1. UNCHANGED range /\ (range.end <= range.start \/ ~enabled')
        BY <2>1 DEF OneWindow, fixed
      <3>2. range.start \in Int /\ range.end \in Int
        BY <1>2, RangeAssumption DEF IInv, TypeOK
      <3> QED
        BY <3>1, <3>2 DEF LastStartsFar
    <2>2. CASE UNCHANGED <<range, enabled, windows>>
      BY <1>2, <2>2 DEF LastStartsFar
    <2> QED
      BY <1>2, <2>1, <2>2, CutWindowFar
         DEF Next, AllCut, QueryChunk, NextWindow, Finish, vars, fixed
  <1>3. IInv /\ LastStartsFar => NotTooMany
    <2> SUFFICES ASSUME IInv, LastStartsFar, enabled, range.start < range.end,
                        windows # <<>>
                 PROVE  (Len(windows) - 1) * MinInterval <= range.end - range.start
      BY DEF NotTooMany
    <2> PICK w : w = windows[Len(windows)]
      OBVIOUS
    <2>1. /\ range.start \in Int /\ range.end \in Int
          /\ Len(windows) \in Nat /\ Len(windows) \in 1..Len(windows) /\ w \in Window
      BY RangeAssumption DEF IInv, TypeOK
    <2>2. w.start < w.end /\ w.end <= range.end
      BY <2>1 DEF IInv, WindowsBounded, WindowsInside, Window
    <2> PICK k : k = (Len(windows) - 1) * MinInterval
      OBVIOUS
    <2>3. k <= w.start - range.start
      BY DEF LastStartsFar
    <2>4. k \in Int
      BY <2>1, IntervalAssumption, Z3
    <2>5. w.start \in Int /\ w.end \in Int
      BY <2>1 DEF Window
    <2> QED
      BY <2>1, <2>2, <2>3, <2>4, <2>5
  <1> QED
    BY <1>1, <1>2, <1>3, InductiveInvariant, PTL DEF Spec
=============================================================================
