-------------------------- MODULE ImportJobsProofs --------------------------
(***************************************************************************)
(* Proofs about ImportJobs, for any bundle, size of a chunk and number of  *)
(* goroutines: no line is lost over failures and resumes, whatever its     *)
(* line break; none is delivered twice where offsets are exact; and the    *)
(* temporary files are there as long as they are needed, and no longer.    *)
(*                                                                         *)
(* Where the lines of a bundle start is defined by recursion over them.    *)
(* What that function computes is proved from the least line for which it  *)
(* would fail.                                                             *)
(***************************************************************************)
EXTENDS ImportJobs, LeastNumber, FiniteSetTheorems, TLAPS

----------------------------------------------------------------------------
(* Where the lines of the bundle start.                                    *)

\* f is a table of the first n starts.
StartsUpTo(n, f) ==
    f = [i \in 1..n |-> IF i = 1 THEN 0 ELSE f[i - 1] + Size(i - 1)]

\* There is a table of any number of starts.
LEMMA StartsExist ==
    ASSUME NEW n \in Nat \ {0}
    PROVE  \E f : StartsUpTo(n, f)
  <1> DEFINE Without == {m \in Nat \ {0} : ~ \E f : StartsUpTo(m, f)}
  <1> SUFFICES ASSUME Without # {}
               PROVE  FALSE
    OBVIOUS
  <1>1. PICK m \in Without : \A k \in Without : m <= k
    BY Least
  <1>2. CASE m = 1
    <2>1. StartsUpTo(1, [i \in 1..1 |-> 0])
      BY DEF StartsUpTo
    <2>2. QED
      BY <1>2, <2>1
  <1>3. CASE m # 1
    <2>1. m - 1 \in Nat \ {0} /\ m - 1 \notin Without
      BY <1>1, <1>3
    <2>2. PICK f : StartsUpTo(m - 1, f)
      BY <2>1
    <2> DEFINE g == [i \in 1..m |-> IF i = m THEN f[m - 1] + Size(m - 1) ELSE f[i]]
    <2>3. ASSUME NEW i \in 1..m
          PROVE  g[i] = IF i = 1 THEN 0 ELSE g[i - 1] + Size(i - 1)
      <3>1. CASE i = m
        BY <1>3, <2>1, <3>1
      <3>2. CASE i # m
        <4>1. i \in 1..m - 1
          BY <2>1, <3>2
        <4>2. f[i] = IF i = 1 THEN 0 ELSE f[i - 1] + Size(i - 1)
          BY <2>2, <4>1 DEF StartsUpTo
        <4>3. i # 1 => i - 1 \in 1..m /\ i - 1 # m
          BY <4>1
        <4>4. QED
          BY <3>2, <4>2, <4>3
      <3>3. QED
        BY <3>1, <3>2
    <2>4. g = [i \in 1..m |-> g[i]]
      OBVIOUS
    <2> HIDE DEF g
    <2>5. StartsUpTo(m, g)
      BY <2>3, <2>4 DEF StartsUpTo
    <2>6. QED
      BY <2>5
  <1>4. QED
    BY <1>2, <1>3

\* The lines of a bundle; only the last may lack a break.
LEMMA BundleFacts ==
    ASSUME lines \in Bundles
    PROVE  /\ lines \in Seq(Line) /\ Len(lines) \in Nat
           /\ DOMAIN lines = 1..Len(lines)
           /\ \A i \in DOMAIN lines :
                /\ lines[i] \in Line /\ Size(i) \in Nat \ {0}
                /\ lines[i].lf = 0 => i = Len(lines)
  <1>1. lines \in Seq(Line)
    BY BundleAssumption
  <1>2. \A i \in DOMAIN lines : lines[i] \in Line
    BY <1>1
  <1>3. \A i \in 1..Len(lines) : lines[i].lf = 0 => i = Len(lines) /\ lines[i].chars > 0
    BY BundleAssumption
  <1>4. \A i \in DOMAIN lines : Size(i) \in Nat \ {0}
    BY <1>1, <1>2, <1>3 DEF Size, Line
  <1>5. QED
    BY <1>1, <1>2, <1>3, <1>4

\* LineStart is what its recursion says.
LEMMA StartFacts ==
    ASSUME lines \in Bundles
    PROVE  /\ LineStart[1] = 0
           /\ \A i \in DOMAIN lines : LineStart[i + 1] = LineStart[i] + Size(i)
           /\ \A i \in 1..Len(lines) + 1 : LineStart[i] \in Nat
  <1> DEFINE n == Len(lines) + 1
  <1>1. n \in Nat \ {0} /\ DOMAIN lines = 1..Len(lines)
    BY BundleFacts
  <1>2. LineStart = CHOOSE f : StartsUpTo(n, f)
    BY DEF LineStart, StartsUpTo
  <1>3. StartsUpTo(n, LineStart)
    BY <1>1, <1>2, StartsExist
  <1>4. \A i \in 1..n : LineStart[i] = IF i = 1 THEN 0 ELSE LineStart[i - 1] + Size(i - 1)
    BY <1>3 DEF StartsUpTo
  <1>5. \A i \in DOMAIN lines : LineStart[i + 1] = LineStart[i] + Size(i)
    BY <1>1, <1>4
  <1>6. \A i \in 1..n : LineStart[i] \in Nat
    <2> DEFINE Odd == {i \in 1..n : LineStart[i] \notin Nat}
    <2> SUFFICES ASSUME Odd # {}
                 PROVE  FALSE
      OBVIOUS
    <2>1. PICK i \in Odd : \A k \in Odd : i <= k
      <3>1. Odd \subseteq Nat
        BY <1>1
      <3> HIDE DEF Odd
      <3>2. QED
        BY <3>1, Least
    <2>2. i # 1
      BY <1>1, <1>4, <2>1
    <2>3. i - 1 \in 1..n /\ i - 1 \notin Odd /\ i - 1 \in DOMAIN lines
      BY <1>1, <2>1, <2>2
    <2>4. LineStart[i - 1] \in Nat /\ Size(i - 1) \in Nat
      BY <2>3, BundleFacts
    <2>5. LineStart[i] = LineStart[i - 1] + Size(i - 1)
      BY <1>4, <2>1, <2>2
    <2>6. QED
      BY <2>1, <2>4, <2>5
  <1>7. QED
    BY <1>1, <1>4, <1>5, <1>6

\* Lines start one after the other, all before the end of the file.
LEMMA StartsGrow ==
    ASSUME lines \in Bundles
    PROVE  /\ \A i, k \in 1..Len(lines) + 1 : i < k => LineStart[i] < LineStart[k]
           /\ \A i \in DOMAIN lines : LineStart[i] < EndOfFile
           /\ EndOfFile \in Nat
  <1> DEFINE n == Len(lines) + 1
  <1>1. n \in Nat \ {0} /\ DOMAIN lines = 1..Len(lines) /\ Len(lines) \in Nat
    BY BundleFacts
  <1>2. ASSUME NEW i \in 1..n, NEW m \in 1..n, i < m, ~(LineStart[i] < LineStart[m])
        PROVE  FALSE
    <2> DEFINE Lower == {k \in 1..n : i < k /\ ~(LineStart[i] < LineStart[k])}
    <2>1. PICK k \in Lower : \A l \in Lower : k <= l
      <3>1. Lower # {} /\ Lower \subseteq Nat
        BY <1>2
      <3>2. QED
        BY <3>1, Least
    <2>2. k - 1 \in DOMAIN lines /\ k - 1 \in 1..n /\ i <= k - 1 /\ k - 1 \notin Lower
      BY <1>1, <2>1
    <2>3. LineStart[(k - 1) + 1] = LineStart[k - 1] + Size(k - 1)
      BY <2>2, StartFacts
    <2>4. /\ LineStart[k - 1] \in Nat /\ LineStart[i] \in Nat
          /\ Size(k - 1) \in Nat \ {0}
      BY <2>2, StartFacts, BundleFacts
    <2>5. (k - 1) + 1 = k
      BY <2>1
    <2>6. LineStart[i] <= LineStart[k - 1]
      BY <2>2, <2>4
    <2>7. QED
      BY <2>1, <2>3, <2>4, <2>5, <2>6
  <1>3. \A i, k \in 1..n : i < k => LineStart[i] < LineStart[k]
    BY <1>2
  <1>4. EndOfFile = LineStart[n] /\ EndOfFile \in Nat
    BY <1>1, StartFacts DEF EndOfFile
  <1>5. QED
    BY <1>1, <1>3, <1>4

\* The line a position falls into.
LEMMA LineAtFacts ==
    ASSUME lines \in Bundles, NEW pos \in Nat, pos < EndOfFile
    PROVE  /\ LineAt(pos) \in DOMAIN lines
           /\ LineStart[LineAt(pos)] <= pos /\ pos < LineStart[LineAt(pos) + 1]
           /\ LineStart[LineAt(pos) + 1] = LineStart[LineAt(pos)] + Size(LineAt(pos))
           /\ LineStart[LineAt(pos) + 1] <= EndOfFile
  <1> DEFINE n == Len(lines) + 1
             Behind == {i \in 1..n : pos < LineStart[i]}
  <1>1. n \in Nat \ {0} /\ DOMAIN lines = 1..Len(lines) /\ Len(lines) \in Nat
    BY BundleFacts
  <1>2. n \in Behind /\ Behind \subseteq Nat
    BY <1>1 DEF EndOfFile
  <1>3. PICK m \in Behind : \A k \in Behind : m <= k
    BY <1>2, Least
  <1>4. m # 1
    BY <1>3, StartFacts
  <1>5. m - 1 \in 1..n /\ m - 1 \in DOMAIN lines /\ m - 1 \notin Behind /\ (m - 1) + 1 = m
    BY <1>1, <1>3, <1>4
  <1>6. LineStart[m - 1] \in Nat
    BY <1>5, StartFacts
  <1>7. LineStart[m - 1] <= pos /\ pos < LineStart[(m - 1) + 1]
    BY <1>3, <1>5, <1>6
  <1>8. \E i \in DOMAIN lines : LineStart[i] <= pos /\ pos < LineStart[i + 1]
    BY <1>5, <1>7
  <1>9. /\ LineAt(pos) \in DOMAIN lines
        /\ LineStart[LineAt(pos)] <= pos /\ pos < LineStart[LineAt(pos) + 1]
    BY <1>8 DEF LineAt
  <1>10. LineStart[LineAt(pos) + 1] <= EndOfFile
    <2>1. CASE LineAt(pos) + 1 = n
      BY <2>1, <1>1, StartsGrow DEF EndOfFile
    <2>2. CASE LineAt(pos) + 1 # n
      <3>1. LineAt(pos) + 1 \in DOMAIN lines
        BY <1>1, <1>9, <2>2
      <3>2. LineStart[LineAt(pos) + 1] \in Nat
        BY <1>1, <3>1, StartFacts
      <3>3. QED
        BY <3>1, <3>2, StartsGrow
    <2>3. QED
      BY <2>1, <2>2
  <1>11. QED
    BY <1>9, <1>10, StartFacts

\* What reading from pos counts: never more than it reads, but for a last
\* line without a break; never less where no line has a CR.
LEMMA CountedFacts ==
    ASSUME lines \in Bundles, NEW pos \in Nat, pos < EndOfFile
    PROVE  /\ Ahead(pos) \in Nat \ {0} /\ Counted(pos) \in Nat \ {0}
           /\ pos + Ahead(pos) = LineStart[LineAt(pos) + 1]
           /\ Counted(pos) <= Ahead(pos) \/ pos + Ahead(pos) = EndOfFile
           /\ Counted(pos) <= Ahead(pos) + 1
           /\ (\A i \in DOMAIN lines : lines[i].cr = 0) => Counted(pos) >= Ahead(pos)
  <1> DEFINE i == LineAt(pos)
  <1>1. /\ i \in DOMAIN lines /\ LineStart[i] <= pos /\ pos < LineStart[i + 1]
        /\ LineStart[i + 1] = LineStart[i] + Size(i)
    BY LineAtFacts
  <1>2. /\ LineStart[i] \in Nat /\ LineStart[i + 1] \in Nat
    BY <1>1, BundleFacts, StartFacts
  <1>3. Ahead(pos) = LineStart[i + 1] - pos
    BY DEF Ahead
  <1> HIDE DEF i
  <1>4. Ahead(pos) \in Nat \ {0} /\ pos + Ahead(pos) = LineStart[i + 1]
    BY <1>1, <1>2, <1>3
  <1>5. /\ lines[i] \in Line /\ lines[i].lf \in {0, 1} /\ lines[i].cr \in {0, 1}
        /\ lines[i].chars \in Nat /\ (lines[i].lf = 0 => i = Len(lines))
    BY <1>1, BundleFacts DEF Line
  <1>6. lines[i].lf = 0 => pos + Ahead(pos) = EndOfFile
    BY <1>4, <1>5 DEF EndOfFile
  <1>7. Counted(pos) = IF Ahead(pos) > lines[i].lf
                         THEN Ahead(pos) - lines[i].lf - lines[i].cr + 1 ELSE 1
    BY DEF Counted, i
  <1>8. QED
    BY <1>1, <1>4, <1>5, <1>6, <1>7 DEF i

----------------------------------------------------------------------------
(* The invariants.                                                         *)

Undelivered == {i \in Good : delivered[i] = 0}

\* A job that is over for good, and the file a resume of a bundle reads.
Final == job.state \in {"completed", "failed"} /\ ~job.ready
Extracted == IF zip THEN "metrics" ELSE "upload"

Early == {"spawned", "extracting"}
Reads == {"scanning", "posting"}

Bounds ==
    /\ job.offset <= EndOfFile + 1
    /\ \A r \in LiveRuns :
          /\ run[r].start <= EndOfFile + 1 /\ run[r].committed <= EndOfFile + 1
          /\ run[r].pos <= EndOfFile + 1 /\ run[r].chunkEnd <= EndOfFile + 1

\* One goroutine works, as the job's state says.
LifeInv ==
    /\ \A r, s \in Working : r = s
    /\ (\E r \in Working : TRUE) <=> job.state \in {"queued", "running"}
    /\ job.ready => job.state = "failed"
    /\ job.state = "absent" => /\ files = {} /\ LiveRuns = {}
                               /\ \A i \in DOMAIN lines : delivered[i] = 0

RunFiles(r) ==
    /\ run[r].temp \in files
    /\ run[r].temp = IF run[r].original THEN "upload" ELSE Extracted
    /\ IF run[r].at \in Early
         THEN run[r].original /\ zip => "metrics" \notin files
         ELSE /\ run[r].bundle = Extracted /\ job.bundle = Extracted
              /\ Extracted \in files

\* A goroutine that leaves removes files only of a job that is over for good;
\* what is left of such a job is about to be removed.
FileInv ==
    /\ ~zip => files \subseteq {"upload"}
    /\ \A r \in Working : RunFiles(r)
    /\ job.ready => job.bundle = Extracted /\ Extracted \in files
    /\ \A r \in LiveRuns \ Working : run[r].remove # {} => Final
    /\ Final => \A f \in files :
          \/ zip /\ resumed /\ f = "upload"
          \/ \E r \in LiveRuns \ Working : f \in run[r].remove

\* The upload of a zip stays from the first resume on: what works then reads
\* the file that was extracted, and removes no other.
UploadInv ==
    /\ job.state = "absent" => ~resumed
    /\ zip /\ (resumed \/ job.ready) => "upload" \in files
    /\ \A r \in Working : run[r].original <=> ~resumed
    /\ zip /\ resumed => \A r \in LiveRuns \ Working : "upload" \notin run[r].remove

\* Where a goroutine of position, offsets and chunk g stands, with what d
\* says the target has taken in: everything before it is delivered, or in
\* its chunk.
RunLines(g, d) ==
    LET open == {i \in Good : d[i] = 0} IN
    /\ \A i \in open : LineStart[i] >= g.committed
    /\ g.at \in Early \union {"opening"} =>
          g.committed = g.start /\ g.chunk = <<>> /\ g.chunkEnd = 0
    /\ g.at \in Reads =>
          /\ g.current <= g.pos \/ g.pos >= EndOfFile
          /\ g.chunkEnd <= g.pos \/ g.pos >= EndOfFile
          /\ \A i \in open :
                LineStart[i] >= g.pos \/ \E k \in DOMAIN g.chunk : g.chunk[k] = i
          /\ \A k \in DOMAIN g.chunk : LineStart[g.chunk[k]] < g.pos
          /\ \A k, l \in DOMAIN g.chunk : g.chunk[k] = g.chunk[l] => k = l
    /\ g.at = "scanning" => Len(g.chunk) < ChunkLines
    /\ g.at = "verifying" => open = {}

LineInv ==
    /\ job.ready => \A i \in Undelivered : LineStart[i] >= job.offset
    /\ job.state = "completed" => Undelivered = {}
    /\ \A r \in Working : RunLines(run[r], delivered)

IInv == TypeOK /\ Bounds /\ LifeInv /\ FileInv /\ UploadInv /\ LineInv

\* Offsets are exact: everything before them has been delivered, and once.
Exact == ~lossy /\ \A i \in DOMAIN lines : lines[i].cr = 0

RunExact(g, d) ==
    /\ \A i \in DOMAIN lines : d[i] >= 1 => LineStart[i] < g.committed
    /\ g.at = "posting" => g.chunk # <<>>
    /\ g.at \in Reads =>
          /\ g.pos <= g.current /\ g.chunkEnd <= g.current
          /\ g.committed <= g.pos \/ g.pos >= EndOfFile
          /\ \A k \in DOMAIN g.chunk : /\ g.committed <= LineStart[g.chunk[k]]
                                       /\ LineStart[g.chunk[k]] < g.chunkEnd

ExactInv == Exact =>
    /\ \A i \in DOMAIN lines : delivered[i] <= 1
    /\ job.ready => \A i \in DOMAIN lines : delivered[i] >= 1 => LineStart[i] < job.offset
    /\ \A r \in Working : RunExact(run[r], delivered)

----------------------------------------------------------------------------
(* What a step leaves alone.                                               *)

\* What is derived from the bundle is as fixed as the bundle.
LEMMA SameBundle ==
    ASSUME UNCHANGED lines
    PROVE  LineStart' = LineStart /\ EndOfFile' = EndOfFile /\ Good' = Good
  BY DEF LineStart, Size, EndOfFile, Good

\* A goroutine that exists is well-typed.
LEMMA LiveRunTyped ==
    ASSUME TypeOK, NEW r \in LiveRuns
    PROVE  run[r] \in Run /\ r \in RunId
  BY DEF TypeOK, LiveRuns, NoRunYet

\* The goroutine that works is the only one, and stays the only one.
LEMMA WorkerMoves ==
    ASSUME IInv, NEW r \in Working, NEW g, g.at # "none", run' = [run EXCEPT ![r] = g]
    PROVE  /\ run[r] \in Run /\ r \in RunId
           /\ run'[r] = g /\ \A x \in RunId \ {r} : run'[x] = run[x]
           /\ LiveRuns' = LiveRuns /\ Working = {r}
           /\ Working' = IF g.at = "leaving" THEN {} ELSE {r}
           /\ \A x \in LiveRuns \ Working : x \in LiveRuns' \ Working' /\ run'[x] = run[x]
           /\ \A x \in LiveRuns' \ Working' : x = r \/ x \in LiveRuns \ Working
  <1>1. r \in LiveRuns /\ r \in RunId /\ run[r] \in Run
    BY LiveRunTyped DEF Working, IInv
  <1>2. run'[r] = g /\ \A x \in RunId \ {r} : run'[x] = run[x]
    BY <1>1 DEF IInv, TypeOK
  <1>3. Working = {r}
    BY DEF IInv, LifeInv
  <1>4. LiveRuns' = LiveRuns
    BY <1>1, <1>2 DEF LiveRuns
  <1>5. Working' = IF g.at = "leaving" THEN {} ELSE {r}
    BY <1>2, <1>3, <1>4 DEF Working, LiveRuns
  <1>6. /\ \A x \in LiveRuns \ Working : x \in LiveRuns' \ Working' /\ run'[x] = run[x]
        /\ \A x \in LiveRuns' \ Working' : x = r \/ x \in LiveRuns \ Working
    BY <1>2, <1>3, <1>4, <1>5 DEF LiveRuns
  <1>7. QED
    BY <1>1, <1>2, <1>3, <1>4, <1>5, <1>6

InBounds(g) ==
    /\ g.start <= EndOfFile + 1 /\ g.committed <= EndOfFile + 1
    /\ g.pos <= EndOfFile + 1 /\ g.chunkEnd <= EndOfFile + 1

\* What TypeOK says beyond the types of the fields.
ChunkTyped(g) ==
    /\ g.chunk \in Seq(DOMAIN lines) /\ Len(g.chunk) <= ChunkLines
    /\ g.current <= EndOfFile + 1

\* A goroutine that goes on in bounds keeps the types and bounds.
LEMMA WorkerTyped ==
    ASSUME IInv, NEW r \in Working, NEW g \in Run, InBounds(g), ChunkTyped(g),
           run' = [run EXCEPT ![r] = g],
           UNCHANGED <<lines, zip, lossy, resumed>>, job' \in Job, files' \subseteq Temp,
           delivered' \in [DOMAIN lines -> Nat], job'.offset <= EndOfFile + 1
    PROVE  TypeOK' /\ Bounds'
  <1>1. g.at # "none"
    BY DEF Run
  <1>2. /\ run[r] \in Run /\ r \in RunId
        /\ run'[r] = g /\ \A x \in RunId \ {r} : run'[x] = run[x]
        /\ LiveRuns' = LiveRuns
    BY <1>1, WorkerMoves
  <1>3. EndOfFile' = EndOfFile
    BY SameBundle
  <1>4. run' \in [RunId -> Run \union {NoRunYet}]
    BY <1>2 DEF IInv, TypeOK
  <1>5. ASSUME NEW x \in LiveRuns'
        PROVE  /\ run'[x].chunk \in Seq(DOMAIN lines') /\ Len(run'[x].chunk) <= ChunkLines
               /\ run'[x].current <= EndOfFile' + 1
               /\ run'[x].start <= EndOfFile' + 1 /\ run'[x].committed <= EndOfFile' + 1
               /\ run'[x].pos <= EndOfFile' + 1 /\ run'[x].chunkEnd <= EndOfFile' + 1
    <2>1. x \in LiveRuns /\ x \in RunId
      BY <1>2 DEF LiveRuns
    <2>2. CASE x = r
      BY <1>2, <1>3, <2>2 DEF InBounds, ChunkTyped
    <2>3. CASE x # r
      BY <1>2, <1>3, <2>1, <2>3 DEF IInv, TypeOK, Bounds
    <2>4. QED
      BY <2>2, <2>3
  <1>6. TypeOK'
    BY <1>4, <1>5 DEF IInv, TypeOK
  <1>7. Bounds'
    BY <1>3, <1>5 DEF Bounds
  <1>8. QED
    BY <1>6, <1>7

\* A step that streams: only the goroutine and the target change.
LEMMA StreamStep ==
    ASSUME IInv, NEW r \in Working, UNCHANGED <<lines, zip, lossy, resumed, job, files>>,
           NEW g \in Run, run' = [run EXCEPT ![r] = g], InBounds(g), ChunkTyped(g),
           g.at # "leaving", g.at \notin Early, run[r].at \notin Early,
           g.temp = run[r].temp, g.original = run[r].original, g.bundle = run[r].bundle,
           delivered' \in [DOMAIN lines -> Nat],
           \A i \in DOMAIN lines : delivered'[i] >= delivered[i],
           RunLines(g, delivered')
    PROVE  IInv'
  <1>1. g.at # "none"
    BY DEF Run
  <1>2. /\ run[r] \in Run /\ r \in RunId
        /\ run'[r] = g /\ \A x \in RunId \ {r} : run'[x] = run[x]
        /\ LiveRuns' = LiveRuns /\ Working = {r} /\ Working' = {r}
        /\ \A x \in LiveRuns \ Working : x \in LiveRuns' \ Working' /\ run'[x] = run[x]
        /\ \A x \in LiveRuns' \ Working' : x \in LiveRuns \ Working
    BY <1>1, WorkerMoves
  <1>3. TypeOK' /\ Bounds'
    BY WorkerTyped DEF IInv, TypeOK, Bounds
  <1>4. job.state \in {"queued", "running"}
    BY DEF IInv, LifeInv
  <1>5. LifeInv'
    BY <1>2, <1>4 DEF IInv, LifeInv
  <1>6. FileInv'
    <2>1. RunFiles(r)'
      BY <1>2 DEF IInv, FileInv, RunFiles, Extracted
    <2>2. QED
      BY <1>2, <2>1 DEF IInv, FileInv, Final, Extracted
  <1>7. UploadInv'
    BY <1>2, <1>4 DEF IInv, UploadInv
  <1>8. LineInv'
    <2>1. RunLines(run[r], delivered)'
      BY <1>2, SameBundle DEF RunLines
    <2>2. ~job.ready /\ job.state # "completed"
      BY <1>4 DEF IInv, LifeInv
    <2>3. QED
      BY <1>2, <2>1, <2>2 DEF LineInv
  <1>9. QED
    BY <1>3, <1>5, <1>6, <1>7, <1>8 DEF IInv

----------------------------------------------------------------------------
(* The steps that stream the bundle.                                       *)

\* How often a chunk has a line.
LEMMA TimesFacts ==
    ASSUME NEW S, NEW chunk \in Seq(S), NEW i
    PROVE  /\ Times(i, chunk) \in Nat
           /\ Times(i, chunk) = 0 <=> \A k \in DOMAIN chunk : chunk[k] # i
           /\ (\A k, l \in DOMAIN chunk : chunk[k] = chunk[l] => k = l)
                => Times(i, chunk) <= 1
  <1> DEFINE At == {k \in DOMAIN chunk : chunk[k] = i}
  <1>1. IsFiniteSet(DOMAIN chunk)
    <2>1. Len(chunk) \in Nat /\ DOMAIN chunk = 1..Len(chunk)
      OBVIOUS
    <2>2. QED
      BY <2>1, FS_Interval
  <1>2. IsFiniteSet(At) /\ Cardinality(At) \in Nat
    BY <1>1, FS_Subset, FS_CardinalityType
  <1>3. Cardinality(At) = 0 <=> At = {}
    BY <1>2, FS_EmptySet
  <1>4. ASSUME \A k, l \in DOMAIN chunk : chunk[k] = chunk[l] => k = l, At # {}
        PROVE  Cardinality(At) = 1
    <2>1. PICK k \in At : TRUE
      BY <1>4
    <2>2. At = {k}
      BY <1>4, <2>1
    <2>3. QED
      BY <2>2, FS_Singleton
  <1>5. QED
    BY <1>2, <1>3, <1>4 DEF Times

\* Open keeps the invariant.
LEMMA OpenKeeps ==
    ASSUME IInv, NEW r \in RunId, Open(r)
    PROVE  IInv'
  <1> DEFINE g == [run[r] EXCEPT !.at = "scanning", !.pos = run[r].start,
                                 !.current = run[r].start]
  <1>1. r \in Working /\ run[r] \in Run /\ run[r].at = "opening"
    BY LiveRunTyped DEF Open, Working, LiveRuns, IInv
  <1>2. /\ g \in Run /\ g.at = "scanning" /\ g.pos = run[r].start
        /\ g.current = run[r].start /\ g.start = run[r].start
        /\ g.committed = run[r].committed /\ g.chunk = run[r].chunk
        /\ g.chunkEnd = run[r].chunkEnd /\ g.temp = run[r].temp
        /\ g.original = run[r].original /\ g.bundle = run[r].bundle
    BY <1>1 DEF Run
  <1>3. /\ run' = [run EXCEPT ![r] = g]
        /\ UNCHANGED <<lines, zip, lossy, resumed, job, files, delivered>>
    BY DEF Open
  <1> HIDE DEF g
  <1>4. RunLines(run[r], delivered)
    BY <1>1 DEF IInv, LineInv
  <1>5. /\ run[r].committed = run[r].start /\ run[r].chunk = <<>>
        /\ run[r].chunkEnd = 0 /\ run[r].start \in Nat
    BY <1>1, <1>4 DEF RunLines, Run
  <1>6. RunLines(g, delivered)
    BY <1>2, <1>4, <1>5, ChunkAssumption DEF RunLines, Early, Reads
  <1>7. InBounds(g) /\ ChunkTyped(g)
    BY <1>1, <1>2, <1>5 DEF IInv, Bounds, TypeOK, InBounds, ChunkTyped, Working
  <1>8. /\ delivered' \in [DOMAIN lines -> Nat] /\ delivered' = delivered
        /\ \A i \in DOMAIN lines : delivered'[i] >= delivered[i]
    BY <1>3 DEF IInv, TypeOK
  <1>9. g.at \notin Early /\ g.at # "leaving" /\ run[r].at \notin Early
    BY <1>1, <1>2 DEF Early
  <1>10. QED
    BY <1>1, <1>2, <1>3, <1>6, <1>7, <1>8, <1>9, StreamStep

\* A goroutine gives up, or finds that nothing is left to do.
LEMMA StreamGoto ==
    ASSUME IInv, NEW r \in Working, NEW stage \in {"failing", "posting", "verifying"},
           run[r].at \notin Early, Goto(r, stage),
           UNCHANGED <<lines, zip, lossy, resumed, job, files>>,
           delivered' \in [DOMAIN lines -> Nat],
           \A i \in DOMAIN lines : delivered'[i] >= delivered[i],
           stage = "posting" => run[r].at = "scanning" /\ UNCHANGED delivered,
           stage = "verifying" => \A i \in Good : delivered'[i] # 0
    PROVE  IInv'
  <1> DEFINE g == [run[r] EXCEPT !.at = stage]
  <1>1. run[r] \in Run
    BY LiveRunTyped DEF Working, IInv
  <1>2. /\ g \in Run /\ g.at = stage /\ g.pos = run[r].pos
        /\ g.current = run[r].current /\ g.start = run[r].start
        /\ g.committed = run[r].committed /\ g.chunk = run[r].chunk
        /\ g.chunkEnd = run[r].chunkEnd /\ g.temp = run[r].temp
        /\ g.original = run[r].original /\ g.bundle = run[r].bundle
    BY <1>1 DEF Run
  <1>3. run' = [run EXCEPT ![r] = g]
    BY DEF Goto
  <1> HIDE DEF g
  <1>4. RunLines(run[r], delivered)
    BY DEF IInv, LineInv
  <1>5. \A i \in Good : delivered'[i] = 0 => delivered[i] = 0
    BY DEF IInv, TypeOK, Good
  <1>6. RunLines(g, delivered')
    BY <1>2, <1>4, <1>5 DEF RunLines, Early, Reads
  <1>7. InBounds(g) /\ ChunkTyped(g)
    BY <1>2 DEF IInv, Bounds, TypeOK, InBounds, ChunkTyped, Working
  <1>8. QED
    BY <1>1, <1>2, <1>3, <1>6, <1>7, StreamStep DEF Early

\* ScanEnds keeps the invariant.
LEMMA ScanEndsKeeps ==
    ASSUME IInv, NEW r \in RunId, ScanEnds(r)
    PROVE  IInv'
  <1>1. r \in Working /\ run[r] \in Run /\ run[r].at = "scanning" /\ r \in LiveRuns
    BY LiveRunTyped DEF ScanEnds, Working, LiveRuns, IInv
  <1>2. \A i \in DOMAIN lines : delivered[i] \in Nat
    BY DEF IInv, TypeOK
  <1>3. ASSUME run[r].chunk = <<>>, NEW i \in Good
        PROVE  delivered[i] # 0
    <2>1. RunLines(run[r], delivered)
      BY <1>1 DEF IInv, LineInv
    <2>2. delivered[i] = 0 => LineStart[i] >= run[r].pos
      BY <1>1, <1>3, <2>1 DEF RunLines, Reads
    <2>3. /\ LineStart[i] < EndOfFile /\ run[r].pos >= EndOfFile
          /\ LineStart[i] \in Nat /\ EndOfFile \in Nat /\ run[r].pos \in Nat
      BY <1>1, BundleFacts, StartFacts, StartsGrow, SMTT(30)
      DEF ScanEnds, Good, IInv, TypeOK, Run
    <2>4. QED
      BY <2>2, <2>3
  <1>4. QED
    BY <1>1, <1>2, <1>3, StreamGoto DEF ScanEnds, Early, IInv, TypeOK

\* Appending to a sequence keeps what it holds.
LEMMA AppendFacts ==
    ASSUME NEW S, NEW seq \in Seq(S), NEW e \in S,
           NEW longer, longer = Append(seq, e)
    PROVE  /\ longer \in Seq(S)
           /\ Len(longer) = Len(seq) + 1 /\ longer[Len(longer)] = e
           /\ DOMAIN longer = 1..Len(longer) /\ Len(seq) \in Nat
           /\ \A k \in DOMAIN longer : k # Len(longer) =>
                k \in DOMAIN seq /\ longer[k] = seq[k]
           /\ \A k \in DOMAIN seq : k \in DOMAIN longer /\ longer[k] = seq[k]
  OBVIOUS

\* A line read is behind the next position, and only that line.
LEMMA OthersAhead ==
    ASSUME lines \in Bundles, NEW line \in DOMAIN lines, NEW pos \in Nat,
           LineStart[line] <= pos, NEW i \in DOMAIN lines,
           LineStart[i] >= pos, i # line
    PROVE  LineStart[i] >= LineStart[line + 1]
  <1>1. /\ DOMAIN lines = 1..Len(lines) /\ Len(lines) \in Nat
        /\ \A k \in 1..Len(lines) + 1 : LineStart[k] \in Nat
        /\ \A k, l \in 1..Len(lines) + 1 : k < l => LineStart[k] < LineStart[l]
    BY BundleFacts, StartFacts, StartsGrow
  <1>2. ~(i < line)
    BY <1>1
  <1>3. line + 1 <= i
    BY <1>1, <1>2
  <1>4. QED
    BY <1>1, <1>3

\* ScanLine keeps the invariant.
LEMMA ScanLineKeeps ==
    ASSUME IInv, NEW r \in RunId, ScanLine(r),
           NEW pos, pos = run[r].pos, NEW line, line = LineAt(pos),
           NEW read, read = pos + Ahead(pos),
           NEW counted, counted = run[r].current + Counted(pos)
    PROVE  IInv'
  <1> DEFINE longer == Append(run[r].chunk, line)
  <1>1. /\ r \in Working /\ run[r] \in Run /\ run[r].at = "scanning" /\ r \in LiveRuns
        /\ pos < EndOfFile
    BY LiveRunTyped DEF ScanLine, Working, LiveRuns, IInv
  <1>2. /\ lines \in Bundles /\ pos \in Nat /\ run[r].current \in Nat
        /\ DOMAIN lines = 1..Len(lines) /\ Len(lines) \in Nat
        /\ run[r].chunk \in Seq(DOMAIN lines) /\ run[r].chunkEnd \in Nat
    BY <1>1, BundleFacts DEF IInv, TypeOK, Run
  <1>3. RunLines(run[r], delivered)
    BY <1>1 DEF IInv, LineInv
  <1>4. /\ run[r].current <= pos /\ run[r].chunkEnd <= pos
        /\ Len(run[r].chunk) < ChunkLines
    BY <1>1, <1>2, <1>3, StartsGrow DEF RunLines, Reads
  <1>5. /\ line \in DOMAIN lines /\ line + 1 \in 1..Len(lines) + 1
        /\ LineStart[line] \in Nat /\ LineStart[line] <= pos
        /\ read = LineStart[line + 1] /\ pos < read /\ read <= EndOfFile
        /\ {read, counted, EndOfFile} \subseteq Nat
        /\ counted <= read \/ read >= EndOfFile
        /\ counted <= EndOfFile + 1
    \* It may run ahead of the file behind a last line without a break.
    <2> PICK current, ahead, more, start, next, end :
          /\ current = run[r].current /\ ahead = Ahead(pos) /\ more = Counted(pos)
          /\ start = LineStart[line] /\ next = LineStart[line + 1] /\ end = EndOfFile
      OBVIOUS
    <2>1. /\ line \in DOMAIN lines /\ start <= pos /\ pos < next /\ next <= end
      BY <1>1, <1>2, LineAtFacts
    <2>2. /\ ahead \in Nat \ {0} /\ more \in Nat \ {0} /\ read = next
          /\ more <= ahead \/ read = end
          /\ more <= ahead + 1
      BY <1>1, <1>2, CountedFacts
    <2>3. line + 1 \in 1..Len(lines) + 1
      BY <1>2, <2>1
    <2>4. start \in Nat /\ end \in Nat
      <3>1. line \in 1..Len(lines) + 1
        BY <1>2, <2>1
      <3>2. start \in Nat
        BY <1>2, <3>1, StartFacts
      <3>3. end \in Nat
        BY <1>2, StartsGrow
      <3>4. QED
        BY <3>2, <3>3
    <2>5. current \in Nat /\ current <= pos /\ counted = current + more /\ read = pos + ahead
      BY <1>2, <1>4
    <2>6. pos \in Nat
      BY <1>2
    <2>7. /\ read \in Nat /\ counted \in Nat /\ pos < read /\ read <= end
          /\ counted <= read \/ read >= end
          /\ counted <= end + 1
      BY ONLY <2>1, <2>2, <2>4, <2>5, <2>6
    <2>8. QED
      BY <2>1, <2>2, <2>3, <2>4, <2>7
  <1>6. \A i \in DOMAIN lines : LineStart[i] \in Nat
    BY <1>2, StartFacts
  <1>7. /\ longer \in Seq(DOMAIN lines) /\ longer \in Seq(Nat \ {0})
        /\ Len(longer) = Len(run[r].chunk) + 1 /\ longer[Len(longer)] = line
        /\ DOMAIN longer = 1..Len(longer)
        /\ \A k \in DOMAIN longer : k # Len(longer) =>
             k \in DOMAIN run[r].chunk /\ longer[k] = run[r].chunk[k]
        /\ \A k \in DOMAIN run[r].chunk : k \in DOMAIN longer /\ longer[k] = run[r].chunk[k]
    <2>1. \A i \in DOMAIN lines : i \in Nat \ {0}
      BY <1>2
    <2>2. run[r].chunk \in Seq(Nat \ {0}) /\ line \in Nat \ {0}
      BY <1>1, <1>5, <2>1 DEF Run
    <2> HIDE DEF longer
    <2>3. longer = Append(run[r].chunk, line)
      BY DEF longer
    <2>4. longer \in Seq(Nat \ {0})
      BY <2>2, <2>3, AppendFacts
    <2>5. longer \in Seq(DOMAIN lines)
      BY <1>2, <1>5, <2>3, AppendFacts
    <2>6. /\ Len(longer) = Len(run[r].chunk) + 1 /\ longer[Len(longer)] = line
          /\ DOMAIN longer = 1..Len(longer)
          /\ \A k \in DOMAIN longer : k # Len(longer) =>
               k \in DOMAIN run[r].chunk /\ longer[k] = run[r].chunk[k]
          /\ \A k \in DOMAIN run[r].chunk :
               k \in DOMAIN longer /\ longer[k] = run[r].chunk[k]
      <3> DEFINE chunk == run[r].chunk
                 S == Nat \ {0}
      <3>1. chunk \in Seq(S) /\ line \in S /\ longer = Append(chunk, line)
        BY <2>2, <2>3
      <3> HIDE DEF chunk, S
      <3>2. /\ Len(longer) = Len(chunk) + 1 /\ longer[Len(longer)] = line
            /\ DOMAIN longer = 1..Len(longer)
            /\ \A k \in DOMAIN longer : k # Len(longer) =>
                 k \in DOMAIN chunk /\ longer[k] = chunk[k]
            /\ \A k \in DOMAIN chunk : k \in DOMAIN longer /\ longer[k] = chunk[k]
        BY <3>1, AppendFacts
      <3>3. QED
        BY <3>2 DEF chunk
    <2>7. QED
      BY <2>4, <2>5, <2>6
  <1>8. \A i \in Good : delivered[i] = 0 =>
          LineStart[i] >= pos \/ \E k \in DOMAIN run[r].chunk : run[r].chunk[k] = i
    BY <1>1, <1>3 DEF RunLines, Reads
  <1>9. \A i \in Good : LineStart[i] >= pos => i = line \/ LineStart[i] >= read
    BY <1>2, <1>5, OthersAhead DEF Good
  <1>10. /\ \A k \in DOMAIN run[r].chunk : LineStart[run[r].chunk[k]] < pos
         /\ \A k, l \in DOMAIN run[r].chunk : run[r].chunk[k] = run[r].chunk[l] => k = l
    BY <1>1, <1>3 DEF RunLines, Reads
  <1>11. \A k \in DOMAIN run[r].chunk : LineStart[run[r].chunk[k]] < read
    <2>1. \A k \in DOMAIN run[r].chunk : run[r].chunk[k] \in DOMAIN lines
      BY <1>2, SMTT(30)
    <2>2. pos < read /\ pos \in Nat /\ read \in Nat
      BY <1>2, <1>5
    <2>3. QED
      BY <1>6, <1>10, <2>1, <2>2
  <1>12. /\ UNCHANGED <<lines, zip, lossy, resumed, job, files, delivered>>
         /\ delivered' \in [DOMAIN lines -> Nat]
         /\ \A i \in DOMAIN lines : delivered'[i] >= delivered[i]
         /\ run[r].at \notin Early
    BY <1>1 DEF ScanLine, Early, IInv, TypeOK
  <1>13. CASE Sent(pos)
    <2> DEFINE g == [run[r] EXCEPT
                      !.at = IF ChunkFull(longer) THEN "posting" ELSE "scanning",
                      !.pos = read, !.current = counted,
                      !.chunk = longer, !.chunkEnd = counted]
    <2> HIDE DEF longer
    <2>1. /\ g \in Run /\ g.pos = read
          /\ g.at = IF Len(longer) >= ChunkLines THEN "posting" ELSE "scanning"
          /\ g.current = counted /\ g.chunkEnd = counted /\ g.chunk = longer
          /\ g.start = run[r].start /\ g.committed = run[r].committed
          /\ g.temp = run[r].temp /\ g.original = run[r].original
          /\ g.bundle = run[r].bundle
      BY <1>1, <1>5, <1>7 DEF Run, ChunkFull
    <2>2. run' = [run EXCEPT ![r] = g]
      BY <1>13 DEF ScanLine, longer
    <2> HIDE DEF g
    <2>3. line \in Good /\ pos = LineStart[line]
      BY <1>5, <1>13 DEF Sent, Good
    <2>4. ASSUME NEW i \in Good, delivered'[i] = 0
          PROVE  LineStart[i] >= read \/ \E k \in DOMAIN longer : longer[k] = i
      <3>1. CASE i = line
        <4>1. Len(longer) \in DOMAIN longer
          BY <1>2, <1>7
        <4>2. QED
          BY <1>7, <3>1, <4>1
      <3>2. CASE i # line
        BY <1>7, <1>8, <1>9, <1>12, <2>4, <3>2
      <3>3. QED
        BY <3>1, <3>2
    <2>5. \A k \in DOMAIN longer : LineStart[longer[k]] < read
      <3>1. LineStart[line] < read
        BY <1>2, <1>5, SMTT(30)
      <3>2. QED
        BY <1>7, <1>11, <3>1
    <2>6. \A k, l \in DOMAIN longer : longer[k] = longer[l] => k = l
      <3>1. \A k \in DOMAIN run[r].chunk : run[r].chunk[k] # line
        BY <1>2, <1>10, <2>3
      <3>2. QED
        BY <1>7, <1>10, <3>1
    <2>7. RunLines(g, delivered')
      <3>1. \A i \in Good : delivered'[i] = 0 => LineStart[i] >= run[r].committed
        BY <1>3, <1>12 DEF RunLines
      <3>2. /\ g.at \in Reads
            /\ g.at = "scanning" => Len(g.chunk) < ChunkLines
        <4>1. Len(longer) \in Nat /\ ChunkLines \in Nat
          BY <1>7, ChunkAssumption
        <4>2. QED
          BY <2>1, <4>1 DEF Reads
      <3>3. /\ g.current <= g.pos \/ g.pos >= EndOfFile
            /\ g.chunkEnd <= g.pos \/ g.pos >= EndOfFile
        BY <1>5, <2>1
      <3>4. g.at \notin Early \union {"opening", "verifying"}
        BY <2>1 DEF Early
      <3>5. QED
        BY <2>1, <2>4, <2>5, <2>6, <3>1, <3>2, <3>3, <3>4 DEF RunLines
    <2>8. InBounds(g) /\ ChunkTyped(g)
      <3>1. read <= EndOfFile + 1 /\ counted <= EndOfFile + 1
        BY <1>5
      <3>2. InBounds(run[r])
        BY <1>1 DEF IInv, Bounds, InBounds
      <3>3. longer \in Seq(DOMAIN lines) /\ Len(longer) <= ChunkLines
        BY <1>2, <1>4, <1>7, ChunkAssumption
      <3>4. QED
        BY <2>1, <3>1, <3>2, <3>3 DEF InBounds, ChunkTyped
    <2>9. g.at \notin Early /\ g.at # "leaving"
      BY <2>1 DEF Early
    <2>10. QED
      BY <1>1, <1>12, <2>1, <2>2, <2>7, <2>8, <2>9, StreamStep
  <1>14. CASE ~Sent(pos)
    <2> DEFINE g == [run[r] EXCEPT !.pos = read, !.current = counted]
    <2>1. /\ g \in Run /\ g.pos = read /\ g.at = "scanning"
          /\ g.current = counted /\ g.chunkEnd = run[r].chunkEnd
          /\ g.chunk = run[r].chunk
          /\ g.start = run[r].start /\ g.committed = run[r].committed
          /\ g.temp = run[r].temp /\ g.original = run[r].original
          /\ g.bundle = run[r].bundle
      BY <1>1, <1>5 DEF Run
    <2>2. run' = [run EXCEPT ![r] = g]
      BY <1>14 DEF ScanLine
    <2> HIDE DEF g
    <2>3. ASSUME NEW i \in Good, delivered'[i] = 0
          PROVE  LineStart[i] >= read \/ \E k \in DOMAIN run[r].chunk : run[r].chunk[k] = i
      <3>1. CASE i = line /\ LineStart[i] >= pos
        <4>1. pos = LineStart[line] /\ lines[line].kind = "good"
          BY <1>2, <1>5, <3>1, SMTT(30) DEF Good
        <4>2. QED
          BY <1>14, <4>1 DEF Sent
      <3>2. CASE ~(i = line /\ LineStart[i] >= pos)
        BY <1>8, <1>9, <1>12, <2>3, <3>2
      <3>3. QED
        BY <3>1, <3>2
    <2>4. run[r].chunkEnd <= read
      BY <1>2, <1>4, <1>5, SMTT(30)
    <2>5. RunLines(g, delivered')
      <3>1. \A i \in Good : delivered'[i] = 0 => LineStart[i] >= run[r].committed
        BY <1>3, <1>12 DEF RunLines
      <3>2. g.at = "scanning" /\ Len(g.chunk) < ChunkLines
        BY <1>4, <2>1
      <3>3. /\ g.current <= g.pos \/ g.pos >= EndOfFile
            /\ g.chunkEnd <= g.pos
        BY <1>5, <2>1, <2>4
      <3>4. QED
        BY <1>10, <1>11, <2>1, <2>3, <3>1, <3>2, <3>3 DEF RunLines, Early, Reads
    <2>6. InBounds(g) /\ ChunkTyped(g)
      <3>1. read <= EndOfFile + 1 /\ counted <= EndOfFile + 1
        BY <1>5
      <3>2. /\ run[r].chunk \in Seq(DOMAIN lines) /\ Len(run[r].chunk) <= ChunkLines
            /\ InBounds(run[r])
        BY <1>1 DEF IInv, Bounds, TypeOK, InBounds
      <3>3. QED
        BY <2>1, <3>1, <3>2 DEF InBounds, ChunkTyped
    <2>7. g.at \notin Early /\ g.at # "leaving"
      BY <2>1 DEF Early
    <2>8. QED
      BY <1>1, <1>12, <2>1, <2>2, <2>5, <2>6, <2>7, StreamStep
  <1>15. QED
    BY <1>13, <1>14

\* What the target takes in it has; what it does not, stays as it was.
LEMMA TakeInFacts ==
    ASSUME IInv, NEW r \in LiveRuns, TakeIn(run[r].chunk)
    PROVE  /\ delivered' \in [DOMAIN lines -> Nat]
           /\ \A i \in DOMAIN lines :
                /\ delivered'[i] >= delivered[i]
                /\ delivered'[i] = delivered[i] + Times(i, run[r].chunk)
                /\ delivered'[i] = 0 =>
                     /\ delivered[i] = 0
                     /\ \A k \in DOMAIN run[r].chunk : run[r].chunk[k] # i
  <1>1. run[r].chunk \in Seq(DOMAIN lines) /\ delivered \in [DOMAIN lines -> Nat]
    BY DEF IInv, TypeOK
  <1>2. \A i \in DOMAIN lines : delivered'[i] = delivered[i] + Times(i, run[r].chunk)
    BY DEF TakeIn
  <1>3. \A i \in DOMAIN lines :
          /\ delivered[i] \in Nat /\ Times(i, run[r].chunk) \in Nat
          /\ Times(i, run[r].chunk) = 0 <=>
               \A k \in DOMAIN run[r].chunk : run[r].chunk[k] # i
    BY <1>1, TimesFacts
  <1>4. delivered' \in [DOMAIN lines -> Nat]
    BY <1>3 DEF TakeIn
  <1>5. QED
    BY <1>2, <1>3, <1>4

\* ChunkCommitted keeps the invariant.
LEMMA ChunkCommittedKeeps ==
    ASSUME IInv, NEW r \in RunId, ChunkCommitted(r)
    PROVE  IInv'
  <1> DEFINE g == [run[r] EXCEPT !.at = "scanning", !.chunk = <<>>,
                                 !.committed = run[r].chunkEnd]
  <1>1. r \in Working /\ run[r] \in Run /\ run[r].at = "posting" /\ r \in LiveRuns
    BY LiveRunTyped DEF ChunkCommitted, Working, LiveRuns, IInv
  <1>2. /\ g \in Run /\ g.at = "scanning" /\ g.pos = run[r].pos
        /\ g.current = run[r].current /\ g.start = run[r].start
        /\ g.committed = run[r].chunkEnd /\ g.chunk = <<>>
        /\ g.chunkEnd = run[r].chunkEnd /\ g.temp = run[r].temp
        /\ g.original = run[r].original /\ g.bundle = run[r].bundle
    <2>1. <<>> \in Seq(Nat \ {0}) /\ run[r].chunkEnd \in Nat
      BY <1>1 DEF Run
    <2>2. QED
      BY <1>1, <2>1 DEF Run
  <1>3. run' = [run EXCEPT ![r] = g] /\ UNCHANGED <<lines, zip, lossy, resumed, job, files>>
    BY DEF ChunkCommitted
  <1> HIDE DEF g
  <1>4. RunLines(run[r], delivered)
    BY <1>1 DEF IInv, LineInv
  <1>5. /\ delivered' \in [DOMAIN lines -> Nat]
        /\ \A i \in DOMAIN lines : delivered'[i] >= delivered[i]
        /\ \A i \in DOMAIN lines : delivered'[i] = 0 =>
             /\ delivered[i] = 0
             /\ \A k \in DOMAIN run[r].chunk : run[r].chunk[k] # i
    BY <1>1, TakeInFacts DEF ChunkCommitted
  <1>6. /\ run[r].current <= run[r].pos \/ run[r].pos >= EndOfFile
        /\ run[r].chunkEnd <= run[r].pos \/ run[r].pos >= EndOfFile
        /\ \A i \in Good : delivered[i] = 0 =>
             LineStart[i] >= run[r].pos \/ \E k \in DOMAIN run[r].chunk : run[r].chunk[k] = i
    BY <1>1, <1>4 DEF RunLines, Reads
  <1>7. ASSUME NEW i \in Good, delivered'[i] = 0
        PROVE  LineStart[i] >= run[r].pos /\ LineStart[i] >= run[r].chunkEnd
    <2>1. LineStart[i] >= run[r].pos
      BY <1>5, <1>6, <1>7 DEF Good
    <2>2. /\ LineStart[i] < EndOfFile /\ LineStart[i] \in Nat
          /\ EndOfFile \in Nat /\ run[r].pos \in Nat /\ run[r].chunkEnd \in Nat
      BY <1>1, BundleFacts, StartFacts, StartsGrow DEF Good, IInv, TypeOK, Run
    <2>3. QED
      BY <1>6, <2>1, <2>2
  <1>8. RunLines(g, delivered')
    BY <1>2, <1>6, <1>7, ChunkAssumption DEF RunLines, Early, Reads
  <1>9. InBounds(g) /\ ChunkTyped(g)
    <2>1. InBounds(run[r]) /\ run[r].current <= EndOfFile + 1
      BY <1>1 DEF IInv, Bounds, TypeOK, InBounds
    <2>2. QED
      BY <1>2, <2>1, ChunkAssumption DEF InBounds, ChunkTyped
  <1>10. g.at \notin Early /\ g.at # "leaving" /\ run[r].at \notin Early
    BY <1>1, <1>2 DEF Early
  <1>11. QED
    BY <1>1, <1>2, <1>3, <1>5, <1>8, <1>9, <1>10, StreamStep

\* StreamFails keeps the invariant.
LEMMA StreamFailsKeeps ==
    ASSUME IInv, NEW r \in RunId,
           OpenFails(r) \/ ScanFails(r) \/ ChunkRejected(r) \/ ChunkUnanswered(r)
    PROVE  IInv'
  <1>1. /\ r \in Working /\ r \in LiveRuns
        /\ run[r].at \notin Early /\ Goto(r, "failing")
        /\ UNCHANGED <<lines, zip, lossy, resumed, job, files>>
    BY DEF OpenFails, ScanFails, ChunkRejected, ChunkUnanswered,
           Working, LiveRuns, Early
  <1>2. /\ delivered' \in [DOMAIN lines -> Nat]
        /\ \A i \in DOMAIN lines : delivered'[i] >= delivered[i]
    <2>1. CASE UNCHANGED delivered
      BY <2>1 DEF IInv, TypeOK
    <2>2. CASE TakeIn(run[r].chunk)
      BY <1>1, <2>2, TakeInFacts
    <2>3. QED
      BY <2>1, <2>2 DEF OpenFails, ScanFails, ChunkRejected, ChunkUnanswered
  <1>3. QED
    BY <1>1, <1>2, StreamGoto

----------------------------------------------------------------------------
(* The steps that start, prepare, end and leave.                           *)

\* The chunk a goroutine starts with.
LEMMA EmptyChunk ==
    <<>> \in Seq(DOMAIN lines) /\ Len(<<>>) <= ChunkLines
  BY ChunkAssumption

\* Upload keeps the invariant.
LEMMA UploadKeeps ==
    ASSUME IInv, NEW r \in RunId, Upload(r)
    PROVE  IInv'
  <1> DEFINE g == Spawned("upload", TRUE, 0)
  <1>1. /\ job.state = "absent" /\ files = {} /\ LiveRuns = {} /\ Working = {}
        /\ ~job.ready /\ job \in Job
    BY DEF Upload, IInv, LifeInv, Working, TypeOK
  <1>2. /\ g \in Run /\ g.at = "spawned" /\ g.temp = "upload" /\ g.original = TRUE
        /\ g.chunk = <<>> /\ g.committed = 0 /\ g.start = 0 /\ g.pos = 0
        /\ g.chunkEnd = 0 /\ g.current = 0
    BY DEF Spawned, Run, Temp
  <1> HIDE DEF g
  <1>3. run'[r] = g /\ \A x \in RunId \ {r} : run'[x] = run[x]
    BY DEF Upload, IInv, TypeOK, g
  <1>4. /\ job' \in Job /\ job'.state = "queued" /\ job'.ready = FALSE
        /\ job'.offset = job.offset /\ files' = {"upload"}
    BY <1>1 DEF Upload, Job
  <1>5. /\ LiveRuns' = {r} /\ Working' = {r}
        /\ run' \in [RunId -> Run \union {NoRunYet}]
    BY <1>1, <1>2, <1>3 DEF LiveRuns, Working, Upload, IInv, TypeOK, g
  <1>6. UNCHANGED <<lines, zip, lossy, resumed, delivered>> /\ EndOfFile' = EndOfFile
        /\ EndOfFile \in Nat
    BY SameBundle, StartsGrow DEF Upload, IInv, TypeOK
  <1>7. TypeOK' /\ Bounds'
    <2>1. InBounds(g) /\ ChunkTyped(g)
      BY <1>2, <1>6, EmptyChunk DEF InBounds, ChunkTyped
    <2>2. InBounds(run'[r]) /\ ChunkTyped(run'[r])
      BY <1>3, <2>1
    <2>3. QED
      BY <1>4, <1>5, <1>6, <2>2 DEF TypeOK, Bounds, IInv, InBounds, ChunkTyped, Temp
  <1>8. LifeInv'
    BY <1>4, <1>5 DEF LifeInv
  <1>9. FileInv'
    BY <1>2, <1>3, <1>4, <1>5 DEF FileInv, RunFiles, Early, Final, Extracted
  <1>10. UploadInv'
    BY <1>1, <1>2, <1>3, <1>4, <1>5, <1>6 DEF IInv, UploadInv
  <1>11. RunLines(run[r], delivered)'
    <2>1. \A i \in Good' : LineStart'[i] >= 0
      BY <1>6, SameBundle, StartFacts, BundleFacts DEF IInv, TypeOK, Good
    <2>2. QED
      BY <1>2, <1>3, <2>1 DEF RunLines, Early, Reads
  <1>12. LineInv'
    BY <1>4, <1>5, <1>11 DEF LineInv
  <1>13. QED
    BY <1>7, <1>8, <1>9, <1>10, <1>12 DEF IInv

\* ResumeJob keeps the invariant.
LEMMA ResumeJobKeeps ==
    ASSUME IInv, NEW r \in RunId, ResumeJob(r)
    PROVE  IInv'
  <1> DEFINE g == Spawned(job.bundle, FALSE, job.offset)
  <1>1. /\ job.ready /\ job.state = "failed" /\ Working = {}
        /\ job \in Job /\ job.bundle = Extracted /\ Extracted \in files
        /\ run[r].at = "none"
    BY DEF ResumeJob, IInv, LifeInv, TypeOK, FileInv
  <1>2. /\ g \in Run /\ g.at = "spawned" /\ g.temp = Extracted /\ g.original = FALSE
        /\ g.chunk = <<>> /\ g.committed = job.offset /\ g.start = job.offset
        /\ g.pos = 0 /\ g.chunkEnd = 0 /\ g.current = 0
    BY <1>1 DEF Spawned, Run, Temp, Job, Extracted
  <1> HIDE DEF g
  <1>3. run'[r] = g /\ \A x \in RunId \ {r} : run'[x] = run[x]
    BY DEF ResumeJob, IInv, TypeOK, g
  <1>4. /\ job' \in Job /\ job'.state = "queued" /\ job'.ready = FALSE
        /\ job'.offset = job.offset /\ files' = files
    BY <1>1 DEF ResumeJob, Job
  <1>5. /\ LiveRuns' = LiveRuns \union {r} /\ Working' = {r} /\ r \notin LiveRuns
        /\ \A x \in LiveRuns : x \in LiveRuns \ Working /\ run'[x] = run[x]
        /\ run' \in [RunId -> Run \union {NoRunYet}]
    BY <1>1, <1>2, <1>3 DEF LiveRuns, Working, ResumeJob, IInv, TypeOK, g
  <1>6. UNCHANGED <<lines, zip, lossy, delivered>> /\ EndOfFile' = EndOfFile /\ resumed' = TRUE
        /\ EndOfFile \in Nat
    BY SameBundle, StartsGrow DEF ResumeJob, IInv, TypeOK
  <1>7. TypeOK' /\ Bounds'
    <2>1. ASSUME NEW x \in LiveRuns'
          PROVE  InBounds(run'[x]) /\ ChunkTyped(run'[x])
      <3>1. CASE x = r
        <4>1. job.offset <= EndOfFile + 1
          BY DEF IInv, Bounds
        <4>2. InBounds(g) /\ ChunkTyped(g)
          BY <1>2, <1>6, <4>1, EmptyChunk DEF InBounds, ChunkTyped
        <4>3. QED
          BY <1>3, <3>1, <4>2
      <3>2. CASE x # r
        BY <1>5, <3>2 DEF InBounds, ChunkTyped, IInv, Bounds, TypeOK
      <3>3. QED
        BY <3>1, <3>2
    <2>2. QED
      BY <1>4, <1>5, <1>6, <2>1 DEF TypeOK, Bounds, IInv, InBounds, ChunkTyped
  <1>8. LifeInv'
    BY <1>4, <1>5 DEF LifeInv
  <1>9. FileInv'
    <2>1. \A x \in LiveRuns \ Working : run[x].remove = {}
      BY <1>1 DEF IInv, FileInv, Final
    <2>2. RunFiles(r)'
      BY <1>1, <1>2, <1>3, <1>4, <1>6 DEF RunFiles, Early, Extracted
    <2>3. QED
      BY <1>4, <1>5, <1>6, <2>1, <2>2 DEF FileInv, IInv, Final, Extracted
  <1>10. UploadInv'
    <2>1. \A x \in LiveRuns \ Working : run[x].remove = {}
      BY <1>1 DEF IInv, FileInv, Final
    <2>2. zip => "upload" \in files
      BY <1>1 DEF IInv, UploadInv
    <2>3. QED
      BY <1>1, <1>2, <1>3, <1>4, <1>5, <1>6, <2>1, <2>2 DEF UploadInv
  <1>11. RunLines(run[r], delivered)'
    <2>1. \A i \in Good' : delivered'[i] = 0 => LineStart'[i] >= job.offset
      BY <1>1, <1>6, SameBundle DEF IInv, LineInv, Undelivered
    <2>2. QED
      BY <1>2, <1>3, <2>1 DEF RunLines, Early, Reads
  <1>12. LineInv'
    BY <1>4, <1>5, <1>11 DEF LineInv
  <1>13. QED
    BY <1>7, <1>8, <1>9, <1>10, <1>12 DEF IInv

\* The goroutine goes on without streaming: it stands where it stood.
LEMMA SameStand ==
    ASSUME IInv, NEW r \in Working, NEW g \in Run,
           g.start = run[r].start, g.committed = run[r].committed,
           g.pos = run[r].pos, g.current = run[r].current,
           g.chunk = run[r].chunk, g.chunkEnd = run[r].chunkEnd
    PROVE  InBounds(g) /\ ChunkTyped(g)
  BY DEF IInv, Bounds, TypeOK, InBounds, ChunkTyped, Working

\* Begin keeps the invariant.
LEMMA BeginKeeps ==
    ASSUME IInv, NEW r \in RunId, Begin(r)
    PROVE  IInv'
  <1> DEFINE g == [run[r] EXCEPT !.at = "extracting"]
  <1>1. r \in Working /\ run[r] \in Run /\ run[r].at = "spawned" /\ r \in LiveRuns
    BY LiveRunTyped DEF Begin, Working, LiveRuns, IInv
  <1>2. /\ g \in Run /\ g.at = "extracting" /\ g.start = run[r].start
        /\ g.committed = run[r].committed /\ g.pos = run[r].pos
        /\ g.current = run[r].current /\ g.chunk = run[r].chunk
        /\ g.chunkEnd = run[r].chunkEnd /\ g.temp = run[r].temp
        /\ g.original = run[r].original
    BY <1>1 DEF Run
  <1>3. /\ run' = [run EXCEPT ![r] = g]
        /\ UNCHANGED <<lines, zip, lossy, resumed, files, delivered>>
    BY DEF Begin, Goto
  <1> HIDE DEF g
  <1>4. /\ run'[r] = g /\ Working = {r} /\ Working' = {r} /\ LiveRuns' = LiveRuns
        /\ \A x \in LiveRuns \ Working : x \in LiveRuns' \ Working' /\ run'[x] = run[x]
        /\ \A x \in LiveRuns' \ Working' : x \in LiveRuns \ Working
    BY <1>1, <1>2, <1>3, WorkerMoves
  <1>5. /\ job' \in Job /\ job'.state = "running" /\ job'.ready = FALSE
        /\ job'.offset = run[r].start
    BY <1>1 DEF Begin, Job, Run
  <1>6. TypeOK' /\ Bounds'
    <2>1. run[r].start <= EndOfFile + 1
      BY <1>1 DEF IInv, Bounds
    <2>2. InBounds(g) /\ ChunkTyped(g)
      BY <1>1, <1>2, SameStand
    <2>3. files' \subseteq Temp /\ delivered' \in [DOMAIN lines -> Nat]
      BY <1>3 DEF IInv, TypeOK
    <2>4. QED
      BY <1>1, <1>2, <1>3, <1>5, <2>1, <2>2, <2>3, WorkerTyped
  <1>7. LifeInv'
    BY <1>4, <1>5 DEF LifeInv
  <1>8. ~Final
    BY <1>1 DEF IInv, LifeInv, Final
  <1>9. FileInv'
    <2>1. RunFiles(r)'
      BY <1>1, <1>2, <1>3, <1>4 DEF IInv, FileInv, RunFiles, Early, Extracted
    <2>2. QED
      BY <1>3, <1>4, <1>5, <1>8, <2>1 DEF IInv, FileInv, Final
  <1>10. UploadInv'
    BY <1>1, <1>2, <1>3, <1>4, <1>5 DEF IInv, UploadInv
  <1>11. LineInv'
    <2>1. RunLines(run[r], delivered)
      BY <1>1 DEF IInv, LineInv
    <2>2. RunLines(run[r], delivered)'
      BY <1>1, <1>2, <1>3, <1>4, <2>1, SameBundle DEF RunLines, Early, Reads
    <2>3. QED
      BY <1>4, <1>5, <2>2 DEF LineInv
  <1>12. QED
    BY <1>6, <1>7, <1>9, <1>10, <1>11 DEF IInv

\* PrepareBundle keeps the invariant.
LEMMA PrepareBundleKeeps ==
    ASSUME IInv, NEW r \in RunId, PrepareBundle(r)
    PROVE  IInv'
  <1> DEFINE g == [run[r] EXCEPT !.at = "opening", !.bundle = Extracted]
  <1>1. r \in Working /\ run[r] \in Run /\ run[r].at = "extracting" /\ r \in LiveRuns
    BY LiveRunTyped DEF PrepareBundle, Working, LiveRuns, IInv
  <1>2. /\ g \in Run /\ g.at = "opening" /\ g.start = run[r].start
        /\ g.committed = run[r].committed /\ g.pos = run[r].pos
        /\ g.current = run[r].current /\ g.chunk = run[r].chunk
        /\ g.chunkEnd = run[r].chunkEnd /\ g.temp = run[r].temp
        /\ g.original = run[r].original /\ g.bundle = Extracted
    BY <1>1 DEF Run, Extracted, Temp
  <1>3. RunFiles(r) /\ run[r].temp \in files
    BY <1>1 DEF IInv, FileInv, RunFiles
  <1>4. (IF zip /\ run[r].original THEN "metrics" ELSE run[r].temp) = Extracted
    BY <1>1, <1>3 DEF RunFiles, Extracted, Run
  <1>5. /\ run' = [run EXCEPT ![r] = g]
        /\ files' = files \union {Extracted}
        /\ job' = [job EXCEPT !.bundle = Extracted]
        /\ UNCHANGED <<lines, zip, lossy, resumed, delivered>>
    BY <1>4 DEF PrepareBundle
  <1> HIDE DEF g
  <1>6. /\ run'[r] = g /\ Working = {r} /\ Working' = {r} /\ LiveRuns' = LiveRuns
        /\ \A x \in LiveRuns \ Working : x \in LiveRuns' \ Working' /\ run'[x] = run[x]
        /\ \A x \in LiveRuns' \ Working' : x \in LiveRuns \ Working
    BY <1>1, <1>2, <1>5, WorkerMoves
  <1>7. job.state \in {"queued", "running"} /\ ~job.ready /\ job \in Job
    BY <1>1 DEF IInv, LifeInv, TypeOK
  <1>8. /\ job' \in Job /\ job'.state = job.state /\ job'.ready = job.ready
        /\ job'.offset = job.offset /\ job'.bundle = Extracted
    BY <1>5, <1>7 DEF Job, Extracted, Temp
  <1>9. TypeOK' /\ Bounds'
    <2>1. InBounds(g) /\ ChunkTyped(g) /\ job.offset <= EndOfFile + 1
      BY <1>1, <1>2, SameStand DEF IInv, Bounds
    <2>2. files' \subseteq Temp /\ delivered' \in [DOMAIN lines -> Nat]
      BY <1>5 DEF IInv, TypeOK, Extracted, Temp
    <2>3. QED
      BY <1>1, <1>2, <1>5, <1>8, <2>1, <2>2, WorkerTyped
  <1>10. LifeInv'
    BY <1>6, <1>7, <1>8 DEF LifeInv
  <1>11. FileInv'
    <2>1. Extracted' = Extracted
      BY <1>5 DEF Extracted
    <2>2. RunFiles(r)'
      BY <1>2, <1>3, <1>5, <1>6, <1>8, <2>1 DEF RunFiles, Early
    <2>3. ~zip => files' \subseteq {"upload"}
      BY <1>5 DEF IInv, FileInv, Extracted
    <2>4. QED
      BY <1>5, <1>6, <1>7, <1>8, <2>2, <2>3 DEF IInv, FileInv, Final
  <1>12. UploadInv'
    BY <1>1, <1>2, <1>5, <1>6, <1>7, <1>8 DEF IInv, UploadInv
  <1>13. LineInv'
    <2>1. RunLines(run[r], delivered)
      BY <1>1 DEF IInv, LineInv
    <2>2. RunLines(run[r], delivered)'
      BY <1>1, <1>2, <1>5, <1>6, <2>1, SameBundle DEF RunLines, Early, Reads
    <2>3. QED
      BY <1>6, <1>7, <1>8, <2>2 DEF LineInv
  <1>14. QED
    BY <1>9, <1>10, <1>11, <1>12, <1>13 DEF IInv

\* A goroutine is done with its job and has only to leave.
LEMMA QuitKeeps ==
    ASSUME IInv, NEW r \in Working, NEW remove \in SUBSET Temp, Quit(r, remove),
           UNCHANGED <<lines, zip, lossy, resumed, files, delivered>>,
           job' \in Job, job'.offset <= EndOfFile + 1,
           job'.state \in {"completed", "failed"},
           job'.ready => /\ job'.state = "failed" /\ remove = {}
                         /\ job'.bundle = Extracted /\ Extracted \in files
                         /\ \A i \in Undelivered : LineStart[i] >= job'.offset,
           ~job'.ready => \A f \in files : (zip /\ resumed /\ f = "upload") \/ f \in remove,
           zip /\ job'.ready => "upload" \in files,
           zip /\ resumed => "upload" \notin remove,
           job'.state = "completed" => Undelivered = {}
    PROVE  IInv'
  <1> DEFINE g == [run[r] EXCEPT !.at = "leaving", !.remove = remove]
  <1>1. run[r] \in Run /\ r \in LiveRuns /\ r \in RunId
    BY LiveRunTyped DEF Working, IInv
  <1>2. /\ g \in Run /\ g.at = "leaving" /\ g.remove = remove
        /\ g.start = run[r].start /\ g.committed = run[r].committed
        /\ g.pos = run[r].pos /\ g.current = run[r].current
        /\ g.chunk = run[r].chunk /\ g.chunkEnd = run[r].chunkEnd
    BY <1>1 DEF Run
  <1>3. run' = [run EXCEPT ![r] = g]
    BY DEF Quit
  <1> HIDE DEF g
  <1>4. /\ run'[r] = g /\ Working = {r} /\ Working' = {} /\ LiveRuns' = LiveRuns
        /\ \A x \in LiveRuns \ Working : x \in LiveRuns' \ Working' /\ run'[x] = run[x]
        /\ \A x \in LiveRuns' \ Working' : x = r \/ x \in LiveRuns \ Working
    BY <1>2, <1>3, WorkerMoves, ZenonT(30)
  <1>5. TypeOK' /\ Bounds'
    <2>1. InBounds(g) /\ ChunkTyped(g)
      BY <1>2, SameStand
    <2>2. files' \subseteq Temp /\ delivered' \in [DOMAIN lines -> Nat]
      BY DEF IInv, TypeOK
    <2>3. QED
      BY <1>2, <1>3, <2>1, <2>2, WorkerTyped
  <1>6. LifeInv'
    BY <1>4 DEF LifeInv
  <1>7. FileInv'
    <2>1. \A x \in LiveRuns \ Working : run[x].remove = {}
      BY DEF IInv, FileInv, LifeInv, Final
    <2>2. Extracted' = Extracted
      BY DEF Extracted
    <2>3. \A x \in LiveRuns' \ Working' : run'[x].remove # {} => Final'
      BY <1>2, <1>4, <2>1 DEF Final
    <2>4. Final' => \A f \in files' :
            \/ zip /\ resumed /\ f = "upload"
            \/ \E x \in LiveRuns' \ Working' : f \in run'[x].remove
      BY <1>1, <1>2, <1>4 DEF Final
    <2>5. QED
      BY <1>4, <2>2, <2>3, <2>4 DEF IInv, FileInv
  <1>8. UploadInv'
    BY <1>2, <1>4 DEF IInv, UploadInv
  <1>9. LineInv'
    BY <1>4, SameBundle DEF LineInv, Undelivered
  <1>10. QED
    BY <1>5, <1>6, <1>7, <1>8, <1>9 DEF IInv

\* PrepareFails keeps the invariant.
LEMMA PrepareFailsKeeps ==
    ASSUME IInv, NEW r \in RunId, PrepareFails(r)
    PROVE  IInv'
  <1>1. r \in Working /\ run[r] \in Run /\ run[r].at = "extracting"
    BY LiveRunTyped DEF PrepareFails, Working, LiveRuns, IInv
  <1>2. ~job.ready /\ job \in Job /\ job.offset <= EndOfFile + 1
    BY <1>1 DEF IInv, LifeInv, TypeOK, Bounds
  <1>3. /\ job' \in Job /\ job'.state = "failed" /\ ~job'.ready
        /\ job'.offset = job.offset
    BY <1>2 DEF PrepareFails, Job
  <1>4. RunFiles(r) /\ (~zip => files \subseteq {"upload"}) /\ files \subseteq Temp
    BY <1>1 DEF IInv, FileInv, TypeOK
  <1>5. /\ run[r].original <=> ~resumed
        /\ zip /\ resumed => run[r].temp = "metrics"
    BY <1>1, <1>4 DEF IInv, UploadInv, RunFiles, Extracted
  <1>6. \A f \in files : (zip /\ resumed /\ f = "upload") \/ f = run[r].temp
    BY <1>1, <1>4, <1>5 DEF RunFiles, Early, Extracted, Temp, Run
  <1>7. run[r].temp \in Temp
    BY <1>1 DEF Run
  <1>8. QED
    BY <1>1, <1>2, <1>3, <1>5, <1>6, <1>7, QuitKeeps DEF PrepareFails

\* FailImport keeps the invariant.
LEMMA FailImportKeeps ==
    ASSUME IInv, NEW r \in RunId, FailImport(r)
    PROVE  IInv'
  <1>1. r \in Working /\ run[r] \in Run /\ run[r].at = "failing" /\ r \in LiveRuns
    BY LiveRunTyped DEF FailImport, Working, LiveRuns, IInv
  <1>2. run[r].committed \in Nat /\ run[r].committed <= EndOfFile + 1 /\ job \in Job
    BY <1>1 DEF IInv, TypeOK, Bounds, Run
  <1>3. /\ job' \in Job /\ job'.state = "failed" /\ job'.ready = TRUE
        /\ job'.offset = run[r].committed /\ job'.bundle = job.bundle
    BY <1>2 DEF FailImport, ProcessedBytes, Job
  <1>4. job.bundle = Extracted /\ Extracted \in files
    BY <1>1 DEF IInv, FileInv, RunFiles, Early
  <1>5. \A i \in Undelivered : LineStart[i] >= run[r].committed
    BY <1>1 DEF IInv, LineInv, RunLines, Undelivered
  <1>6. zip => "upload" \in files
    BY <1>1 DEF IInv, FileInv, UploadInv, RunFiles
  <1>7. QED
    BY <1>1, <1>2, <1>3, <1>4, <1>5, <1>6, QuitKeeps DEF FailImport

\* Complete keeps the invariant.
LEMMA CompleteKeeps ==
    ASSUME IInv, NEW r \in RunId, Complete(r)
    PROVE  IInv'
  <1>1. r \in Working /\ run[r] \in Run /\ run[r].at = "verifying"
    BY LiveRunTyped DEF Complete, Working, LiveRuns, IInv
  <1>2. /\ job' \in Job /\ job'.state = "completed" /\ job'.ready = FALSE
        /\ job'.offset = 0
    BY DEF Complete, Job
  <1>3. RunFiles(r) /\ (~zip => files \subseteq {"upload"}) /\ files \subseteq Temp
    BY <1>1 DEF IInv, FileInv, TypeOK
  <1>4. /\ run[r].original <=> ~resumed
        /\ zip /\ resumed => run[r].temp = "metrics" /\ run[r].bundle = "metrics"
    BY <1>1, <1>3 DEF IInv, UploadInv, RunFiles, Extracted, Early
  <1>5. \A f \in files : (zip /\ resumed /\ f = "upload") \/ f \in {run[r].temp, run[r].bundle}
    BY <1>1, <1>3, <1>4 DEF RunFiles, Early, Extracted, Temp
  <1>6. Undelivered = {}
    BY <1>1 DEF IInv, LineInv, RunLines, Undelivered
  <1>7. {run[r].temp, run[r].bundle} \in SUBSET Temp
    BY <1>1 DEF Run
  <1>8. 0 <= EndOfFile + 1
    BY StartsGrow DEF IInv, TypeOK
  <1>9. QED
    BY <1>1, <1>2, <1>4, <1>5, <1>6, <1>7, <1>8, QuitKeeps DEF Complete

\* Leave keeps the invariant.
LEMMA LeaveKeeps ==
    ASSUME IInv, NEW r \in RunId, Leave(r)
    PROVE  IInv'
  <1>1. /\ run[r].at = "leaving" /\ r \in LiveRuns \ Working
        /\ UNCHANGED <<lines, zip, lossy, resumed, job, delivered>>
        /\ files' = files \ run[r].remove
    BY DEF Leave, LiveRuns, Working
  <1>2. run'[r] = NoRunYet /\ \A x \in RunId \ {r} : run'[x] = run[x]
    BY DEF Leave, IInv, TypeOK
  <1>3. LiveRuns' = LiveRuns \ {r} /\ Working' = Working
    BY <1>1, <1>2 DEF LiveRuns, Working, NoRunYet
  <1>4. \A x \in LiveRuns' : run'[x] = run[x]
    BY <1>2, <1>3 DEF LiveRuns
  <1>5. run' \in [RunId -> Run \union {NoRunYet}]
    BY DEF Leave, IInv, TypeOK
  <1>6. TypeOK' /\ Bounds'
    BY <1>1, <1>3, <1>4, <1>5, SameBundle DEF IInv, TypeOK, Bounds
  <1>7. Working # {} => files' = files
    BY <1>1 DEF IInv, FileInv, LifeInv, Final
  <1>8. job.ready => files' = files
    BY <1>1 DEF IInv, FileInv, LifeInv, Final
  <1>9. LifeInv'
    BY <1>1, <1>3 DEF IInv, LifeInv
  <1>10. FileInv'
    <2>1. Extracted' = Extracted /\ Final' = Final
      BY <1>1 DEF Extracted, Final
    <2>2. \A x \in Working' : RunFiles(x)'
      BY <1>1, <1>3, <1>4, <1>7, <2>1 DEF IInv, FileInv, RunFiles, Working
    <2>3. Final => \A f \in files' :
            \/ zip /\ resumed /\ f = "upload"
            \/ \E x \in LiveRuns' \ Working' : f \in run'[x].remove
      BY <1>1, <1>3, <1>4 DEF IInv, FileInv
    <2>4. QED
      BY <1>1, <1>3, <1>4, <1>8, <2>1, <2>2, <2>3 DEF IInv, FileInv
  <1>11. UploadInv'
    <2>1. zip /\ (resumed \/ job.ready) => "upload" \in files'
      BY <1>1, <1>8 DEF IInv, UploadInv
    <2>2. QED
      BY <1>1, <1>3, <1>4, <2>1 DEF IInv, UploadInv, Working
  <1>12. LineInv'
    <2>1. \A x \in Working : run'[x] = run[x]
      BY <1>3, <1>4 DEF Working
    <2>2. \A x \in Working : RunLines(run[x], delivered)'
      BY <1>1, <2>1, SameBundle DEF IInv, LineInv, RunLines
    <2>3. QED
      BY <1>1, <1>3, <2>2, SameBundle DEF IInv, LineInv, Undelivered
  <1>13. QED
    BY <1>6, <1>9, <1>10, <1>11, <1>12 DEF IInv

----------------------------------------------------------------------------
(* The inductive invariant, and what it is for.                            *)

\* The strengthened invariant holds in every reachable state.
THEOREM InductiveInvariant == Spec => []IInv
  <1>1. Init => IInv
    <2> SUFFICES ASSUME Init
                 PROVE  IInv
      OBVIOUS
    <2>1. LiveRuns = {} /\ Working = {}
      BY DEF Init, LiveRuns, Working, NoRunYet
    <2>2. TypeOK
      BY <2>1 DEF Init, TypeOK, Job, Temp
    <2>3. Bounds
      BY <2>1, <2>2, StartsGrow DEF Init, Bounds, TypeOK
    <2>4. LifeInv /\ FileInv /\ UploadInv /\ LineInv
      BY <2>1 DEF Init, LifeInv, FileInv, UploadInv, LineInv, Final
    <2>5. QED
      BY <2>2, <2>3, <2>4 DEF IInv
  <1>2. IInv /\ [Next]_vars => IInv'
    <2> SUFFICES ASSUME IInv, [Next]_vars
                 PROVE  IInv'
      OBVIOUS
    <2>1. ASSUME NEW r \in RunId, Upload(r) \/ ResumeJob(r)
          PROVE  IInv'
      BY <2>1, UploadKeeps, ResumeJobKeeps
    <2>2. ASSUME NEW r \in RunId, RunStep(r)
          PROVE  IInv'
      BY <2>2, BeginKeeps, PrepareBundleKeeps, PrepareFailsKeeps, OpenKeeps,
         StreamFailsKeeps, ScanLineKeeps, ScanEndsKeeps, ChunkCommittedKeeps,
         FailImportKeeps, CompleteKeeps, LeaveKeeps
      DEF RunStep
    <2>3. CASE UNCHANGED vars
      <3>1. UNCHANGED <<lines, zip, lossy, job, files, run, delivered, resumed>>
        BY <2>3 DEF vars
      <3>2. LineStart' = LineStart /\ EndOfFile' = EndOfFile /\ Good' = Good
        BY <3>1, SameBundle
      <3>3. LiveRuns' = LiveRuns /\ Working' = Working
        BY <3>1 DEF LiveRuns, Working
      <3>4. TypeOK' /\ Bounds'
        BY <3>1, <3>2, <3>3 DEF IInv, TypeOK, Bounds
      <3>5. LifeInv' /\ FileInv' /\ UploadInv'
        BY <3>1, <3>3
        DEF IInv, LifeInv, FileInv, UploadInv, RunFiles, Final, Extracted
      <3>6. LineInv'
        BY <3>1, <3>2, <3>3 DEF IInv, LineInv, RunLines, Undelivered
      <3>7. QED
        BY <3>4, <3>5, <3>6 DEF IInv
    <2>4. QED
      BY <2>1, <2>2, <2>3 DEF Next
  <1>3. QED
    BY <1>1, <1>2, PTL DEF Spec

\* The job, its goroutines, the files and the counts have their types.
THEOREM TypeCorrect == Spec => []TypeOK
BY InductiveInvariant, PTL DEF IInv

\* A completed import has delivered every good line, for any bundle, over any
\* number of failures and resumes.
THEOREM NothingEverLost == Spec => []NothingLost
  <1>1. IInv => NothingLost
    BY DEF IInv, TypeOK, LineInv, Undelivered, Good, NothingLost
  <1>2. QED
    BY <1>1, InductiveInvariant, PTL

\* No resume starts, and no goroutine reads, behind what is to be delivered.
THEOREM OffsetNeverAhead == Spec => []OffsetNotAhead
  <1>1. IInv => OffsetNotAhead
    <2> SUFFICES ASSUME IInv
                 PROVE  OffsetNotAhead
      OBVIOUS
    <2>1. ASSUME NEW r \in Working, NEW i \in Good, delivered[i] = 0
          PROVE  /\ LineStart[i] >= run[r].committed
                 /\ run[r].at \in {"scanning", "posting"} =>
                      LineStart[i] >= run[r].pos \/ Times(i, run[r].chunk) = 1
      <3>1. RunLines(run[r], delivered)
        BY DEF IInv, LineInv
      <3>2. run[r].chunk \in Seq(DOMAIN lines)
        BY DEF IInv, TypeOK, Working
      <3>3. /\ Times(i, run[r].chunk) \in Nat
            /\ Times(i, run[r].chunk) = 0 <=>
                 \A k \in DOMAIN run[r].chunk : run[r].chunk[k] # i
            /\ (\A k, l \in DOMAIN run[r].chunk : run[r].chunk[k] = run[r].chunk[l] => k = l)
                 => Times(i, run[r].chunk) <= 1
        BY <3>2, TimesFacts
      <3>4. CASE run[r].at \in Reads
        <4>1. /\ LineStart[i] >= run[r].pos \/ \E k \in DOMAIN run[r].chunk : run[r].chunk[k] = i
              /\ \A k, l \in DOMAIN run[r].chunk : run[r].chunk[k] = run[r].chunk[l] => k = l
          BY <2>1, <3>1, <3>4 DEF RunLines
        <4>2. QED
          BY <2>1, <3>1, <3>3, <4>1 DEF RunLines
      <3>5. QED
        BY <2>1, <3>1, <3>4 DEF RunLines, Reads
    <2>2. job.ready => \A i \in Good : delivered[i] = 0 => LineStart[i] >= job.offset
      BY DEF IInv, LineInv, Undelivered
    <2>3. QED
      BY <2>1, <2>2 DEF OffsetNotAhead
  <1>2. QED
    BY <1>1, InductiveInvariant, PTL

\* One goroutine works on the job, none on one that may be resumed.
THEOREM AlwaysOneWorks == Spec => []OneWorks
  <1>1. IInv => OneWorks
    <2> SUFFICES ASSUME IInv
                 PROVE  OneWorks
      OBVIOUS
    <2>1. Cardinality(Working) <= 1
      <3>1. CASE Working = {}
        BY <3>1, FS_EmptySet
      <3>2. CASE Working # {}
        <4>1. PICK r \in Working : TRUE
          BY <3>2
        <4>2. Working = {r}
          BY <4>1 DEF IInv, LifeInv
        <4>3. QED
          BY <4>2, FS_Singleton
      <3>3. QED
        BY <3>1, <3>2
    <2>2. QED
      BY <2>1 DEF IInv, LifeInv, OneWorks
  <1>2. QED
    BY <1>1, InductiveInvariant, PTL

\* No goroutine's file is removed under it, nor the one a resume will read.
THEOREM BundleAlwaysKept == Spec => []BundleKept
  <1>1. IInv => BundleKept
    <2> SUFFICES ASSUME IInv
                 PROVE  BundleKept
      OBVIOUS
    <2>1. ASSUME NEW r \in Working
          PROVE  /\ run[r].temp \in files
                 /\ run[r].bundle \in IF run[r].at \in {"spawned", "extracting"}
                                        THEN Temp ELSE files
      <3>1. RunFiles(r) /\ run[r] \in Run
        BY LiveRunTyped DEF IInv, FileInv, Working
      <3>2. QED
        BY <3>1 DEF RunFiles, Early, Run
    <2>2. job.ready => job.bundle \in files
      BY DEF IInv, FileInv
    <2>3. QED
      BY <2>1, <2>2 DEF BundleKept
  <1>2. QED
    BY <1>1, InductiveInvariant, PTL

\* What is over for good leaves nothing behind but the upload of a zip whose
\* import was resumed.
THEOREM AlwaysCleanedUp == Spec => []CleanedUp
  <1>1. IInv => CleanedUp
    BY DEF IInv, FileInv, UploadInv, Final, CleanedUp
  <1>2. QED
    BY <1>1, InductiveInvariant, PTL

----------------------------------------------------------------------------
(* Exact offsets.  Without a CR, and with a target that says what it has   *)
(* taken in, every line before the offset has been delivered once.         *)

\* What a goroutine must observe for deliveries to stay exact.
LEMMA ExactMove ==
    ASSUME IInv, ExactInv, NEW r \in Working, NEW g, g.at # "none",
           run' = [run EXCEPT ![r] = g], UNCHANGED <<lines, lossy>>,
           Exact => \A i \in DOMAIN lines : delivered'[i] <= 1,
           Exact /\ job'.ready =>
             \A i \in DOMAIN lines : delivered'[i] >= 1 => LineStart[i] < job'.offset,
           Exact /\ g.at # "leaving" => RunExact(g, delivered')
    PROVE  ExactInv'
  <1>1. /\ run'[r] = g /\ Working' = IF g.at = "leaving" THEN {} ELSE {r}
    BY WorkerMoves
  <1>2. Exact' = Exact
    BY DEF Exact
  <1>3. Exact /\ g.at # "leaving" => RunExact(run[r], delivered)'
    BY <1>1, SameBundle DEF RunExact
  <1>4. QED
    BY <1>1, <1>2, <1>3, SameBundle DEF ExactInv

\* The goroutine moves on between two reads, or quits.
LEMMA ExactGoto ==
    ASSUME IInv, ExactInv, NEW r \in Working, NEW g \in Run,
           run' = [run EXCEPT ![r] = g], UNCHANGED <<lines, lossy, delivered>>,
           g.committed = run[r].committed,
           g.at = "posting" => run[r].at = "scanning" /\ g.chunk = run[r].chunk
                               /\ g.pos = run[r].pos /\ g.current = run[r].current
                               /\ g.chunkEnd = run[r].chunkEnd /\ g.chunk # <<>>,
           g.at # "scanning",
           job'.ready => job'.offset = run[r].committed
    PROVE  ExactInv'
  <1>1. g.at # "none"
    BY DEF Run
  <1>2. Exact => RunExact(run[r], delivered)
    BY DEF ExactInv
  <1>3. Exact => RunExact(g, delivered')
    BY <1>2 DEF RunExact, Reads
  <1>4. Exact => \A i \in DOMAIN lines : delivered[i] >= 1 => LineStart[i] < run[r].committed
    BY <1>2 DEF RunExact
  <1>5. QED
    BY <1>1, <1>3, <1>4, ExactMove DEF ExactInv

\* Steps that neither read nor deliver.
LEMMA QuietExact ==
    ASSUME IInv, ExactInv, NEW r \in RunId,
           \/ Begin(r) \/ PrepareBundle(r) \/ PrepareFails(r) \/ OpenFails(r)
           \/ ScanFails(r) \/ ScanEnds(r) \/ ChunkRejected(r) \/ FailImport(r)
           \/ Complete(r)
    PROVE  ExactInv'
  <1>1. r \in Working /\ run[r] \in Run /\ ~job.ready /\ job \in Job
    BY LiveRunTyped
    DEF Begin, PrepareBundle, PrepareFails, OpenFails, ScanFails, ScanEnds,
        ChunkRejected, FailImport, Complete, Working, LiveRuns, IInv, LifeInv, TypeOK
  <1>2. CASE Begin(r) \/ OpenFails(r) \/ ScanFails(r) \/ ScanEnds(r) \/ ChunkRejected(r)
    <2>1. PICK stage \in {"extracting", "failing", "posting", "verifying"} :
            /\ run' = [run EXCEPT ![r] = [run[r] EXCEPT !.at = stage]]
            /\ stage = "posting" => run[r].at = "scanning" /\ run[r].chunk # <<>>
      BY <1>2 DEF Begin, OpenFails, ScanFails, ScanEnds, ChunkRejected, Goto
    <2> DEFINE g == [run[r] EXCEPT !.at = stage]
    <2>2. /\ g \in Run /\ g.at = stage /\ g.committed = run[r].committed
          /\ g.chunk = run[r].chunk /\ g.pos = run[r].pos
          /\ g.current = run[r].current /\ g.chunkEnd = run[r].chunkEnd
      BY <1>1 DEF Run
    <2>3. UNCHANGED <<lines, lossy, delivered>> /\ ~job'.ready
      BY <1>1, <1>2 DEF Begin, OpenFails, ScanFails, ScanEnds, ChunkRejected
    <2>4. run' = [run EXCEPT ![r] = g]
      BY <2>1
    <2> HIDE DEF g
    <2>5. QED
      BY <1>1, <2>1, <2>2, <2>3, <2>4, ExactGoto
  <1>3. CASE PrepareBundle(r)
    <2> DEFINE bundle == IF zip /\ run[r].original THEN "metrics" ELSE run[r].temp
               g == [run[r] EXCEPT !.at = "opening", !.bundle = bundle]
    <2>1. bundle \in Temp
      BY <1>1 DEF Run, Temp
    <2>2. g \in Run /\ g.at = "opening" /\ g.committed = run[r].committed
      BY <1>1, <2>1 DEF Run
    <2>3. /\ run' = [run EXCEPT ![r] = g] /\ UNCHANGED <<lines, lossy, delivered>>
          /\ job' = [job EXCEPT !.bundle = bundle]
      BY <1>3 DEF PrepareBundle
    <2> HIDE DEF g
    <2>4. ~job'.ready
      BY <1>1, <2>3 DEF Job
    <2>5. QED
      BY <1>1, <2>2, <2>3, <2>4, ExactGoto
  <1>4. CASE PrepareFails(r) \/ FailImport(r) \/ Complete(r)
    <2>1. PICK remove \in SUBSET Temp : Quit(r, remove)
      BY <1>1, <1>4 DEF PrepareFails, FailImport, Complete, Run
    <2> DEFINE g == [run[r] EXCEPT !.at = "leaving", !.remove = remove]
    <2>2. g \in Run /\ g.at = "leaving" /\ g.committed = run[r].committed
      BY <1>1 DEF Run
    <2>3. /\ run' = [run EXCEPT ![r] = g] /\ UNCHANGED <<lines, lossy, delivered>>
      BY <1>4, <2>1 DEF Quit, PrepareFails, FailImport, Complete
    <2> HIDE DEF g
    <2>4. job'.ready => job'.offset = run[r].committed
      <3>1. CASE PrepareFails(r)
        <4>1. job' = [job EXCEPT !.state = "failed"]
          BY <3>1 DEF PrepareFails
        <4>2. ~job'.ready
          BY <1>1, <4>1 DEF Job
        <4>3. QED
          BY <4>2
      <3>2. CASE FailImport(r)
        <4>1. job' = [job EXCEPT !.state = "failed", !.offset = run[r].committed,
                                 !.ready = TRUE]
          BY <3>2 DEF FailImport, ProcessedBytes
        <4>2. QED
          BY <1>1, <4>1 DEF Job
      <3>3. CASE Complete(r)
        BY <3>3 DEF Complete
      <3>4. QED
        BY <1>4, <3>1, <3>2, <3>3
    <2>5. QED
      BY <1>1, <2>2, <2>3, <2>4, ExactGoto
  <1>5. QED
    BY <1>2, <1>3, <1>4

\* Open keeps deliveries exact.
LEMMA OpenExact ==
    ASSUME IInv, ExactInv, NEW r \in RunId, Open(r)
    PROVE  ExactInv'
  <1> DEFINE g == [run[r] EXCEPT !.at = "scanning", !.pos = run[r].start,
                                 !.current = run[r].start]
  <1>1. r \in Working /\ run[r] \in Run /\ run[r].at = "opening" /\ ~job.ready
    BY LiveRunTyped DEF Open, Working, LiveRuns, IInv, LifeInv
  <1>2. /\ g.at = "scanning" /\ g.pos = run[r].start /\ g.current = run[r].start
        /\ g.committed = run[r].committed /\ g.chunk = run[r].chunk
        /\ g.chunkEnd = run[r].chunkEnd
    BY <1>1 DEF Run
  <1>3. run' = [run EXCEPT ![r] = g] /\ UNCHANGED <<lines, lossy, delivered, job>>
    BY DEF Open
  <1> HIDE DEF g
  <1>4. /\ run[r].committed = run[r].start /\ run[r].chunk = <<>>
        /\ run[r].chunkEnd = 0 /\ run[r].start \in Nat
    BY <1>1 DEF IInv, LineInv, RunLines, Run
  <1>5. Exact => RunExact(g, delivered')
    <2>1. Exact => RunExact(run[r], delivered)
      BY <1>1 DEF ExactInv
    <2>2. QED
      BY <1>2, <1>3, <1>4, <2>1 DEF RunExact, Reads
  <1>6. QED
    BY <1>1, <1>2, <1>3, <1>5, ExactMove DEF ExactInv

\* ScanLine keeps deliveries exact.
LEMMA ScanLineExact ==
    ASSUME IInv, ExactInv, NEW r \in RunId, ScanLine(r),
           NEW pos, pos = run[r].pos, NEW line, line = LineAt(pos),
           NEW read, read = pos + Ahead(pos),
           NEW counted, counted = run[r].current + Counted(pos),
           NEW chunk, chunk = run[r].chunk,
           NEW longer, longer = Append(chunk, line)
    PROVE  ExactInv'
  <1>1. /\ r \in Working /\ run[r] \in Run /\ run[r].at = "scanning" /\ r \in LiveRuns
        /\ pos < EndOfFile /\ ~job.ready
    BY LiveRunTyped DEF ScanLine, Working, LiveRuns, IInv, LifeInv
  <1>2. /\ lines \in Bundles /\ pos \in Nat /\ run[r].current \in Nat
        /\ run[r].committed \in Nat /\ run[r].chunkEnd \in Nat /\ EndOfFile \in Nat
        /\ chunk \in Seq(DOMAIN lines)
    BY <1>1, StartsGrow DEF IInv, TypeOK, Run
  <1>3. /\ Ahead(pos) \in Nat \ {0} /\ Counted(pos) \in Nat \ {0}
        /\ Exact => Counted(pos) >= Ahead(pos)
    BY <1>1, <1>2, CountedFacts DEF Exact
  <1>4. line \in DOMAIN lines /\ LineStart[line] \in Nat
    <2>1. line \in DOMAIN lines
      BY <1>1, <1>2, LineAtFacts
    <2>2. line \in 1..Len(lines) + 1
      BY <1>2, <2>1, BundleFacts
    <2>3. QED
      BY <1>2, <2>1, <2>2, StartFacts
  <1>5. UNCHANGED <<lines, lossy, delivered, job>>
    BY DEF ScanLine
  <1>6. Exact =>
          /\ \A i \in DOMAIN lines : delivered[i] >= 1 => LineStart[i] < run[r].committed
          /\ pos <= run[r].current /\ run[r].chunkEnd <= run[r].current
          /\ run[r].committed <= pos
          /\ \A k \in DOMAIN chunk : /\ run[r].committed <= LineStart[chunk[k]]
                                     /\ LineStart[chunk[k]] < run[r].chunkEnd
    <2>1. Exact => RunExact(run[r], delivered)
      BY <1>1 DEF ExactInv
    <2>2. QED
      BY <1>1, <1>2, <2>1 DEF RunExact, Reads
  <1>7. /\ read \in Nat /\ counted \in Nat /\ pos < read /\ run[r].current < counted
        /\ Exact => read <= counted
    <2> PICK ahead, more, current : /\ ahead = Ahead(pos) /\ more = Counted(pos)
                                    /\ current = run[r].current
      OBVIOUS
    <2>1. /\ pos \in Nat /\ current \in Nat /\ ahead \in Nat \ {0} /\ more \in Nat \ {0}
          /\ read = pos + ahead /\ counted = current + more
      BY <1>2, <1>3
    <2>2. Exact => (more >= ahead /\ pos <= current)
      BY <1>3, <1>6
    <2>3. read \in Nat /\ counted \in Nat /\ pos < read /\ current < counted
      BY ONLY <2>1
    <2>4. ASSUME Exact PROVE read <= counted
      <3>1. more >= ahead /\ pos <= current
        BY <2>2, <2>4
      <3>2. QED
        BY ONLY <2>1, <3>1
    <2>5. QED
      BY <2>3, <2>4
  <1>8. CASE Sent(pos)
    <2> DEFINE g == [run[r] EXCEPT
                      !.at = IF ChunkFull(longer) THEN "posting" ELSE "scanning",
                      !.pos = read, !.current = counted,
                      !.chunk = longer, !.chunkEnd = counted]
    <2>1. /\ g.pos = read /\ g.at \in {"posting", "scanning"}
          /\ g.current = counted /\ g.chunkEnd = counted /\ g.chunk = longer
          /\ g.committed = run[r].committed
      BY <1>1 DEF Run
    <2>2. run' = [run EXCEPT ![r] = g]
      BY <1>8 DEF ScanLine
    <2> HIDE DEF g
    <2>3. pos = LineStart[line]
      BY <1>8 DEF Sent
    <2>4. /\ Len(longer) \in DOMAIN longer
          /\ \A k \in DOMAIN longer :
               \/ longer[k] = line
               \/ k \in DOMAIN chunk /\ longer[k] = chunk[k]
      BY <1>2, <1>4, AppendFacts, SMTT(30)
    <2>5. longer # <<>>
      BY <2>4
    <2>6. \A k \in DOMAIN chunk : LineStart[chunk[k]] \in Nat
      BY <1>2, StartFacts, BundleFacts, SMTT(30)
    <2>7. ASSUME Exact, NEW k \in DOMAIN longer
          PROVE  run[r].committed <= LineStart[longer[k]] /\ LineStart[longer[k]] < counted
      <3>1. CASE longer[k] = line
        <4>1. run[r].committed <= pos /\ pos < counted
          BY <1>2, <1>6, <1>7, <2>7
        <4>2. LineStart[longer[k]] = pos
          BY <2>3, <3>1
        <4>3. QED
          BY <4>1, <4>2
      <3>2. CASE k \in DOMAIN chunk /\ longer[k] = chunk[k]
        BY <1>2, <1>6, <1>7, <2>6, <2>7, <3>2, SMTT(30)
      <3>3. QED
        BY <2>4, <3>1, <3>2
    <2>8. Exact => RunExact(g, delivered')
      <3>1. Exact => run[r].committed <= read
        BY <1>2, <1>6, <1>7
      <3>2. Exact => read <= counted /\ counted <= counted
        BY <1>7
      <3>3. QED
        BY <1>5, <1>6, <2>1, <2>5, <2>7, <3>1, <3>2 DEF RunExact
    <2>9. QED
      BY <1>1, <1>5, <2>1, <2>2, <2>8, ExactMove DEF ExactInv
  <1>9. CASE ~Sent(pos)
    <2> DEFINE g == [run[r] EXCEPT !.pos = read, !.current = counted]
    <2>1. /\ g.pos = read /\ g.at = "scanning"
          /\ g.current = counted /\ g.chunkEnd = run[r].chunkEnd /\ g.chunk = chunk
          /\ g.committed = run[r].committed
      BY <1>1 DEF Run
    <2>2. run' = [run EXCEPT ![r] = g]
      BY <1>9 DEF ScanLine
    <2> HIDE DEF g
    <2>3. Exact => run[r].committed <= read /\ run[r].chunkEnd <= counted
      BY <1>2, <1>6, <1>7, SMTT(30)
    <2>4. Exact => RunExact(g, delivered')
      BY <1>5, <1>6, <1>7, <2>1, <2>3 DEF RunExact
    <2>5. QED
      BY <1>1, <1>5, <2>1, <2>2, <2>4, ExactMove DEF ExactInv
  <1>10. QED
    BY <1>8, <1>9

\* ChunkCommitted keeps deliveries exact.
LEMMA ChunkCommittedExact ==
    ASSUME IInv, ExactInv, NEW r \in RunId, ChunkCommitted(r),
           NEW chunk, chunk = run[r].chunk
    PROVE  ExactInv'
  <1> DEFINE g == [run[r] EXCEPT !.at = "scanning", !.chunk = <<>>,
                                 !.committed = run[r].chunkEnd]
  <1>1. /\ r \in Working /\ run[r] \in Run /\ run[r].at = "posting" /\ r \in LiveRuns
        /\ ~job.ready
    BY LiveRunTyped DEF ChunkCommitted, Working, LiveRuns, IInv, LifeInv
  <1>2. /\ g.at = "scanning" /\ g.pos = run[r].pos
        /\ g.current = run[r].current /\ g.chunk = <<>>
        /\ g.committed = run[r].chunkEnd /\ g.chunkEnd = run[r].chunkEnd
    BY <1>1 DEF Run
  <1>3. run' = [run EXCEPT ![r] = g] /\ UNCHANGED <<lines, lossy, job>>
    BY DEF ChunkCommitted
  <1> HIDE DEF g
  <1>4. /\ delivered' \in [DOMAIN lines -> Nat] /\ delivered \in [DOMAIN lines -> Nat]
        /\ \A i \in DOMAIN lines : delivered'[i] = delivered[i] + Times(i, chunk)
    BY <1>1, TakeInFacts DEF ChunkCommitted, IInv, TypeOK
  <1>5. /\ chunk \in Seq(DOMAIN lines)
        /\ \A k, l \in DOMAIN chunk : chunk[k] = chunk[l] => k = l
        /\ run[r].chunkEnd <= run[r].pos \/ run[r].pos >= EndOfFile
    BY <1>1 DEF IInv, TypeOK, LineInv, RunLines, Reads
  <1>6. \A i \in DOMAIN lines :
          /\ Times(i, chunk) \in Nat /\ Times(i, chunk) <= 1
          /\ Times(i, chunk) = 0 <=> \A k \in DOMAIN chunk : chunk[k] # i
    BY <1>5, TimesFacts
  <1>7. Exact =>
          /\ \A i \in DOMAIN lines : delivered[i] >= 1 => LineStart[i] < run[r].committed
          /\ run[r].pos <= run[r].current /\ run[r].chunkEnd <= run[r].current
          /\ chunk # <<>>
          /\ \A k \in DOMAIN chunk : /\ run[r].committed <= LineStart[chunk[k]]
                                     /\ LineStart[chunk[k]] < run[r].chunkEnd
    <2>1. Exact => RunExact(run[r], delivered)
      BY <1>1 DEF ExactInv
    <2>2. QED
      BY <1>1, <2>1 DEF RunExact, Reads
  <1>8. /\ run[r].committed \in Nat /\ run[r].chunkEnd \in Nat /\ run[r].pos \in Nat
        /\ run[r].current \in Nat
        /\ \A i \in DOMAIN lines : LineStart[i] \in Nat
    BY <1>1, StartFacts, BundleFacts DEF Run, IInv, TypeOK
  <1>9. Exact => run[r].committed < run[r].chunkEnd
    <2>1. chunk # <<>> => 1 \in DOMAIN chunk /\ chunk[1] \in DOMAIN lines
      BY <1>5
    <2>2. QED
      BY <1>7, <1>8, <2>1
  <1>10. ASSUME Exact, NEW i \in DOMAIN lines
         PROVE  /\ delivered'[i] <= 1
                /\ delivered'[i] >= 1 => LineStart[i] < run[r].chunkEnd
    <2>1. delivered[i] \in Nat /\ delivered[i] <= 1
      BY <1>4, <1>10 DEF ExactInv
    <2>2. CASE Times(i, chunk) = 0
      BY <1>4, <1>7, <1>8, <1>9, <1>10, <2>1, <2>2
    <2>3. CASE Times(i, chunk) # 0
      <3>1. PICK k \in DOMAIN chunk : chunk[k] = i
        BY <1>6, <2>3
      <3>2. run[r].committed <= LineStart[i] /\ LineStart[i] < run[r].chunkEnd
        BY <1>7, <1>10, <3>1
      <3>3. ~(delivered[i] >= 1)
        BY <1>7, <1>8, <1>10, <3>2
      <3>4. QED
        BY <1>4, <1>6, <2>1, <3>2, <3>3
    <2>4. QED
      BY <2>2, <2>3
  <1>11. Exact => RunExact(g, delivered')
    BY <1>2, <1>5, <1>7, <1>10 DEF RunExact
  <1>12. QED
    BY <1>1, <1>2, <1>3, <1>10, <1>11, ExactMove

\* Where offsets are exact, they are exact in every reachable state.
THEOREM ExactInvariant == Spec => []ExactInv
  <1>1. Init => ExactInv
    BY DEF Init, ExactInv, Working, LiveRuns, NoRunYet
  <1>2. IInv /\ ExactInv /\ [Next]_vars => ExactInv'
    <2> SUFFICES ASSUME IInv, ExactInv, [Next]_vars
                 PROVE  ExactInv'
      OBVIOUS
    <2>1. ASSUME NEW r \in RunId, Upload(r)
          PROVE  ExactInv'
      <3>1. /\ Working' = {r} /\ run'[r] = Spawned("upload", TRUE, 0)
            /\ ~job'.ready /\ UNCHANGED <<lines, lossy, delivered>>
            /\ \A i \in DOMAIN lines : delivered[i] = 0
        BY <2>1 DEF Upload, IInv, LifeInv, TypeOK, Working, LiveRuns, Spawned
      <3>2. RunExact(run[r], delivered)'
        BY <3>1 DEF RunExact, Spawned, Reads
      <3>3. \A i \in DOMAIN lines' : delivered'[i] = 0
        BY <3>1
      <3>4. \A i \in DOMAIN lines' : delivered'[i] <= 1
        BY <3>3
      <3>5. QED
        BY <3>1, <3>2, <3>4 DEF ExactInv
    <2>2. ASSUME NEW r \in RunId, ResumeJob(r)
          PROVE  ExactInv'
      <3>1. /\ Working' = {r} /\ run'[r] = Spawned(job.bundle, FALSE, job.offset)
            /\ ~job'.ready /\ UNCHANGED <<lines, lossy, delivered>> /\ job.ready
        BY <2>2 DEF ResumeJob, IInv, LifeInv, TypeOK, Working, LiveRuns, Spawned
      <3>2. Exact' = Exact
        BY <3>1 DEF Exact
      <3>3. Exact => RunExact(run[r], delivered)'
        BY <3>1, SameBundle DEF ExactInv, RunExact, Spawned, Reads
      <3>4. QED
        BY <3>1, <3>2, <3>3 DEF ExactInv
    <2>3. ASSUME NEW r \in RunId, RunStep(r)
          PROVE  ExactInv'
      <3>1. CASE Open(r)
        BY <3>1, OpenExact
      <3>2. CASE ScanLine(r)
        BY <3>2, ScanLineExact
      <3>3. CASE ChunkCommitted(r)
        BY <3>3, ChunkCommittedExact
      <3>4. CASE ChunkUnanswered(r)
        BY <3>4 DEF ChunkUnanswered, ExactInv, Exact
      <3>5. CASE Leave(r)
        <4>1. /\ Working' = Working /\ UNCHANGED <<lines, lossy, job, delivered>>
              /\ \A x \in Working : run'[x] = run[x]
          BY <3>5 DEF Leave, IInv, TypeOK, Working, LiveRuns, NoRunYet
        <4>2. \A x \in Working : Exact => RunExact(run[x], delivered)'
          BY <4>1, SameBundle DEF ExactInv, RunExact
        <4>3. QED
          BY <4>1, <4>2, SameBundle DEF ExactInv, Exact
      <3>6. QED
        BY <2>3, <3>1, <3>2, <3>3, <3>4, <3>5, QuietExact DEF RunStep
    <2>4. CASE UNCHANGED vars
      <3>1. /\ Working' = Working /\ UNCHANGED <<lines, lossy, job, run, delivered>>
        BY <2>4 DEF vars, Working, LiveRuns
      <3>2. QED
        BY <3>1, SameBundle DEF ExactInv, RunExact, Exact
    <2>5. QED
      BY <2>1, <2>2, <2>3, <2>4 DEF Next
  <1>3. QED
    BY <1>1, <1>2, InductiveInvariant, PTL DEF Spec

\* Where offsets are exact no line is delivered twice, however often the
\* import is resumed.
THEOREM AlwaysDeliveredOnce == Spec => []DeliveredOnce
  <1>1. ExactInv => DeliveredOnce
    BY DEF ExactInv, Exact, DeliveredOnce
  <1>2. QED
    BY <1>1, ExactInvariant, PTL
=============================================================================
