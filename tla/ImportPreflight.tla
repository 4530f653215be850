--------------------------- MODULE ImportPreflight ---------------------------
(***************************************************************************)
(* The importer's requests about one bundle                                *)
(* (internal/importer/server/server.go): the preflight that predicts what  *)
(* an import would send (handleAnalyze, analyzeBundle), the upload that    *)
(* starts one (handleUpload), and what the import makes of the bundle's    *)
(* points (runImportJob, streamImport, verifyImport).  Both ask the target *)
(* for its retention and its limit of labels, and both keep the bundle in  *)
(* temporary files meanwhile.                                              *)
(*                                                                         *)
(* The import goroutine is one step here, with one chunk; ImportJobs has   *)
(* the chunks, failures and resumes.  One bundle, its settings and its     *)
(* target are fixed in a behaviour; time passes.                           *)
(***************************************************************************)
EXTENDS ImportPoints

CONSTANTS
    Scenario,      \* the bundles, settings and targets that may meet
    SampleLines,   \* defaultAnalyzeSampleLines
    UnitLength,    \* UnitLength[u]: the length of unit u of a retention
    MaxDuration,   \* the largest time.Duration, in milliseconds
    Minute,        \* in milliseconds
    Start, TimeBound   \* the time at first, and at last

\* range: metadata.json's, or <<>>.
Bundle == [lines : Seq(Line), zip : BOOLEAN, range : {<<>>} \union (Int64 \X Int64)]
Config == [dropOld : BOOLEAN, shift : Int64, drop : SUBSET Label,
           override : Int, resolves : BOOLEAN]
\* What the target answers to /api/v1/status/tsdb and /metrics: its retention
\* as numbers with units, or <<>>, and its limit of labels, or 0.
Target == [tsdb : Seq(Nat \X STRING), flag : Seq(Nat \X STRING), limit : Nat]

ASSUME ScenarioAssumption ==
    Scenario \subseteq [bundle : Bundle, config : Config, target : Target]
\* Scope: what is computed with timestamps fits into 64 bits, as it does with
\* dates; Go would wrap around, and this module does not.
ASSUME WidthAssumption ==
    \A s \in Scenario : \A n \in DOMAIN s.bundle.lines :
      LET ts == s.bundle.lines[n].ts IN
      \A i, k \in DOMAIN ts :
        Abs(ToMillis(ts[i], Unit(ts[k]))) * Thousand + Abs(s.config.shift) <= MaxInt
ASSUME DurationAssumption ==
    MaxDuration \in Nat \ {0} /\ UnitLength \in [DOMAIN UnitLength -> Nat]
ASSUME TimeAssumption ==
    {Minute, Start, TimeBound} \subseteq Nat /\ Start <= TimeBound
ASSUME SampleAssumption == SampleLines \in Nat

VARIABLES
    scenario,   \* the bundle, the settings, the target
    now,        \* the clock
    request,    \* the HTTP request in progress
    files,      \* temporary files that exist
    preflight,  \* what the last preflight has answered
    import      \* the import job

preflightVars == <<scenario, now, request, files, preflight, import>>

bundle == scenario.bundle
config == scenario.config
target == scenario.target

None == [at |-> "none"]
Requests == [kind : {"analyze", "upload"}, full : BOOLEAN,
             at : {"saving", "preparing", "analyzing", "leaving", "resolving"}]
TempFiles == {"analyzed upload", "analyzed metrics", "uploaded", "metrics"}

Summary == [points : Nat, dropped : Nat, skipped : Nat, over : Nat,
            cutoff : Int, limit : Nat, range : Seq(Int)]

PreflightTypeOK ==
    /\ scenario \in Scenario
    /\ now \in Start..TimeBound
    /\ request \in Requests \union {None}
    /\ files \subseteq TempFiles
    /\ preflight \in [at : {"answered"}, full : BOOLEAN, summary : Summary]
                       \union {None}
    /\ import \in [at : {"queued"}] \union [at : {"failed"}] \union {None}
         \union [at : {"verifying", "completed"}, sent : Seq(Outcome),
                 summary : Summary, verified : BOOLEAN]
    /\ \A r \in {preflight, import} :
         r.at \in {"answered", "verifying", "completed"} => r.summary.cutoff <= now

PreflightInit ==
    /\ scenario \in Scenario
    /\ now = Start
    /\ request = None
    /\ files = {}
    /\ preflight = None
    /\ import = None

----------------------------------------------------------------------------
(* What the target says of itself.                                         *)

Wrapped(d) == ((d + MaxDuration) % (2 * MaxDuration)) - MaxDuration

\* The numbers with their units, summed up in an int64.
DurationSum(parts) ==
    LET sum[n \in 0..Len(parts)] ==
          IF n = 0 THEN 0
          ELSE Wrapped(sum[n - 1] + parts[n][1] * UnitLength[parts[n][2]])
    IN  sum[Len(parts)]

KnownUnits(parts) == \A i \in DOMAIN parts : parts[i][2] \in DOMAIN UnitLength

\* Mutant: the duration of years that wrapped around is used.
DurationUnchecked(parts) == IF KnownUnits(parts) THEN DurationSum(parts) ELSE 0

\* parseRetentionDuration; a number without a unit is an error, and 0 here is.
Duration(parts) ==
    IF KnownUnits(parts) /\ DurationSum(parts) > 0 THEN DurationSum(parts) ELSE 0

\* retentionCutoff: the first answer that parses; 0 when there is none.
RetentionCutoff ==
    IF ~config.resolves THEN 0
    ELSE IF Duration(target.tsdb) # 0 THEN now - Duration(target.tsdb)
    ELSE IF Duration(target.flag) # 0 THEN now - Duration(target.flag)
    ELSE 0

\* resolveMaxLabelsLimit, with sanitizeMaxLabelsOverride.
MaxLabelsLimit ==
    IF config.override > 0 THEN config.override
    ELSE IF config.resolves THEN target.limit ELSE 0

----------------------------------------------------------------------------
(* The summaries.                                                          *)

Total(numbers) ==
    LET total[n \in 0..Len(numbers)] ==
          IF n = 0 THEN 0 ELSE total[n - 1] + numbers[n]
    IN  total[Len(numbers)]

\* The earliest and the latest of some times, or <<>>.
RangeOf(times) == IF times = {} THEN <<>> ELSE <<Min(times), Max(times)>>

\* Of the outcomes of lines; what SkippedLines counts is what keeps no point.
SummaryOf(lines, outcomes, cutoff, range) ==
    [points  |-> Total([i \in DOMAIN outcomes |-> Len(outcomes[i].ts)]),
     dropped |-> Total([i \in DOMAIN outcomes |-> outcomes[i].dropped]),
     skipped |-> Cardinality({i \in DOMAIN outcomes : outcomes[i].ts = <<>>}),
     over    |-> Cardinality({i \in DOMAIN lines :
                                OverLimit(lines[i], config, MaxLabelsLimit)}),
     cutoff  |-> cutoff, limit |-> MaxLabelsLimit, range |-> range]

Times(outcomes) ==
    UNION {Range(outcomes[i].ts) : i \in DOMAIN outcomes}

\* analyzeBundle of the first lines, or of all.
AnalyzedLines(full) ==
    IF full \/ Len(bundle.lines) <= SampleLines THEN bundle.lines
    ELSE SubSeq(bundle.lines, 1, SampleLines)

Analysis(full) ==
    LET lines    == AnalyzedLines(full)
        cutoff   == IF config.dropOld THEN RetentionCutoff ELSE 0
        outcomes == [i \in DOMAIN lines |-> AnalyzeLine(lines[i], config, cutoff)]
    IN  SummaryOf(lines, outcomes, cutoff, RangeOf(Times(outcomes)))

\* What streamImport sends, of every line.
Streamed(cutoff) ==
    [i \in DOMAIN bundle.lines |-> ImportLine(bundle.lines[i], config, cutoff)]

\* Mutant: a range from the bundle's metadata is kept as it is.
ImportRangePinned(sent) ==
    IF bundle.range # <<>> THEN bundle.range ELSE RangeOf(Times(sent))

\* chunkMinTs and chunkMaxTs, with all lines in one chunk; 0 is none yet.
FirstTime(sent) ==
    LET first[n \in 0..Len(sent)] ==
          IF n = 0 THEN 0
          ELSE IF sent[n].ts # <<>> /\ (first[n - 1] = 0 \/ Head(sent[n].ts) < first[n - 1])
                 THEN Head(sent[n].ts)
          ELSE first[n - 1]
    IN  first[Len(sent)]

LastTime(sent) == Max({0} \union {Last(o.ts) : o \in {p \in Range(sent) : p.ts # <<>>}})

\* From the metadata, widened by the chunk's times, if they are after 1970.
ImportRange(sent) ==
    LET given(k) == IF bundle.range = <<>> THEN {} ELSE {bundle.range[k]}
        starts == given(1) \union {t \in {FirstTime(sent)} : t > 0}
        ends   == given(2) \union {t \in {LastTime(sent)} : t > 0}
    IN  IF starts = {} \/ ends = {} THEN <<>> ELSE <<Min(starts), Max(ends)>>

ImportSummary(cutoff) ==
    LET sent == Streamed(cutoff)
    IN  SummaryOf(bundle.lines, sent, cutoff, ImportRange(sent))

----------------------------------------------------------------------------
(* handleAnalyze, handleUpload and the import.  saveRecentProfile is the   *)
(* step that a request at "saving" waits for; see Importer.                *)

\* The first form field: the settings.
StartAnalyze(full) ==
    /\ request = None
    /\ preflight = None
    /\ request' = [kind |-> "analyze", full |-> full, at |-> "saving"]
    /\ UNCHANGED <<scenario, now, files, preflight, import>>

StartUpload ==
    /\ request = None
    /\ import = None
    /\ request' = [kind |-> "upload", full |-> TRUE, at |-> "saving"]
    /\ UNCHANGED <<scenario, now, files, preflight, import>>

\* persistUploadedFile, after the settings are saved.
PersistUploadedFile ==
    /\ request.at = "saving"
    /\ IF request.kind = "analyze"
         THEN /\ files' = files \union {"analyzed upload"}
              /\ request' = [request EXCEPT !.at = "preparing"]
         ELSE /\ files' = files \union {"uploaded"}
              /\ request' = [request EXCEPT !.at = "resolving"]
    /\ UNCHANGED <<scenario, now, preflight, import>>

\* No bundle in the form (of an analysis), or it cannot be stored.
BundleRefused ==
    /\ request.at = "saving"
    /\ request' = None
    /\ UNCHANGED <<scenario, now, files, preflight, import>>

\* prepareBundle: a zip is extracted to a second file.
PrepareBundle ==
    /\ request.at = "preparing"
    /\ files' = files \union (IF bundle.zip THEN {"analyzed metrics"} ELSE {})
    /\ request' = [request EXCEPT !.at = "analyzing"]
    /\ UNCHANGED <<scenario, now, preflight, import>>

AnalyzeBundle ==
    /\ request.at = "analyzing"
    /\ preflight' = [at |-> "answered", full |-> request.full,
                     summary |-> Analysis(request.full)]
    /\ request' = [request EXCEPT !.at = "leaving"]
    /\ UNCHANGED <<scenario, now, files, import>>

\* A bundle that cannot be prepared, opened or scanned.
AnalyzeFails ==
    /\ request.at \in {"preparing", "analyzing"}
    /\ request' = [request EXCEPT !.at = "leaving"]
    /\ UNCHANGED <<scenario, now, files, preflight, import>>

\* Mutant: the deferred bundle.Cleanup is forgotten.
LeaveAnalyzeKeeping ==
    /\ request.at = "leaving"
    /\ files' = files \ {"analyzed upload"}
    /\ request' = None
    /\ UNCHANGED <<scenario, now, preflight, import>>

\* The deferred calls.
LeaveAnalyze ==
    /\ request.at = "leaving"
    /\ files' = files \ {"analyzed upload", "analyzed metrics"}
    /\ request' = None
    /\ UNCHANGED <<scenario, now, preflight, import>>

\* resolveEndpoints fails: the file stays where it is.
UploadUnresolved ==
    /\ request.at = "resolving"
    /\ ~config.resolves
    /\ request' = None
    /\ UNCHANGED <<scenario, now, files, preflight, import>>

StoreJob ==
    /\ request.at = "resolving"
    /\ config.resolves
    /\ import' = [at |-> "queued"]
    /\ request' = None
    /\ UNCHANGED <<scenario, now, files, preflight>>

\* runImportJob up to the end of streamImport; the cutoff applies whatever
\* config.dropOld says.
Import ==
    LET cutoff == RetentionCutoff
    IN
    /\ import.at = "queued"
    /\ import' = [at |-> "verifying", sent |-> Streamed(cutoff),
                  summary |-> ImportSummary(cutoff), verified |-> FALSE]
    /\ files' = files \union (IF bundle.zip THEN {"metrics"} ELSE {})
    /\ UNCHANGED <<scenario, now, request, preflight>>

\* An import that failed for good; one that may be resumed keeps its files.
ImportFails ==
    /\ import.at = "queued"
    /\ import' = [at |-> "failed"]
    /\ files' = files \ {"uploaded"}
    /\ UNCHANGED <<scenario, now, request, preflight>>

SentLines == {i \in DOMAIN import.sent : import.sent[i].ts # <<>>}
NameOf(i) == ValueOf(import.sent[i].labels, "__name__")

\* The name looked for is that of the first line sent that has one; the
\* labels are those of the first line sent, whether or not that has a name.
MetricName ==
    LET named == {i \in SentLines : NameOf(i) # ""}
    IN  IF named = {} THEN "" ELSE NameOf(Min(named))

FirstSubsets ==
    IF SentLines = {} THEN {<<>>} ELSE LabelSubsets(import.sent[Min(SentLines)].labels)

\* buildLabelMatcher
Matches(i, subset) ==
    /\ NameOf(i) = MetricName
    /\ \A name \in DOMAIN subset : ValueOf(import.sent[i].labels, name) = subset[name]

Window(range) == range[1] - Minute..range[2] + Minute

\* Whether the target, which has what it was sent, has points of a matching
\* series in the range of the summary and a minute around it; without a name
\* or a range it is not asked.
Seen(subset) ==
    LET range == import.summary.range
    IN  /\ MetricName # "" /\ range # <<>>
        /\ \E i \in SentLines :
             Matches(i, subset) /\ Range(import.sent[i].ts) \intersect Window(range) # {}

\* The three attempts may fail whatever the target has.
VerifyImport ==
    /\ import.at = "verifying"
    /\ \E answered \in BOOLEAN, subset \in FirstSubsets :
         import' = [import EXCEPT !.at = "completed",
                      !.verified = answered /\ Seen(subset)]
    /\ files' = files \ {"uploaded", "metrics"}
    /\ UNCHANGED <<scenario, now, request, preflight>>

Tick ==
    /\ now < TimeBound
    /\ now' = now + 1
    /\ UNCHANGED <<scenario, request, files, preflight, import>>

\* What follows once the settings are saved.
AfterSaving == PersistUploadedFile \/ BundleRefused

PreflightStep ==
    \/ PrepareBundle
    \/ AnalyzeBundle
    \/ AnalyzeFails
    \/ LeaveAnalyze
    \/ UploadUnresolved
    \/ StoreJob
    \/ Import
    \/ ImportFails
    \/ VerifyImport

PreflightNext ==
    \/ \E full \in BOOLEAN : StartAnalyze(full)
    \/ StartUpload
    \/ AfterSaving
    \/ PreflightStep
    \/ Tick

PreflightSpec == PreflightInit /\ [][PreflightNext]_preflightVars

----------------------------------------------------------------------------
Imported == import.at \in {"verifying", "completed"}

Lines == Range(bundle.lines)

\* The timestamps of a line as they are in the bundle.
AllIn(line, unit) == \A i \in DOMAIN line.ts : Unit(line.ts[i]) = unit
InMillis(line) == AllIn(line, "milliseconds")
OneUnit(line)  == \A i, j \in DOMAIN line.ts : Unit(line.ts[i]) = Unit(line.ts[j])

\* Every line is taken to be in one of these units.
GuessedIn(units) == \A l \in Lines : l.ts # <<>> => Unit(Middle(l.ts)) \in units

\* A preflight of the whole bundle predicts the import, when its lines have
\* labels.  But the preflight trims what it has read, the import what it has
\* normalized: with the same cutoff and limit they count the same series
\* over the limit, and, in milliseconds or without a cutoff, the same
\* points, drops and skipped lines; in seconds the preflight drops as much
\* or more, and all of a bundle, which the import may send; in smaller units
\* it drops as much or less, and no import with the same cutoff or a later
\* one sends more than it says (unless the cutoff takes away the value that
\* made it skip a line).
PreflightPredicts ==
    /\ Imported
    /\ preflight # None /\ preflight.full
    /\ \A l \in Lines : l.labels # NoLabels
    => LET p == preflight.summary
           i == import.summary
       IN  /\ p.cutoff = i.cutoff /\ p.limit = i.limit =>
                /\ p.over = i.over
                /\ p.cutoff <= 0 \/ GuessedIn({"milliseconds"}) =>
                     <<p.points, p.dropped, p.skipped>> = <<i.points, i.dropped, i.skipped>>
                /\ GuessedIn({"seconds", "milliseconds"}) => p.dropped >= i.dropped
                /\ GuessedIn({"milliseconds", "microseconds", "nanoseconds"}) =>
                     p.dropped <= i.dropped
           /\ /\ p.cutoff >= FromMillis
              /\ \A l \in Lines : AllIn(l, "seconds")
              => p.points = 0
           /\ /\ p.cutoff <= i.cutoff
              /\ GuessedIn({"milliseconds", "microseconds", "nanoseconds"})
              /\ \A l \in Lines : Encodes(l, DOMAIN l.values)
              => i.points <= p.points

\* Of a line with timestamps of one unit, whichever it is, the import sends
\* milliseconds, and nothing that was older than the cutoff before the shift.
SentIsTrimmed ==
    Imported =>
      \A n \in DOMAIN import.sent : OneUnit(bundle.lines[n]) =>
        \A t \in Range(import.sent[n].ts) :
          /\ Unit(t - config.shift) = "milliseconds"
          /\ import.summary.cutoff > 0 => t - config.shift >= import.summary.cutoff

\* The window in which the import is verified has every point it has sent
\* (of lines in order of time, and after 1970), shifted or not, with the
\* range of the bundle's metadata or without.  If the first line sent has a
\* name, the target has what it is asked for, whichever labels are chosen;
\* if not, the name of another may be looked for with the labels of the first.
WindowCoversImport ==
    /\ Imported
    /\ \A l \in Lines : IsSorted(l.ts, <=)
    /\ \A t \in Times(import.sent) : t > 0
    => /\ \A t \in Times(import.sent) : t \in Window(import.summary.range)
       /\ SentLines # {} /\ NameOf(Min(SentLines)) # "" =>
            \A subset \in FirstSubsets : Seen(subset)

\* The temporary files of a process are those of the request or the job in
\* progress: a preflight leaves none, wherever it fails, and an import none
\* once it is over.  Only an upload whose endpoint does not resolve leaves
\* its file; and the end of the process leaves them all (see Importer).
FilesHaveOwners ==
    /\ request = None \/ request.kind = "upload" =>
         files \intersect {"analyzed upload", "analyzed metrics"} = {}
    /\ /\ request = None \/ request.kind = "analyze"
       /\ import.at \in {"none", "failed", "completed"}
       => files \intersect {"uploaded", "metrics"} \subseteq
            IF config.resolves THEN {} ELSE {"uploaded"}

\* The shift of a bundle into the target's retention: when every shifted
\* timestamp lies in it, no point is dropped as old (README: "Shift to now"
\* slides "bundles into the active retention window before upload").
ShiftIntoRetention ==
    /\ Imported
    /\ import.summary.cutoff > 0
    /\ \A l \in Lines : /\ InMillis(l) /\ Len(l.ts) = Len(l.values)
                        /\ \A i \in DOMAIN l.ts :
                             l.ts[i] + config.shift \in import.summary.cutoff..now
    => import.summary.dropped = 0
=============================================================================
