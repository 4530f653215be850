---------------------------- MODULE ImportPoints ----------------------------
(***************************************************************************)
(* What the importer does to one line of a bundle (metricLine in           *)
(* internal/importer/server/server.go): the unit of its timestamps is      *)
(* guessed from the one in the middle, points older than the retention     *)
(* cutoff are dropped, labels are dropped, timestamps are shifted.  The    *)
(* preflight (analyzeBundle) and the import (streamImport) are built from  *)
(* the same functions and call them in a different order.                  *)
(*                                                                         *)
(* The thresholds of detectTimestampUnit are parameters, so that TLC can   *)
(* use small ones: 10^9, 10^11, 10^14 and 10^17 in the code, with          *)
(* Thousand = 1000 and MaxInt = 2^63 - 1.                                  *)
(***************************************************************************)
EXTENDS Integers, Sequences, SequencesExt

CONSTANTS Thousand, FromSeconds, FromMillis, FromMicros, FromNanos, MaxInt,
          Label,        \* label names
          Protected,    \* those that are never dropped
          Preferred,    \* those that identify a series first: job, instance, ...
          Hidden,       \* those that begin with "__"
          LabelValue,
          NoLabels      \* of a line without "metric": a nil map

ASSUME UnitAssumption ==
    /\ {Thousand, FromSeconds, FromMillis, FromMicros, FromNanos, MaxInt}
         \subseteq Nat \ {0}
    /\ FromSeconds < FromMillis /\ FromMillis < FromMicros /\ FromMicros < FromNanos
    /\ FromMillis <= FromSeconds * Thousand
    /\ FromMicros = FromMillis * Thousand
    /\ FromNanos = FromMicros * Thousand
    /\ MaxInt < FromNanos * Thousand
ASSUME LabelAssumption ==
    /\ Protected \union Preferred \union Hidden \subseteq Label
    /\ "__name__" \in Protected \intersect Hidden
    /\ LabelValue \subseteq STRING

Int64 == -MaxInt..MaxInt

\* The labels of a series: names with their values, or none at all.
LabelMap == {NoLabels} \union UNION {[N -> LabelValue] : N \in SUBSET Label}

\* json: the line decodes.  A value is a number, or one that is not finite
\* ("NaN", which JSON cannot encode again), or none ("bad", null for example).
Line == [json : BOOLEAN, labels : LabelMap, ts : Seq(Int64),
         values : Seq({"number", "nan", "bad"})]

----------------------------------------------------------------------------
(* Timestamps.                                                             *)

Abs(v) == IF v < 0 THEN -v ELSE v

\* detectTimestampUnit
Unit(v) ==
    LET a == Abs(v) IN
    IF a < FromSeconds THEN "milliseconds"
    ELSE IF a < FromMillis THEN "seconds"
    ELSE IF a < FromMicros THEN "milliseconds"
    ELSE IF a < FromNanos  THEN "microseconds"
    ELSE "nanoseconds"

\* Division of integers in Go rounds toward zero.
Quotient(v, d) == IF v < 0 THEN -((-v) \div d) ELSE v \div d

ToMillis(v, unit) ==
    CASE unit = "seconds"      -> v * Thousand
      [] unit = "microseconds" -> Quotient(v, Thousand)
      [] unit = "nanoseconds"  -> Quotient(v, Thousand * Thousand)
      [] OTHER                 -> v

Middle(ts) == ts[(Len(ts) \div 2) + 1]

\* normalizeTimestamps
Normalize(ts) ==
    IF ts = <<>> THEN ts
    ELSE [i \in DOMAIN ts |-> ToMillis(ts[i], Unit(Middle(ts)))]

Shift(ts, shift) == [i \in DOMAIN ts |-> ts[i] + shift]

\* filterTimestampsAndValues: the points it keeps; what is not paired with a
\* value is dropped as old when there is a cutoff.
Kept(line, ts, cutoff) ==
    IF cutoff <= 0 THEN DOMAIN ts
    ELSE IF Len(ts) # Len(line.values) THEN {}
    ELSE {i \in DOMAIN ts : ts[i] >= cutoff}

\* The points at positions I of a sequence, appended one after the other.
At(ts, I) ==
    LET at[n \in 0..Len(ts)] ==
          IF n = 0 THEN <<>>
          ELSE IF n \in I THEN Append(at[n - 1], ts[n]) ELSE at[n - 1]
    IN  at[Len(ts)]

----------------------------------------------------------------------------
(* Labels.                                                                 *)

\* sanitizeDropLabels
Dropped(labels) == labels \ Protected

\* filterMetricLabels; a nil map stays one.
Remaining(labels, drop) ==
    IF labels = NoLabels THEN labels ELSE Restrict(labels, DOMAIN labels \ Dropped(drop))

Names(labels) == IF labels = NoLabels THEN {} ELSE DOMAIN labels

CountOf(labels) == Cardinality(Names(labels))

\* Go gives "" for a label that is not there, and so does a selector.
ValueOf(labels, name) == IF name \in Names(labels) THEN labels[name] ELSE ""

\* selectLabelSubset: up to three labels in the order of a map, that is in
\* any, if none is preferred.
LabelSubsets(labels) ==
    LET preferred == Names(labels) \intersect Preferred
        visible   == Names(labels) \ Hidden
    IN  IF preferred # {} THEN {Restrict(labels, preferred)}
        ELSE {Restrict(labels, N) : N \in kSubset(Min({3, Cardinality(visible)}), visible)}

----------------------------------------------------------------------------
(* One line, in the import and in the preflight.  The outcome: the points  *)
(* it dropped as old, those it keeps, in milliseconds and shifted, and the *)
(* labels they keep; a line that keeps none is skipped.                    *)

Outcome == [dropped : Nat, ts : Seq(Int), labels : LabelMap]

Skip(dropped, labels) == [dropped |-> dropped, ts |-> <<>>, labels |-> labels]

\* Numbers: normalizeValues; Encodes: buildNormalizedLine for the values kept.
Numbers(line)    == \A i \in DOMAIN line.values : line.values[i] # "bad"
Encodes(line, I) == \A i \in DOMAIN line.values \intersect I : line.values[i] = "number"

\* What both make of the line once its timestamps are ts.
LineFrom(line, ts, config, cutoff) ==
    LET labels  == Remaining(line.labels, config.drop)
        kept    == Kept(line, ts, cutoff)
        dropped == Len(ts) - Cardinality(kept)
    IN  IF ~line.json \/ ~Numbers(line) THEN Skip(0, labels)
        ELSE IF \/ kept = {} \/ Len(ts) # Len(line.values)
                \/ ~Encodes(line, kept)
             THEN Skip(dropped, labels)
        ELSE [dropped |-> dropped, labels |-> labels,
              ts |-> Shift(Normalize(At(ts, kept)), config.shift)]

\* Mutant: the import trims what it read, as the preflight does.
ImportLineRaw(line, config, cutoff) == LineFrom(line, line.ts, config, cutoff)

\* The loop of streamImport: normalized first, then trimmed.
ImportLine(line, config, cutoff) ==
    LineFrom(line, Normalize(line.ts), config, cutoff)

\* Mutant: the preflight shifts before it trims.
AnalyzeLineShifted(line, config, cutoff) ==
    LineFrom(line, Shift(line.ts, config.shift), config, cutoff)

\* The loop of analyzeBundle: trimmed first, then normalized; consumeMetric
\* refuses a line without labels.
AnalyzeLine(line, config, cutoff) ==
    LET o == LineFrom(line, line.ts, config, cutoff) IN
    IF line.labels = NoLabels THEN Skip(o.dropped, o.labels) ELSE o

\* Whether the target would refuse the series for its number of labels.
OverLimit(line, config, limit) ==
    /\ line.json
    /\ limit > 0
    /\ CountOf(Remaining(line.labels, config.drop)) > limit
=============================================================================
