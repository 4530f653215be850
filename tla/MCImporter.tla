----------------------------- MODULE MCImporter -----------------------------
(***************************************************************************)
(* Times in milliseconds from 100 to 999, ten to a second (Thousand = 10): *)
(* the clock stands at 600 or 601, and a retention of a day, 100, puts the *)
(* cutoff at 500 or 501.                                                   *)
(***************************************************************************)
EXTENDS Importer, TLC

CONSTANTS i1, i2, f1, f2, p1, p2, p3, n2

\* A list of a version with a larger limit and of one without IDs.
MCLegacy == {<<p2, n2, p1>>}
MCRebuiltId == [e \in {n2} |-> p2]
MCUnitLength == [u \in {"d", "h"} |-> IF u = "d" THEN 100 ELSE 5]

Some  == "__name__" :> "up" @@ "job" :> "a"
Many  == Some @@ "pod" :> "a" @@ "zone" :> "a"
Other == "__name__" :> "load" @@ "job" :> "b"
\* The result of a query with sum, and a series without a preferred label.
Sum   == "zone" :> "b"
Plain == "__name__" :> "up" @@ [l \in {"zone", "env", "le", "dc"} |-> "b"]
Num(ts) == [i \in DOMAIN ts |-> "number"]
L(labels, ts) == [json |-> TRUE, labels |-> labels, ts |-> ts, values |-> Num(ts)]

Millis  == L(Many, <<450, 499, 500, 550>>)
Seconds == L(Some, <<45, 50, 55>>)
Micros  == L(Some, <<4500, 4999, 5500>>)
Nanos   == L(Some, <<45000, 55000>>)
Mixed   == L(Some, <<450, 550, 5900>>)
Small   == L(Other, <<5, 9>>)
Unnamed == L(Sum, <<520, 530>>)
Chosen  == L(Plain, <<530>>)
Bare    == L(NoLabels, <<550, 560>>)
Broken  == [Millis EXCEPT !.json = FALSE]
Null    == [Millis EXCEPT !.values[4] = "bad"]
NaNOld  == [Millis EXCEPT !.values[1] = "nan"]
NaNNew  == [Millis EXCEPT !.values[4] = "nan"]
Unpaired == [Millis EXCEPT !.values = <<"number">>]
Old     == L(Some, <<420, 450>>)

B(lines, zip, range) == [lines |-> lines, zip |-> zip, range |-> range]
C(dropOld, shift, drop, override, resolves) ==
    [dropOld |-> dropOld, shift |-> shift, drop |-> drop,
     override |-> override, resolves |-> resolves]
T(tsdb, flag, limit) == [tsdb |-> tsdb, flag |-> flag, limit |-> limit]
Day  == <<<<1, "d">>>>
Week == <<<<12, "d">>>>    \* longer than a time.Duration holds
Hours == <<<<19, "h">>, <<1, "h">>>>

\* Settings and a target that any bundle meets, and some that a few do.
Trim  == [config |-> C(TRUE, 0, {}, 0, TRUE), target |-> T(Day, <<>>, 3)]
Slide == [config |-> C(TRUE, 90, {"pod", "job"}, 0, TRUE),
          target |-> T(<<<<1, "">>>>, Hours, 2)]
Keep  == [config |-> C(FALSE, 50, {"zone"}, 3, TRUE), target |-> T(Week, Day, 0)]
Lost  == [config |-> C(TRUE, 0, {}, -1, FALSE), target |-> T(Day, <<>>, 0)]
Back  == [config |-> C(FALSE, -5, {}, 0, TRUE), target |-> T(Week, <<>>, 0)]
Blind == [config |-> C(TRUE, 0, {}, 0, TRUE), target |-> T(Week, <<>>, 0)]

MCScenario ==
    {[bundle |-> x[1], config |-> x[2].config, target |-> x[2].target] : x \in
      {B(<<Millis, Old>>, TRUE, <<420, 550>>), B(<<Nanos, Null>>, FALSE, <<>>),
       B(<<Mixed, Small>>, FALSE, <<>>), B(<<Bare, NaNNew>>, FALSE, <<>>),
       B(<<Unpaired, NaNOld>>, FALSE, <<>>), B(<<Seconds>>, FALSE, <<>>),
       B(<<Chosen, Micros>>, FALSE, <<>>), B(<<Unnamed, Millis>>, FALSE, <<>>)} \X {Trim} \union
      {B(<<Millis, Old>>, TRUE, <<420, 550>>), B(<<Seconds, Millis>>, FALSE, <<>>),
       B(<<Bare, NaNNew>>, FALSE, <<>>)} \X {Slide} \union
      {B(<<Micros>>, TRUE, <<450, 550>>), B(<<Old, Broken>>, FALSE, <<>>)} \X {Keep} \union
      {B(<<Small, Millis>>, FALSE, <<>>)} \X {Back} \union
      {B(<<Millis>>, TRUE, <<>>)} \X {Lost, Blind}}

\* Bound: where the endpoint does not resolve, the clock stands still, and the
\* other process runs and requests about other endpoints save their profiles;
\* elsewhere only the two requests about the bundle do.
Bounded ==
    IF scenario.config.resolves
      THEN saves <= 2 /\ since = {} /\ \A s \in Importer \ {Here} : ~Up(s)
      ELSE now = Start

\* A bundle from before the retention, and a shift to now.
MCHistoric ==
    {[bundle |-> B(<<Old>>, FALSE, <<>>), config |-> C(TRUE, 150, {}, 0, TRUE),
      target |-> T(Day, <<>>, 0)]}

Symmetry == Permutations({f1, f2})
=============================================================================
