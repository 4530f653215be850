-------------------------- MODULE MCAdaptiveExport --------------------------
(***************************************************************************)
(* AdaptiveExport on a window of five units with a minimum of one, splits  *)
(* one, two or four deep, a smallest step of two and a ladder of two rungs,*)
(* begun at the lower rung or at a step below it; with adaptivity off and  *)
(* on, and each way buildJobSplitAttempt can go.                           *)
(***************************************************************************)
EXTENDS AdaptiveExport

CONSTANTS a, b

Adaptive(qr, split, autopilot, depth, step) ==
    [jobs |-> <<a, b>>, queryRange |-> qr, autoSplit |-> TRUE,
     splitByJob |-> TRUE, autopilot |-> autopilot, jobSplit |-> split,
     minWindow |-> 1, maxDepth |-> depth, step |-> step, ladder |-> {2, 3}]

MCConfigs ==
    {Adaptive(FALSE, "export", TRUE, 2, 2),
     Adaptive(TRUE, "query_range", FALSE, 4, 1),
     Adaptive(TRUE, "none", TRUE, 2, 1),
     [Adaptive(FALSE, "export", FALSE, 1, 2) EXCEPT !.autoSplit = FALSE,
                                                    !.splitByJob = FALSE]}
=============================================================================
