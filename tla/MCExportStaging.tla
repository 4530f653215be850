-------------------------- MODULE MCExportStaging --------------------------
(***************************************************************************)
(* Small instances of ExportStaging: a job of three windows, next to one   *)
(* of a single window or alone.                                            *)
(***************************************************************************)
EXTENDS ExportStaging, TLC

CONSTANTS j1, j2, r1, r2

MCWindows == [j \in JobId |-> IF j = j1 THEN 3 ELSE 1]
Symmetry == Permutations({r1, r2})
=============================================================================
