---------------------------- MODULE MCExportJobs ----------------------------
(***************************************************************************)
(* Small instances of ExportJobs for TLC: two slots, so that goroutines    *)
(* interleave, and one goroutine identity more than slots, so that one run *)
(* too many would be seen.                                                 *)
(***************************************************************************)
EXTENDS ExportJobs

CONSTANTS j1, j2, r1, r2, r3

MCWindows == [j \in JobId |-> IF j = j1 THEN 2 ELSE 1]
=============================================================================
