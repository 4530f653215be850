--------------------------- MODULE MCBatchWindows ---------------------------
(***************************************************************************)
(* BatchWindows on ranges of up to 14 units, an inverted and an empty one  *)
(* among them.  The constants of the code are scaled down such that their  *)
(* order is kept, each recommended interval is used, steps do and do not   *)
(* divide a chunk, and both clamps are hit.                                *)
(***************************************************************************)
EXTENDS BatchWindows

MCRanges == {[start |-> 3, end |-> 3 + d] : d \in {-1, 0, 1, 2, 3, 4, 5, 6, 7, 9, 13, 14}}
=============================================================================
