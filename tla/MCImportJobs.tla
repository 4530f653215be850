---------------------------- MODULE MCImportJobs ----------------------------
(***************************************************************************)
(* Bundles of up to six lines, with either line break, lines that are      *)
(* skipped, a line too long, and a last line without a break; chunks of    *)
(* two lines.                                                              *)
(***************************************************************************)
EXTENDS ImportJobs

CONSTANTS r1, r2

L(chars, cr, lf, kind) == [chars |-> chars, cr |-> cr, lf |-> lf, kind |-> kind]
Good2 == L(2, 0, 1, "good")
Crlf1 == L(1, 1, 1, "good")
Skip1 == L(1, 0, 1, "skip")

LfBundles ==
    {<<Good2, Good2, Good2, Good2, Good2>>,
     <<Skip1, Good2, Skip1, Good2, Good2, Skip1>>,
     <<Good2, Skip1, Good2, Good2, L(2, 0, 0, "good")>>}

MCBundles == LfBundles \union
    {<<Crlf1, Crlf1, Crlf1, Crlf1, Crlf1>>,
     <<Crlf1, L(1, 1, 1, "skip"), Good2, Crlf1, Crlf1>>,
     <<Crlf1, Crlf1, Good2, L(9, 0, 1, "huge"), Good2>>,
     <<Skip1>>}
=============================================================================
