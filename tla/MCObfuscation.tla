--------------------------- MODULE MCObfuscation ---------------------------
(***************************************************************************)
(* Four instances, one of them without a port, two jobs, one custom label; *)
(* octets of two values, so that the third octet is reached.               *)
(***************************************************************************)
EXTENDS Obfuscation

CONSTANTS i1, i2, i3, i4, j1, j2, comp, pod, v1, v2

MCHashed(i) == i = i4
MCPort(i) == IF i = i1 THEN 8481 ELSE 8480

M(i, j, c, v) == [instance |-> i, job |-> j, component |-> c, named |-> TRUE,
                  custom |-> [l \in Label |-> v]]
MCMetric ==
    {M(i1, j1, comp, v1), M(i2, j2, None, None),
     [M(i3, j1, None, v2) EXCEPT !.named = FALSE], M(i4, None, comp, v1)}
=============================================================================
