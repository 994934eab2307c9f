--------------------------- MODULE MCStateLoops ---------------------------
(* Three keys paged one or two at a time, two of them under a prefix; the  *)
(* middle one is the counter of two workers.                               *)
EXTENDS StateLoops
MCKey == {1, 2, 3}
MCPrefix == {{1, 2, 3}, {2, 3}}
MCLimit == {1, 2}
MCValue == 1 .. 2
=============================================================================
