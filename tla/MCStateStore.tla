--------------------------- MODULE MCStateStore ---------------------------
(***************************************************************************)
(* A small namespace: two keys, where the second has the prefix of its own *)
(* and the first does not; an empty and a non-empty value.                 *)
(***************************************************************************)
EXTENDS StateStore
MCKey == {1, 2}
MCPrefix == {{1, 2}, {2}}
MCLimit == {0, 1, 257}
=============================================================================
