---------------------------- MODULE MCGuestAbi ----------------------------
(***************************************************************************)
(* Three of the five hooks: requests, whose content is validated, the      *)
(* stream, with two actions, and the tick, whose input has no validator.   *)
(* Five addresses, one more than are ever pinned together.                 *)
(***************************************************************************)
EXTENDS GuestAbi, TLC
MCHook == {1, 3, 5}
MCManifest == {<<>>, <<3>>, <<5>>, <<3, 5>>, <<5, 3>>, <<3, 3>>, <<0>>, <<1, 3, 5>>, <<1>>, <<3, 7>>, <<3, 32>>}
MCFrame ==
  {<<>>, <<Value("sound"), Value("empty")>>, <<Error("NOT_FOUND"), Value("sound")>>, <<Value("sound"), Error("INTERNAL")>>,
   <<Field(3, "bytes", "UNSPECIFIED")>>, <<Field(1, "varint", "UNSPECIFIED")>>,
   <<Field(1, "varint", "UNSPECIFIED"), Value("sound")>>}
    \cup {<<Error(code)>> : code \in Code} \cup {<<Value(p)>> : p \in Payload}
\* Handlers and addresses are interchangeable in every definition.
MCSymmetry == Permutations(Handler) \cup Permutations(Addr)
=============================================================================
