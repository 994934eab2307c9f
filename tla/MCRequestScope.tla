-------------------------- MODULE MCRequestScope --------------------------
(* Two test goroutines; one harness with two requests and one with none, so
   that Run and dispatch meet on the same harness and on different ones. *)
EXTENDS RequestScope, TLC
CONSTANTS h1, h2, r1, r2
MCHarnessOf == h1 :> h1 @@ h2 :> h2 @@ r1 :> h1 @@ r2 :> h1
=============================================================================
