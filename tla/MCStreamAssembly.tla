------------------------- MODULE MCStreamAssembly -------------------------
(* Two blocks that may overlap, two fragments a call, replacements that are
   empty, equal to what a provider may send, and different from it. *)
EXTENDS StreamAssembly
CONSTANTS a, b
MCIndex == {0, 1}
MCReplacement == {<<>>, <<a>>, <<b, a>>}
=============================================================================
