---------------------------- MODULE MCAttnEngine ----------------------------
(* Constant values for checking AttnEngine on small instances. *)
EXTENDS AttnEngine, TLC

CONSTANTS r1, r2, g, l, f

MCPrompt == r1 :> 1 @@ r2 :> 2
MCPromptOne == r1 :> 2
=============================================================================
