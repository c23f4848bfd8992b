----------------------------- MODULE MCLlmRouter -----------------------------
(* LlmRouter with the settings as they are by default, a key of NVIDIA or none, *)
(* and either mode.                                                             *)
EXTENDS LlmRouter

MCDeployments ==
  [routing : {"hybrid"}, key : BOOLEAN, scan : {"nvidia"}, provider : {"lmstudio"}, openai : {FALSE},
   rca : {FALSE}, vision : {FALSE}, mode : Modes]
=============================================================================
