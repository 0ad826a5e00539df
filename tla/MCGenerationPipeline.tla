------------------------ MODULE MCGenerationPipeline ------------------------
(* GenerationPipeline on small instances for TLC. *)
EXTENDS GenerationPipeline
=============================================================================
