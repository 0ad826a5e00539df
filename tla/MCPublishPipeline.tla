------------------------- MODULE MCPublishPipeline -------------------------
(* PublishPipeline on small instances for TLC. *)
EXTENDS PublishPipeline, TLC

Symmetry == Permutations(Channels) \cup Permutations(Clients)
=============================================================================
