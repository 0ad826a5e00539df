-------------------------- MODULE MCAuditPipeline --------------------------
(* AuditPipeline on small instances for TLC. *)
EXTENDS AuditPipeline, TLC

Symmetry == Permutations(Pages)
=============================================================================
