--------------------------- MODULE AuditLifecycle ---------------------------
(***************************************************************************)
(* What an Audit row promises to the clients that poll it when nobody      *)
(* cancels it: it is created queued, runs, and ends once; the rollup is    *)
(* published by the step that completes it, and neither changes again.     *)
(* AuditPipeline implements it whatever crashes, retries and stalls do,    *)
(* as long as no DELETE is sent.                                           *)
(***************************************************************************)
CONSTANT Scores      \* the rollups a completing audit may publish

VARIABLES status, result

Create == status = "none" /\ status' = "queued" /\ UNCHANGED result

Start == status = "queued" /\ status' = "running" /\ UNCHANGED result

Complete == status = "running" /\ status' = "completed" /\ result' \in Scores

Fail == status = "running" /\ status' = "failed" /\ UNCHANGED result

LifecycleInit == status = "none" /\ result \in Scores

LifecycleNext == Create \/ Start \/ Complete \/ Fail

LifecycleSpec == LifecycleInit /\ [][LifecycleNext]_<<status, result>>
=============================================================================
