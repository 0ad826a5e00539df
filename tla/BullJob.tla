------------------------------ MODULE BullJob ------------------------------
(***************************************************************************)
(* One BullMQ job, as the queues of apps/api/src/queue.ts use it.  BullMQ  *)
(* is a library, so everything here is external: what matters to the       *)
(* handlers is that a job is delivered AT LEAST once.                      *)
(*                                                                         *)
(*   - a handler that throws puts the job back until `attempts` executions *)
(*     have failed (the back-off delay is abstracted: a waiting job may be *)
(*     taken at any later time);                                           *)
(*   - a worker that dies, or that cannot renew its lock, leaves the job   *)
(*     "stalled": the stalled checker puts it back once (maxStalledCount   *)
(*     is 1 by default and no worker of this program sets it) and fails it *)
(*     the second time WITHOUT running the handler again.                  *)
(***************************************************************************)
EXTENDS Naturals

MaxStalledCount == 1

JobStates == {"absent", "wait", "active", "completed", "failed"}

Job == [state : JobStates, made : Nat, stalled : Nat]

NoJob == [state |-> "absent", made |-> 0, stalled |-> 0]

\* Queue.add, Queue.addBulk, FlowProducer.add
AddedJob == [state |-> "wait", made |-> 0, stalled |-> 0]

\* A worker takes the job and its lock.
TakenJob(j) == [j EXCEPT !.state = "active"]

\* The handler returned.
CompletedJob(j) == [j EXCEPT !.state = "completed"]

\* The handler threw: attemptsMade is counted, and the job retried while
\* attempts remain.
ThrownJob(j, attempts) ==
    [state |-> IF j.made + 1 < attempts THEN "wait" ELSE "failed",
     made |-> j.made + 1, stalled |-> j.stalled]

\* The lock expired under a dead or a cut-off worker.
StalledJob(j) ==
    [state |-> IF j.stalled + 1 <= MaxStalledCount THEN "wait" ELSE "failed",
     made |-> j.made, stalled |-> j.stalled + 1]

\* A job that will never be taken again.
Finished(j) == j.state \in {"completed", "failed"}
=============================================================================
