--------------------------- MODULE BullJobProofs ---------------------------
(***************************************************************************)
(* What the operations of BullJob return.  The components' proofs use      *)
(* these facts and never expand the record updates again.                  *)
(***************************************************************************)
EXTENDS BullJob, TLAPS

\* A job nobody added, and a job just added, are jobs.
LEMMA FreshJobs ==
    /\ NoJob \in Job /\ NoJob.state = "absent"
    /\ AddedJob \in Job /\ AddedJob.state = "wait"
    /\ AddedJob.made = 0 /\ AddedJob.stalled = 0
BY DEF NoJob, AddedJob, Job, JobStates

\* Taking or completing a job changes its state only (queue.ts, the workers).
LEMMA TakeAndComplete ==
    ASSUME NEW j \in Job
    PROVE  /\ TakenJob(j) \in Job /\ TakenJob(j).state = "active"
           /\ TakenJob(j).made = j.made /\ TakenJob(j).stalled = j.stalled
           /\ CompletedJob(j) \in Job /\ CompletedJob(j).state = "completed"
           /\ CompletedJob(j).made = j.made /\ CompletedJob(j).stalled = j.stalled
BY DEF TakenJob, CompletedJob, Job, JobStates

\* A thrown job is counted, and is waiting only while attempts remain
\* (queue.ts, the attempts of the retry policies).
LEMMA Thrown ==
    ASSUME NEW j \in Job, NEW attempts \in Nat
    PROVE  /\ ThrownJob(j, attempts) \in Job
           /\ ThrownJob(j, attempts).made = j.made + 1
           /\ ThrownJob(j, attempts).stalled = j.stalled
           /\ ThrownJob(j, attempts).state \in {"wait", "failed"}
           /\ ThrownJob(j, attempts).state = "wait" => j.made + 1 < attempts
BY DEF ThrownJob, Job, JobStates

\* A stalled job is counted, and is waiting again at most MaxStalledCount
\* times.
LEMMA Stalled ==
    ASSUME NEW j \in Job
    PROVE  /\ StalledJob(j) \in Job
           /\ StalledJob(j).stalled = j.stalled + 1
           /\ StalledJob(j).made = j.made
           /\ StalledJob(j).state \in {"wait", "failed"}
           /\ StalledJob(j).state = "wait" => j.stalled + 1 <= MaxStalledCount
BY DEF StalledJob, Job, JobStates, MaxStalledCount
=============================================================================
