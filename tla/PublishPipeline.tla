-------------------------- MODULE PublishPipeline --------------------------
(***************************************************************************)
(* Distribution of one approved Generation to its channels:                *)
(*                                                                         *)
(*   routes/publishes.ts    POST creates one Publish row per channel and   *)
(*                          enqueues one job each; retry and cancel;       *)
(*   jobs/publish-job.ts    the publish handler, which requeues itself on  *)
(*                          a retryable error;                             *)
(*   core distribution/aggregate.ts  the Generation's reviewState as a     *)
(*                          function of its Publish rows, recomputed under *)
(*                          an advisory lock (db.ts, withGenerationLock).  *)
(*                                                                         *)
(* recordPublishTransition reads the status and writes event and status in *)
(* one READ COMMITTED transaction: the read takes no lock, so it is a step *)
(* of its own; the writes become visible together at the commit.           *)
(* A row is named by its channel: (generationId, channelId) is unique.     *)
(***************************************************************************)
EXTENDS Naturals, FiniteSets, BullJob

CONSTANTS
    Channels,        \* active channels of the generation's project
    Broken,          \* those whose config cannot be decrypted or have no publisher
    Clients,         \* concurrent HTTP requests
    MaxAttempts,     \* MAX_ATTEMPTS_DEFAULT: runs of the adapter before giving up
    QueueAttempts,   \* attempts of a job of the publish queue
    MaxJobs,         \* bound: jobs ever added for one publish
    MaxPosts, MaxRetries, MaxCancels,      \* bounds: requests of each kind
    MaxCrashes, MaxFaults, MaxOutages      \* bounds: process deaths, errors in
                                           \* the worker, failed adds in the API

ASSUME BrokenAssumption == Broken \subseteq Channels
ASSUME LimitsAssumption ==
    /\ MaxAttempts \in Nat \ {0}
    /\ QueueAttempts \in Nat \ {0}
    /\ MaxJobs \in Nat \ {0}
ASSUME BoundsAssumption ==
    /\ MaxPosts \in Nat /\ MaxRetries \in Nat /\ MaxCancels \in Nat
    /\ MaxCrashes \in Nat /\ MaxFaults \in Nat /\ MaxOutages \in Nat

ReviewState == {"approved", "publishing", "published"}
TerminalPublish == {"completed", "failed", "cancelled"}
PublishStatus == {"queued", "running"} \cup TerminalPublish
RowStatus == PublishStatus \cup {"none"}
Jobs == Channels \X (1 .. MaxJobs)

VARIABLES
    reviewState,  \* Generation.reviewState, from "approved" on
    status,       \* Publish.status of every row ("none" before it exists)
    attempts,     \* Publish.attempts
    event,        \* the newest PublishEvent of every row
    acked,        \* how often the channel's adapter returned success
    jobs,         \* the publish queue
    work,         \* where each execution of the publish handler is
    client,       \* where each request is
    lost,         \* rows whose request died between its write and its add
    posts, retries, cancels, crashes, faults, outages   \* counters of the bounds

rowVars == <<status, attempts, event, acked>>
bounds == <<posts, retries, cancels, crashes, faults, outages>>
vars == <<reviewState, rowVars, jobs, work, client, lost, bounds>>

NoEvent == [from |-> "none", to |-> "none"]
WorkPcs == {"idle", "took", "tx", "txRead", "ready", "adding", "recompute", "locked",
            "returned", "threw"}
Work == [pc : WorkPcs, tried : Nat, seen : RowStatus, to : RowStatus, after : WorkPcs,
         next : ReviewState]
IdleWork == [pc |-> "idle", tried |-> 0, seen |-> "none", to |-> "none", after |-> "idle",
             next |-> "approved"]
ClientPcs == {"idle", "posting", "created", "marked", "retrying", "retryRead", "retried",
              "cancelling", "cancelRead"}
Client == [pc : ClientPcs, on : SUBSET Channels, seen : RowStatus]
IdleClient == [pc |-> "idle", on |-> {}, seen |-> "none"]

TypeOK ==
    /\ reviewState \in ReviewState
    /\ status \in [Channels -> RowStatus]
    /\ attempts \in [Channels -> Nat]
    /\ event \in [Channels -> [from : RowStatus, to : RowStatus]]
    /\ acked \in [Channels -> Nat]
    /\ jobs \in [Jobs -> Job]
    /\ work \in [Jobs -> Work]
    /\ client \in [Clients -> Client]
    /\ lost \in SUBSET Channels
    /\ posts \in 0 .. MaxPosts /\ retries \in 0 .. MaxRetries /\ cancels \in 0 .. MaxCancels
    /\ crashes \in 0 .. MaxCrashes /\ faults \in 0 .. MaxFaults /\ outages \in 0 .. MaxOutages

Init ==
    /\ reviewState = "approved"
    /\ status = [c \in Channels |-> "none"]
    /\ attempts = [c \in Channels |-> 0]
    /\ event = [c \in Channels |-> NoEvent]
    /\ acked = [c \in Channels |-> 0]
    /\ jobs = [n \in Jobs |-> NoJob]
    /\ work = [n \in Jobs |-> IdleWork]
    /\ client = [k \in Clients |-> IdleClient]
    /\ lost = {}
    /\ posts = 0 /\ retries = 0 /\ cancels = 0
    /\ crashes = 0 /\ faults = 0 /\ outages = 0

Rows == {c \in Channels : status[c] # "none"}

\* aggregateReviewState over the rows of the generation.
Aggregate ==
    IF Rows = {} THEN "approved"
    ELSE IF \E c \in Rows : status[c] \in {"queued", "running"} THEN "publishing"
    ELSE IF \A c \in Rows : status[c] = "completed" THEN "published"
    ELSE "approved"

\* publishQueue.add and addBulk: a new job for every row of C.
FreeJobs(c) == {i \in 1 .. MaxJobs : jobs[<<c, i>>] = NoJob}
RoomFor(C) == \A c \in C : FreeJobs(c) # {}
WithJobsFor(C) ==
    [n \in Jobs |-> IF n[1] \in C /\ n[2] = CHOOSE i \in FreeJobs(n[1]) : TRUE
                    THEN AddedJob ELSE jobs[n]]

\* The commit of recordPublishTransition.
Transition(c, from, to) ==
    /\ status' = [status EXCEPT ![c] = to]
    /\ event' = [event EXCEPT ![c] = [from |-> from, to |-> to]]

Fault == faults < MaxFaults /\ faults' = faults + 1
Outage == outages < MaxOutages /\ outages' = outages + 1
exceptFaults == <<posts, retries, cancels, crashes, outages>>

-----------------------------------------------------------------------------
(* routes/publishes.ts *)

ClientAt(k, pc) == client[k].pc = pc
ClientGoes(k, pc) == client' = [client EXCEPT ![k].pc = pc]
ClientEnds(k) == client' = [client EXCEPT ![k] = IdleClient]

\* POST /publish reads the generation and passes the 409 check.
PostRead(k, C) ==
    /\ ClientAt(k, "idle")
    /\ posts < MaxPosts
    /\ reviewState = "approved"
    /\ posts' = posts + 1
    /\ client' = [client EXCEPT ![k] = [pc |-> "posting", on |-> C, seen |-> "none"]]
    /\ UNCHANGED <<reviewState, rowVars, jobs, work, lost, retries, cancels, crashes, faults,
                   outages>>

\* The transaction that creates the rows.
PostCreate(k) ==
    /\ ClientAt(k, "posting")
    /\ client[k].on \cap Rows = {}
    /\ status' = [c \in Channels |-> IF c \in client[k].on THEN "queued" ELSE status[c]]
    /\ ClientGoes(k, "created")
    /\ UNCHANGED <<reviewState, attempts, event, acked, jobs, work, lost, bounds>>

\* A row of the pair exists already: the rotated id violates the same unique
\* key, the transaction rolls back and the client sees a 500.
PostConflict(k) ==
    /\ ClientAt(k, "posting")
    /\ client[k].on \cap Rows # {}
    /\ ClientEnds(k)
    /\ UNCHANGED <<reviewState, rowVars, jobs, work, lost, bounds>>

PostMark(k) ==
    /\ ClientAt(k, "created")
    /\ reviewState' = "publishing"
    /\ ClientGoes(k, "marked")
    /\ UNCHANGED <<rowVars, jobs, work, lost, bounds>>

PostEnqueue(k) ==
    /\ ClientAt(k, "marked")
    /\ RoomFor(client[k].on)
    /\ jobs' = WithJobsFor(client[k].on)
    /\ ClientEnds(k)
    /\ UNCHANGED <<reviewState, rowVars, work, lost, bounds>>

\* Faulty variant: only the generation is set back.
PostEnqueueFailsHalf(k) ==
    /\ ClientAt(k, "marked")
    /\ Outage
    /\ reviewState' = "approved"
    /\ ClientEnds(k)
    /\ UNCHANGED <<rowVars, jobs, work, lost, posts, retries, cancels, crashes, faults>>

\* addBulk throws: the rows are failed and the generation approved again, in
\* one transaction, with no PublishEvent.
PostEnqueueFails(k) ==
    /\ ClientAt(k, "marked")
    /\ Outage
    /\ status' = [c \in Channels |-> IF c \in client[k].on THEN "failed" ELSE status[c]]
    /\ reviewState' = "approved"
    /\ ClientEnds(k)
    /\ UNCHANGED <<attempts, event, acked, jobs, work, lost, posts, retries, cancels, crashes,
                   faults>>

\* POST /retry passes the 409 check ...
RetryRead(k, c) ==
    /\ ClientAt(k, "idle")
    /\ retries < MaxRetries
    /\ status[c] \in {"failed", "cancelled"}
    /\ retries' = retries + 1
    /\ client' = [client EXCEPT ![k] = [pc |-> "retrying", on |-> {c}, seen |-> "none"]]
    /\ UNCHANGED <<reviewState, rowVars, jobs, work, lost, posts, cancels, crashes, faults,
                   outages>>

\* ... and POST /cancel its own.
CancelRead(k, c) ==
    /\ ClientAt(k, "idle")
    /\ cancels < MaxCancels
    /\ status[c] \in {"queued", "running"}
    /\ cancels' = cancels + 1
    /\ client' = [client EXCEPT ![k] = [pc |-> "cancelling", on |-> {c}, seen |-> "none"]]
    /\ UNCHANGED <<reviewState, rowVars, jobs, work, lost, posts, retries, crashes, faults,
                   outages>>

\* recordPublishTransition, called by retry and by cancel: the read ...
ClientTxRead(k, c) ==
    /\ client[k].pc \in {"retrying", "cancelling"}
    /\ c \in client[k].on
    /\ client' = [client EXCEPT
                    ![k].pc = IF @ = "retrying" THEN "retryRead" ELSE "cancelRead",
                    ![k].seen = status[c]]
    /\ UNCHANGED <<reviewState, rowVars, jobs, work, lost, bounds>>

\* ... and the commit, whatever the status has become.
RetryCommit(k, c) ==
    /\ ClientAt(k, "retryRead")
    /\ c \in client[k].on
    /\ Transition(c, client[k].seen, "queued")
    /\ ClientGoes(k, "retried")
    /\ UNCHANGED <<reviewState, attempts, acked, jobs, work, lost, bounds>>

CancelCommit(k, c) ==
    /\ ClientAt(k, "cancelRead")
    /\ c \in client[k].on
    /\ Transition(c, client[k].seen, "cancelled")
    /\ ClientEnds(k)
    /\ UNCHANGED <<reviewState, attempts, acked, jobs, work, lost, bounds>>

RetryEnqueue(k) ==
    /\ ClientAt(k, "retried")
    /\ RoomFor(client[k].on)
    /\ jobs' = WithJobsFor(client[k].on)
    /\ ClientEnds(k)
    /\ UNCHANGED <<reviewState, rowVars, work, lost, bounds>>

\* publishQueue.add throws: nothing undoes the transition.
RetryEnqueueFails(k) ==
    /\ ClientAt(k, "retried")
    /\ Outage
    /\ lost' = lost \cup client[k].on
    /\ ClientEnds(k)
    /\ UNCHANGED <<reviewState, rowVars, jobs, work, posts, retries, cancels, crashes, faults>>

-----------------------------------------------------------------------------
(* jobs/publish-job.ts: makePublishHandler *)

At(n, pc) == work[n].pc = pc
Goes(n, pc) == work' = [work EXCEPT ![n].pc = pc]

\* Call recordPublishTransition(to) and go on at `after`.
BeginTransition(n, to, after) ==
    work' = [work EXCEPT ![n].pc = "tx", ![n].to = to, ![n].after = after]

\* Faulty variant: the handler also leaves a running row alone.
TakeUnlessRunning(n) ==
    /\ jobs[n].state = "wait"
    /\ IF status[n[1]] \in {"cancelled", "running"}
         THEN jobs' = [jobs EXCEPT ![n] = CompletedJob(@)] /\ UNCHANGED work
         ELSE /\ jobs' = [jobs EXCEPT ![n] = TakenJob(@)]
              /\ work' = [work EXCEPT ![n] = [IdleWork EXCEPT !.pc = "took",
                                                              !.tried = attempts[n[1]]]]
    /\ UNCHANGED <<reviewState, rowVars, client, lost, bounds>>

\* The worker takes the job; the handler reads the row and returns at once
\* when it is cancelled.
Take(n) ==
    /\ jobs[n].state = "wait"
    /\ IF status[n[1]] = "cancelled"
         THEN jobs' = [jobs EXCEPT ![n] = CompletedJob(@)] /\ UNCHANGED work
         ELSE /\ jobs' = [jobs EXCEPT ![n] = TakenJob(@)]
              /\ work' = [work EXCEPT ![n] = [IdleWork EXCEPT !.pc = "took",
                                                              !.tried = attempts[n[1]]]]
    /\ UNCHANGED <<reviewState, rowVars, client, lost, bounds>>

\* attempts: { increment: 1 }, then the transition to running.
CountAttempt(n) ==
    /\ At(n, "took")
    /\ attempts' = [attempts EXCEPT ![n[1]] = @ + 1]
    /\ BeginTransition(n, "running", "ready")
    /\ UNCHANGED <<reviewState, status, event, acked, jobs, client, lost, bounds>>

TxRead(n) ==
    /\ At(n, "tx")
    /\ work' = [work EXCEPT ![n].pc = "txRead", ![n].seen = status[n[1]]]
    /\ UNCHANGED <<reviewState, rowVars, jobs, client, lost, bounds>>

TxCommit(n) ==
    /\ At(n, "txRead")
    /\ Transition(n[1], work[n].seen, work[n].to)
    /\ work' = [work EXCEPT ![n] = [IdleWork EXCEPT !.pc = work[n].after,
                                                    !.tried = work[n].tried]]
    /\ UNCHANGED <<reviewState, attempts, acked, jobs, client, lost, bounds>>

\* The config cannot be decrypted, or no publisher has the channel's type:
\* failed, and return without the recompute.
CannotPublish(n) ==
    /\ At(n, "ready")
    /\ n[1] \in Broken
    /\ BeginTransition(n, "failed", "returned")
    /\ UNCHANGED <<reviewState, rowVars, jobs, client, lost, bounds>>

\* Faulty variant: a status of the design document the schema does not have.
AcceptedUnknown(n) ==
    /\ At(n, "ready")
    /\ n[1] \notin Broken
    /\ acked' = [acked EXCEPT ![n[1]] = @ + 1]
    /\ BeginTransition(n, "succeeded", "recompute")
    /\ UNCHANGED <<reviewState, status, attempts, event, jobs, client, lost, bounds>>

\* Faulty variant: no recompute after a success.
AcceptedNoRecompute(n) ==
    /\ At(n, "ready")
    /\ n[1] \notin Broken
    /\ acked' = [acked EXCEPT ![n[1]] = @ + 1]
    /\ BeginTransition(n, "completed", "returned")
    /\ UNCHANGED <<reviewState, status, attempts, event, jobs, client, lost, bounds>>

\* Faulty variant: a success falls through to the requeue of the retry path.
AcceptedAndRequeued(n) ==
    /\ At(n, "ready")
    /\ n[1] \notin Broken
    /\ acked' = [acked EXCEPT ![n[1]] = @ + 1]
    /\ BeginTransition(n, "completed", "adding")
    /\ UNCHANGED <<reviewState, status, attempts, event, jobs, client, lost, bounds>>

\* publisher.publish returns.
Accepted(n) ==
    /\ At(n, "ready")
    /\ n[1] \notin Broken
    /\ acked' = [acked EXCEPT ![n[1]] = @ + 1]
    /\ BeginTransition(n, "completed", "recompute")
    /\ UNCHANGED <<reviewState, status, attempts, event, jobs, client, lost, bounds>>

\* Faulty variant: one attempt too many.
RetryOrFailOffByOne(n) ==
    IF work[n].tried + 1 <= MaxAttempts
      THEN BeginTransition(n, "queued", "adding")
      ELSE BeginTransition(n, "failed", "recompute")

\* The catch block on a retryable error: queued again while attempts, as the
\* handler read them, remain.
RetryOrFail(n) ==
    IF work[n].tried + 1 < MaxAttempts
      THEN BeginTransition(n, "queued", "adding")
      ELSE BeginTransition(n, "failed", "recompute")

\* publisher.publish throws a retryable error.
RetryableError(n) ==
    /\ At(n, "ready")
    /\ n[1] \notin Broken
    /\ RetryOrFail(n)
    /\ UNCHANGED <<reviewState, rowVars, jobs, client, lost, bounds>>

\* A non-retryable error, or JHEO_SECRET_KEY is missing.
FinalError(n) ==
    /\ At(n, "ready")
    /\ n[1] \notin Broken
    /\ BeginTransition(n, "failed", "recompute")
    /\ UNCHANGED <<reviewState, rowVars, jobs, client, lost, bounds>>

\* After a success the bookkeeping is still inside the try block: when it
\* throws, the catch block takes it for a retryable error.
BookkeepingFails(n) ==
    /\ work[n].pc \in {"tx", "txRead"}
    /\ work[n].to = "completed"
    /\ Fault
    /\ RetryOrFail(n)
    /\ UNCHANGED <<reviewState, rowVars, jobs, client, lost, exceptFaults>>

\* publishQueueAdd: the handler enqueues a new job for its own row.
AddRetry(n) ==
    /\ At(n, "adding")
    /\ RoomFor({n[1]})
    /\ jobs' = WithJobsFor({n[1]})
    /\ Goes(n, "recompute")
    /\ UNCHANGED <<reviewState, rowVars, client, lost, bounds>>

\* Faulty variant: no advisory lock.
RecomputeReadUnlocked(n) ==
    /\ At(n, "recompute")
    /\ work' = [work EXCEPT ![n].pc = "locked", ![n].next = Aggregate]
    /\ UNCHANGED <<reviewState, rowVars, jobs, client, lost, bounds>>

\* recomputeGenerationState: the advisory lock, then the read of every row ...
RecomputeRead(n) ==
    /\ At(n, "recompute")
    /\ \A m \in Jobs : ~At(m, "locked")
    /\ work' = [work EXCEPT ![n].pc = "locked", ![n].next = Aggregate]
    /\ UNCHANGED <<reviewState, rowVars, jobs, client, lost, bounds>>

\* ... and the write, then the commit releases the lock.
RecomputeWrite(n) ==
    /\ At(n, "locked")
    /\ reviewState' = work[n].next
    /\ Goes(n, "returned")
    /\ UNCHANGED <<rowVars, jobs, client, lost, bounds>>

\* Any other call throws: the handler rejects.
HandlerThrows(n) ==
    /\ work[n].pc \in {"took", "tx", "txRead", "adding", "recompute", "locked"}
    /\ ~(work[n].pc \in {"tx", "txRead"} /\ work[n].to = "completed")
    /\ Fault
    /\ Goes(n, "threw")
    /\ UNCHANGED <<reviewState, rowVars, jobs, client, lost, exceptFaults>>

Ack(n) ==
    /\ work[n].pc \in {"returned", "threw"}
    /\ jobs' = [jobs EXCEPT ![n] = IF At(n, "returned") THEN CompletedJob(@)
                                   ELSE ThrownJob(@, QueueAttempts)]
    /\ work' = [work EXCEPT ![n] = IdleWork]
    /\ UNCHANGED <<reviewState, rowVars, client, lost, bounds>>

-----------------------------------------------------------------------------
\* The API process dies with its workers.
Crash ==
    /\ crashes < MaxCrashes
    /\ crashes' = crashes + 1
    /\ jobs' = [n \in Jobs |-> IF jobs[n].state = "active" THEN StalledJob(jobs[n]) ELSE jobs[n]]
    /\ work' = [n \in Jobs |-> IdleWork]
    /\ lost' = lost \cup UNION {client[k].on : k \in {j \in Clients :
                                   client[j].pc \in {"created", "marked", "retried"}}}
    /\ client' = [k \in Clients |-> IdleClient]
    /\ UNCHANGED <<reviewState, rowVars, posts, retries, cancels, faults, outages>>

RequestStep(k) ==
    \/ PostCreate(k) \/ PostConflict(k) \/ PostMark(k) \/ PostEnqueue(k)
    \/ \E c \in Channels : ClientTxRead(k, c) \/ RetryCommit(k, c) \/ CancelCommit(k, c)
    \/ RetryEnqueue(k)

Request(k) ==
    \/ \E C \in (SUBSET Channels) \ {{}} : PostRead(k, C)
    \/ \E c \in Channels : RetryRead(k, c) \/ CancelRead(k, c)
    \/ RequestStep(k)
    \/ PostEnqueueFails(k) \/ RetryEnqueueFails(k)

WorkStep(n) ==
    \/ Take(n) \/ CountAttempt(n) \/ TxRead(n) \/ TxCommit(n)
    \/ CannotPublish(n) \/ Accepted(n) \/ RetryableError(n) \/ FinalError(n)
    \/ AddRetry(n) \/ RecomputeRead(n) \/ RecomputeWrite(n) \/ Ack(n)

Next ==
    \/ \E k \in Clients : Request(k)
    \/ \E n \in Jobs : WorkStep(n) \/ BookkeepingFails(n) \/ HandlerThrows(n)
    \/ Crash

Spec == Init /\ [][Next]_vars

\* A process that stays up finishes the requests and jobs it has started: the
\* adapters' fetches time out, BullMQ polls for ever, the advisory lock is
\* released by every commit and rollback and handed on in turn.
FairSpec ==
    /\ Spec
    /\ \A k \in Clients : WF_vars(RequestStep(k))
    /\ \A n \in Jobs : WF_vars(WorkStep(n)) /\ SF_vars(RecomputeRead(n))

-----------------------------------------------------------------------------
(* Safety *)

\* No request and no job is left to touch the generation.
Quiet ==
    /\ \A k \in Clients : ClientAt(k, "idle")
    /\ \A n \in Jobs : jobs[n].state = "absent" \/ Finished(jobs[n])

\* Once everything has settled the generation's reviewState is the aggregate
\* of its rows, whichever workers finished together and whichever requests
\* raced with them (publish-job.ts, the recompute under the advisory lock,
\* H-01).  Cancels, broken channels, errors and failed adds are the known
\* exceptions (see the README).
Settled == Quiet => reviewState = Aggregate
Undisturbed == crashes = 0 /\ faults = 0 /\ lost = {}

ReviewStateSettles ==
    /\ Undisturbed
    /\ cancels = 0 /\ outages = 0
    /\ \A c \in Broken : status[c] = "none"
    => Settled

\* A row that says queued or running is somebody's work: an unfinished job's
\* or an unfinished request's, unless a request died between its write and
\* its add, the process died twice or BullMQ's attempts were used up by
\* errors (publish-job.ts: every path out of the handler leaves a terminal
\* status, a new job or a thrown error behind).
NoOrphanPublish ==
    \A c \in Channels \ lost :
        /\ status[c] \in {"queued", "running"}
        /\ crashes <= MaxStalledCount
        /\ faults < QueueAttempts
        => \/ \E i \in 1 .. MaxJobs : jobs[<<c, i>>].state \in {"wait", "active"}
           \/ \E k \in Clients : c \in client[k].on
                                  /\ client[k].pc \in {"created", "marked", "retried"}

\* Without errors of its own the pipeline delivers a row to its channel at
\* most once for the POST and once more for each retry the user asked for:
\* the handler's own requeueing and cancels never add a delivery.
OneDeliveryPerRequest ==
    crashes = 0 /\ faults = 0 => \A c \in Channels : acked[c] <= 1 + retries

\* The handler's own retries are bounded although it compares a count it
\* read earlier: a row runs MAX_ATTEMPTS_DEFAULT times, and at most twice
\* more for every retry the user asked for.
AttemptsBounded ==
    crashes = 0 /\ faults = 0 => \A c \in Channels : attempts[c] <= MaxAttempts + 2 * retries

\* What a channel sees is bounded by what the users asked for, deliveries and
\* attempts alike (makePublishHandler, POST and retry).
BoundedByRequests == OneDeliveryPerRequest /\ AttemptsBounded

(* Liveness *)

\* A row that is queued reaches a terminal status, through one crash or one
\* error, as long as its request was not lost before the job was added.
PublishEnds ==
    \A c \in Channels :
        (status[c] = "queued") ~> (status[c] \in TerminalPublish \/ c \in lost)

\* A generation does not stay publishing for ever: the last recompute takes
\* it on, unless somebody cancels, a channel is broken or an add failed (the
\* README says what happens then).
PublishingEnds ==
    (reviewState = "publishing") ~>
        \/ reviewState # "publishing"
        \/ lost # {} \/ cancels > 0 \/ outages > 0
        \/ \E c \in Broken : status[c] # "none"

\* Whatever was asked for ends, the row and the publishing of its generation
\* (makePublishHandler, recomputeGenerationState).
PublishesEnd == PublishEnds /\ PublishingEnds
=============================================================================
