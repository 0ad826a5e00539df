------------------------- MODULE GenerationPipeline -------------------------
(***************************************************************************)
(* One Generation of JHEO, from POST to an approved text:                  *)
(*                                                                         *)
(*   routes/generations.ts   creates the row and enqueues the job; review  *)
(*                           moves reviewState; PATCH edits the text;      *)
(*   jobs/generate-job.ts    embeds the materials and the prompt, asks the *)
(*                           model, stores the text.                       *)
(*                                                                         *)
(* The publish pipeline shares the row: from the first POST publish on it  *)
(* writes reviewState too.  PublishPipeline models it; here it is only the *)
(* three values it may write, at any time.  A text is named by its author  *)
(* and the number of the author's run or request.                          *)
(***************************************************************************)
EXTENDS Naturals, BullJob

CONSTANTS
    Clients,         \* concurrent HTTP requests
    Attempts,        \* attempts of the generate queue (5 in queue.ts)
    MaxRequests,     \* bound: review and PATCH requests
    MaxPublishes,    \* bound: writes of reviewState by the publish pipeline
    MaxCrashes,      \* bound: process crashes
    MaxFaults,       \* bound: errors of Postgres or Redis
    MaxLockLosses    \* bound: a live worker that loses the lock of its job

ASSUME GenerationAssumption ==
    /\ Attempts \in Nat \ {0}
    /\ MaxRequests \in Nat /\ MaxPublishes \in Nat /\ MaxCrashes \in Nat
    /\ MaxFaults \in Nat /\ MaxLockLosses \in Nat

VARIABLES
    status,       \* Generation.status ("none" before the row exists)
    reviewState,  \* Generation.reviewState
    text,         \* Generation.outputMarkdown
    bare,         \* some material of the generation lacks its embedding
    request,      \* POST generations: "idle", "created", "done", "refused", "lost"
    job,          \* the job of the generate queue
    run,          \* executions of the handler so far
    exec,         \* the execution that holds the lock, and one that lost it
    client,       \* review and PATCH requests
    requests, publishes, crashes, faults, lockLosses   \* counters of the bounds

rowVars == <<status, reviewState, text>>
bounds == <<requests, publishes, crashes, faults, lockLosses>>
vars == <<rowVars, bare, request, job, run, exec, client, bounds>>

Slots == {"holder", "zombie"}
ExecPcs == {"idle", "checked", "started", "embedded", "retrieved", "generated",
            "failing", "threw", "returned"}
IdleExec == [pc |-> "idle", run |-> 0]

ReviewStates == {"draft", "in_review", "approved", "publishing", "published"}
Terminal == {"completed", "failed"}
NoText == [by |-> "nobody", n |-> 0]
Text == [by : {"nobody", "worker", "user"}, n : Nat]

IdleClient == [pc |-> "idle", read |-> "draft", to |-> "draft"]
Client == [pc : {"idle", "reviewing", "editing"}, read : ReviewStates, to : ReviewStates]

TypeOK ==
    /\ status \in {"none", "queued", "running"} \cup Terminal
    /\ reviewState \in ReviewStates
    /\ text \in Text
    /\ bare \in BOOLEAN
    /\ request \in {"idle", "created", "done", "refused", "lost"}
    /\ job \in Job
    /\ run \in Nat
    /\ exec \in [Slots -> [pc : ExecPcs, run : Nat]]
    /\ client \in [Clients -> Client]
    /\ requests \in 0 .. MaxRequests /\ publishes \in 0 .. MaxPublishes
    /\ crashes \in 0 .. MaxCrashes /\ faults \in 0 .. MaxFaults
    /\ lockLosses \in 0 .. MaxLockLosses

Init ==
    /\ status = "none"
    /\ reviewState = "draft"
    /\ text = NoText
    /\ bare \in BOOLEAN
    /\ request = "idle"
    /\ job = NoJob
    /\ run = 0
    /\ exec = [s \in Slots |-> IdleExec]
    /\ client = [k \in Clients |-> IdleClient]
    /\ requests = 0 /\ publishes = 0 /\ crashes = 0 /\ faults = 0 /\ lockLosses = 0

Fault == faults < MaxFaults /\ faults' = faults + 1
otherBounds == <<requests, publishes, crashes, lockLosses>>

-----------------------------------------------------------------------------
(* routes/generations.ts: POST *)

CreateGeneration ==
    /\ request = "idle"
    /\ request' = "created"
    /\ status' = "queued"
    /\ UNCHANGED <<reviewState, text, bare, job, run, exec, client, bounds>>

EnqueueGeneration ==
    /\ request = "created"
    /\ request' = "done"
    /\ job' = AddedJob
    /\ UNCHANGED <<rowVars, bare, run, exec, client, bounds>>

\* generateQueue.add rejects.  The catch builds the update to 'failed' but
\* `void` drops it: Prisma sends a query only when its promise is awaited or
\* chained, so no row is written and the client is answered as if all went well.
EnqueueRefused ==
    /\ request = "created"
    /\ Fault
    /\ request' = "refused"
    /\ UNCHANGED <<rowVars, bare, job, run, exec, client, otherBounds>>

-----------------------------------------------------------------------------
(* routes/generations.ts: review and PATCH read the row, then write it *)

\* The review route's own validTransitions.
Allowed == [r \in ReviewStates |-> CASE r = "draft" -> {"in_review"}
                                     [] r = "in_review" -> {"draft", "approved"}
                                     [] OTHER -> {}]

ReviewRead(k, to) ==
    /\ client[k].pc = "idle"
    /\ status # "none"
    /\ requests < MaxRequests
    /\ to \in Allowed[reviewState]
    /\ requests' = requests + 1
    /\ client' = [client EXCEPT ![k] = [pc |-> "reviewing", read |-> reviewState, to |-> to]]
    /\ UNCHANGED <<rowVars, bare, request, job, run, exec, publishes, crashes, faults, lockLosses>>

\* Faulty variant: the row is given the name of the action.
ReviewWriteAction(k) ==
    /\ client[k].pc = "reviewing"
    /\ reviewState' = IF client[k].to = "draft" THEN "reject" ELSE client[k].to
    /\ client' = [client EXCEPT ![k] = IdleClient]
    /\ UNCHANGED <<status, text, bare, request, job, run, exec, bounds>>

ReviewWrite(k) ==
    /\ client[k].pc = "reviewing"
    /\ reviewState' = client[k].to
    /\ client' = [client EXCEPT ![k] = IdleClient]
    /\ UNCHANGED <<status, text, bare, request, job, run, exec, bounds>>

\* Faulty variant: the 409 of an approved generation is missing.
EditReadUnguarded(k) ==
    /\ client[k].pc = "idle"
    /\ status # "none"
    /\ requests < MaxRequests
    /\ requests' = requests + 1
    /\ client' = [client EXCEPT ![k] = [pc |-> "editing", read |-> reviewState, to |-> "draft"]]
    /\ UNCHANGED <<rowVars, bare, request, job, run, exec, publishes, crashes, faults, lockLosses>>

EditRead(k) ==
    /\ client[k].pc = "idle"
    /\ status # "none"
    /\ requests < MaxRequests
    /\ reviewState # "approved"
    /\ requests' = requests + 1
    /\ client' = [client EXCEPT ![k] = [pc |-> "editing", read |-> reviewState, to |-> "draft"]]
    /\ UNCHANGED <<rowVars, bare, request, job, run, exec, publishes, crashes, faults, lockLosses>>

EditWrite(k) ==
    /\ client[k].pc = "editing"
    /\ text' = [by |-> "user", n |-> requests]
    /\ client' = [client EXCEPT ![k] = IdleClient]
    /\ UNCHANGED <<status, reviewState, bare, request, job, run, exec, bounds>>

-----------------------------------------------------------------------------
(* The publish pipeline, as far as this row is concerned *)

\* POST publish finds the generation approved and marks it publishing; the
\* recompute and the compensation then write any of the three states.
PublishWrites(r) ==
    /\ publishes < MaxPublishes
    /\ IF publishes = 0 THEN reviewState = "approved" /\ r = "publishing"
                        ELSE r \in {"approved", "publishing", "published"}
    /\ publishes' = publishes + 1
    /\ reviewState' = r
    /\ UNCHANGED <<status, text, bare, request, job, run, exec, client, requests, crashes,
                   faults, lockLosses>>

-----------------------------------------------------------------------------
(* jobs/generate-job.ts: makeGenerateHandler *)

At(s, pc) == exec[s].pc = pc
Goes(s, pc) == exec' = [exec EXCEPT ![s].pc = pc]

\* Faulty variant: the idempotency guard knows only 'failed'.
TakeCompletedAgain ==
    /\ job.state = "wait"
    /\ At("holder", "idle")
    /\ run' = run + 1
    /\ IF status = "failed"
         THEN job' = CompletedJob(job) /\ UNCHANGED exec
         ELSE /\ job' = TakenJob(job)
              /\ exec' = [exec EXCEPT !["holder"] = [pc |-> "checked", run |-> run + 1]]
    /\ UNCHANGED <<rowVars, bare, request, client, bounds>>

\* Faulty variant: the guard also stops on a generation that is running.
TakeUnlessRunning ==
    /\ job.state = "wait"
    /\ At("holder", "idle")
    /\ run' = run + 1
    /\ IF status \in Terminal \cup {"running"}
         THEN job' = CompletedJob(job) /\ UNCHANGED exec
         ELSE /\ job' = TakenJob(job)
              /\ exec' = [exec EXCEPT !["holder"] = [pc |-> "checked", run |-> run + 1]]
    /\ UNCHANGED <<rowVars, bare, request, client, bounds>>

\* The worker takes the job; the guard returns on a generation that ended.
Take ==
    /\ job.state = "wait"
    /\ At("holder", "idle")
    /\ run' = run + 1
    /\ IF status \in Terminal
         THEN job' = CompletedJob(job) /\ UNCHANGED exec
         ELSE /\ job' = TakenJob(job)
              /\ exec' = [exec EXCEPT !["holder"] = [pc |-> "checked", run |-> run + 1]]
    /\ UNCHANGED <<rowVars, bare, request, client, bounds>>

\* The update to 'running', with the project and the template read beside it.
Start(s) ==
    /\ At(s, "checked")
    /\ status' = "running"
    /\ Goes(s, "started")
    /\ UNCHANGED <<reviewState, text, bare, request, job, run, client, bounds>>

\* The materials, and one call that embeds those that need it; the API may
\* leave some out.
EmbedMaterials(s, left) ==
    /\ At(s, "started")
    /\ left => bare
    /\ bare' = left
    /\ Goes(s, "embedded")
    /\ UNCHANGED <<rowVars, request, job, run, client, bounds>>

\* The call throws and is caught.
EmbedMaterialsThrows(s) ==
    /\ At(s, "started")
    /\ bare
    /\ Goes(s, "failing")
    /\ UNCHANGED <<rowVars, bare, request, job, run, client, bounds>>

\* The prompt's embedding and the ranking of the materials.
EmbedPrompt(s) ==
    /\ At(s, "embedded")
    /\ Goes(s, "retrieved")
    /\ UNCHANGED <<rowVars, bare, request, job, run, client, bounds>>

\* The API answers with no vector.
EmbedPromptEmpty(s) ==
    /\ At(s, "embedded")
    /\ Goes(s, "failing")
    /\ UNCHANGED <<rowVars, bare, request, job, run, client, bounds>>

\* runGeneration, with its corrective second call.
Generate(s) ==
    /\ At(s, "retrieved")
    /\ Goes(s, "generated")
    /\ UNCHANGED <<rowVars, bare, request, job, run, client, bounds>>

\* Faulty variant: the error is caught and swallowed.
ModelErrorSwallowed(s) ==
    /\ exec[s].pc \in {"embedded", "retrieved"}
    /\ Goes(s, "returned")
    /\ UNCHANGED <<rowVars, bare, request, job, run, client, bounds>>

\* The prompt's embedding or runGeneration throws, and nothing catches it.
ModelThrows(s) ==
    /\ exec[s].pc \in {"embedded", "retrieved"}
    /\ Goes(s, "threw")
    /\ UNCHANGED <<rowVars, bare, request, job, run, client, bounds>>

\* The update to 'failed' before a throw.
WriteFailed(s) ==
    /\ At(s, "failing")
    /\ status' = "failed"
    /\ Goes(s, "threw")
    /\ UNCHANGED <<reviewState, text, bare, request, job, run, client, bounds>>

\* One update: the text and 'completed'.
Persist(s) ==
    /\ At(s, "generated")
    /\ status' = "completed"
    /\ text' = [by |-> "worker", n |-> exec[s].run]
    /\ Goes(s, "returned")
    /\ UNCHANGED <<reviewState, bare, request, job, run, client, bounds>>

\* A Postgres call throws; no write of the handler is caught.
HandlerThrows(s) ==
    /\ exec[s].pc \notin {"idle", "threw", "returned"}
    /\ Fault
    /\ Goes(s, "threw")
    /\ UNCHANGED <<rowVars, bare, request, job, run, client, otherBounds>>

\* The worker reports the outcome; without the lock the report is refused.
Ack(s) ==
    /\ exec[s].pc \in {"threw", "returned"}
    /\ exec' = [exec EXCEPT ![s] = IdleExec]
    /\ job' = IF s = "zombie" THEN job
              ELSE IF At(s, "returned") THEN CompletedJob(job)
              ELSE ThrownJob(job, Attempts)
    /\ UNCHANGED <<rowVars, bare, request, run, client, bounds>>

-----------------------------------------------------------------------------
(* The environment *)

LoseLock ==
    /\ lockLosses < MaxLockLosses
    /\ ~ At("holder", "idle")
    /\ At("zombie", "idle")
    /\ lockLosses' = lockLosses + 1
    /\ job' = StalledJob(job)
    /\ exec' = [s \in Slots |-> IF s = "zombie" THEN exec["holder"] ELSE IdleExec]
    /\ UNCHANGED <<rowVars, bare, request, run, client, requests, publishes, crashes, faults>>

Crash ==
    /\ crashes < MaxCrashes
    /\ crashes' = crashes + 1
    /\ request' = IF request = "created" THEN "lost" ELSE request
    /\ job' = IF job.state = "active" THEN StalledJob(job) ELSE job
    /\ exec' = [s \in Slots |-> IdleExec]
    /\ client' = [k \in Clients |-> IdleClient]
    /\ UNCHANGED <<rowVars, bare, run, requests, publishes, faults, lockLosses>>

-----------------------------------------------------------------------------
Api ==
    \/ CreateGeneration \/ EnqueueGeneration \/ EnqueueRefused
    \/ \E k \in Clients : \/ \E to \in ReviewStates : ReviewRead(k, to)
                          \/ ReviewWrite(k) \/ EditRead(k) \/ EditWrite(k)

\* The steps an execution takes by itself, errors of Postgres apart.
ExecStep(s) ==
    \/ Start(s)
    \/ \E left \in BOOLEAN : EmbedMaterials(s, left)
    \/ EmbedMaterialsThrows(s)
    \/ EmbedPrompt(s) \/ EmbedPromptEmpty(s)
    \/ Generate(s) \/ ModelThrows(s)
    \/ WriteFailed(s) \/ Persist(s)
    \/ Ack(s)

Next ==
    \/ Api
    \/ \E r \in ReviewStates : PublishWrites(r)
    \/ Take
    \/ \E s \in Slots : ExecStep(s) \/ HandlerThrows(s)
    \/ LoseLock \/ Crash

Spec == Init /\ [][Next]_vars

(***************************************************************************)
(* Fairness: a process that is up adds the job of a row it created, takes  *)
(* waiting jobs and goes on with what it started; the model's call is cut  *)
(* off after 60 seconds.  The steps of one execution never disable each    *)
(* other, so weak fairness is enough.                                      *)
(***************************************************************************)
FairSpec ==
    /\ Spec
    /\ WF_vars(EnqueueGeneration)
    /\ WF_vars(Take)
    /\ \A s \in Slots : WF_vars(ExecStep(s))

-----------------------------------------------------------------------------
(* Safety *)

\* What ended stays ended: while no worker has lost its lock, a generation
\* that is completed or failed keeps its status, and its text changes only by
\* a PATCH, however often the job is delivered again (generate-job.ts, the
\* idempotency guard: "retries can clobber outputMarkdown").
EndedStaysEnded ==
    [][(status \in Terminal /\ lockLosses = 0)
         => /\ status' = status
            /\ text' # text => text'.by = "user"]_vars

\* The text of an approved generation changes only in two ways: a PATCH that
\* had read the row before it was approved, or the worker when the reviewer
\* approved before the worker was done (generations.ts, the 409 of PATCH and
\* the review route, which does not look at the status).
ApprovedTextChanges ==
    [][(reviewState = "approved" /\ text' # text)
         => \/ \E k \in Clients : client[k].pc = "editing" /\ client[k].read # "approved"
            \/ \E s \in Slots : At(s, "generated")]_vars

\* A job that BullMQ counts as completed leaves an ended generation behind,
\* through crashes and errors: the guard never returns on one that still has
\* to be generated (generate-job.ts, the guard; the redelivery of queue.ts).
CompletedJobEnded ==
    job.state = "completed" /\ lockLosses = 0 => status \in Terminal

(* Liveness *)

\* An enqueued generation ends, or BullMQ gives its job up (the attempts of
\* queue.ts, one forgiven stall).  An execution that lost its lock may still
\* write 'running' over the end the next one wrote, and die.
EnqueuedGenerationEnds ==
    (request = "done") ~> (status \in Terminal \/ job.state = "failed" \/ lockLosses > 0)
=============================================================================
