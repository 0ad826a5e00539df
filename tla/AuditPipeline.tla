--------------------------- MODULE AuditPipeline ---------------------------
(***************************************************************************)
(* One site audit of JHEO, from POST /api/audits to its terminal status:   *)
(*                                                                         *)
(*   routes/audits.ts       creates the Audit row and enqueues the audit   *)
(*                          job; DELETE marks the row cancelled;           *)
(*   jobs/audit-job.ts      the audit handler: discovers pages, creates    *)
(*                          one PageAudit row per page, fans out one       *)
(*                          auditPage job per page, waits, rolls up;       *)
(*   jobs/page-audit-job.ts the page handler: audits one page;             *)
(*   queue.ts               the two BullMQ queues (see BullJob).           *)
(*                                                                         *)
(* Every await on Postgres or Redis is a point where the other actors may  *)
(* run, so a handler is a sequence of actions and `pc` / `pagePc` say what *)
(* it has read so far.  A process crash loses every pc; Postgres rows and  *)
(* Redis jobs survive.                                                     *)
(***************************************************************************)
EXTENDS Naturals, FiniteSets, BullJob

CONSTANTS
    Pages,           \* pages discovery may find on the site
    Orchestrator,    \* JHEO_AUDIT_ORCHESTRATOR: "flow" or "polling"
    AuditAttempts,   \* attempts of the audit queue (3 in queue.ts)
    PageAttempts,    \* attempts of a page job (1 under flow, 3 under polling)
    MaxDeletes,      \* bound: DELETE requests
    MaxCrashes,      \* bound: process crashes
    MaxFaults,       \* bound: transient Postgres or Redis errors
    MaxLockLosses    \* bound: page jobs whose live worker loses its lock

ASSUME OrchestratorAssumption == Orchestrator \in {"flow", "polling"}
ASSUME AttemptsAssumption ==
    /\ AuditAttempts \in Nat \ {0}
    /\ PageAttempts \in Nat \ {0}
ASSUME BoundsAssumption ==
    /\ MaxDeletes \in Nat
    /\ MaxCrashes \in Nat
    /\ MaxFaults \in Nat
    /\ MaxLockLosses \in Nat
ASSUME PagesAssumption == IsFiniteSet(Pages)

\* BullMQ runs the audit handler at most this many times for one job.
Runs == 1 .. (AuditAttempts + MaxStalledCount)

\* PageAudit rows: the row created by execution r of the audit handler for
\* page p.  The table has no unique key on (auditId, projectPageId), so a
\* second execution creates a second row.
Rows == Runs \X Pages

\* auditPage jobs: the job execution r of the audit handler adds for page p.
Jobs == Runs \X Pages

\* A page job has the execution that holds its lock and, after a lock loss,
\* one that runs on without it.
Slots == {"holder", "zombie"}

TerminalRow == {"completed", "failed", "skipped"}
TerminalAudit == {"completed", "failed", "cancelled"}

VARIABLES
    auditStatus,  \* Audit.status ("none" before the row exists)
    score,        \* Audit.score, meaningful once a rollup has been written
    rows,         \* PageAudit.status of every row
    findings,     \* how many times the row's Finding batch was committed
    request,      \* POST /api/audits: "idle", "created", "done", "lost"
    delete,       \* DELETE /api/audits/:id: "idle", "checked"
    auditJob,     \* the job of the audit queue
    run,          \* executions of the audit handler so far
    pc,           \* where the current execution of the audit handler is
    found,        \* pages this execution discovered
    scan,         \* what completeAuditFromPageScores has read so far
    jobs,         \* the jobs of the auditPage queue
    target,       \* pageAuditId in the job's data: the run of the row
    pagePc,       \* where each execution of the page handler is
    deadline,     \* some execution waited out AUDIT_ORCHESTRATOR_TIMEOUT_MS
    deletes, crashes, faults, lockLosses   \* counters of the bounds

dbVars == <<auditStatus, score, rows, findings>>
apiVars == <<request, delete, deletes>>
handlerVars == <<auditJob, run, pc, found, scan, deadline>>
pageVars == <<jobs, target, pagePc, lockLosses>>
envVars == <<crashes, faults>>
vars == <<dbVars, apiVars, handlerVars, pageVars, envVars>>

NoScore == [audited |-> 0, total |-> 0, errors |-> 0, findings |-> {}]
NoScan == [done |-> {}, audited |-> 0, errors |-> 0, findings |-> {}]

HandlerPcs == {"idle", "checked", "started", "rowsCreated", "waiting",
               "scoring", "threw", "rethrown", "returned"}
PagePcs == {"idle", "checked", "fetching", "returned", "threw"}

TypeOK ==
    /\ auditStatus \in {"none", "queued", "running"} \cup TerminalAudit
    /\ score \in [audited : Nat, total : Nat, errors : Nat, findings : SUBSET Rows]
    /\ rows \in [Rows -> {"none", "queued", "running"} \cup TerminalRow]
    /\ findings \in [Rows -> Nat]
    /\ request \in {"idle", "created", "done", "lost"}
    /\ delete \in {"idle", "checked"}
    /\ auditJob \in Job
    /\ run \in Nat
    /\ pc \in HandlerPcs
    /\ found \in SUBSET Pages
    /\ scan \in [done : SUBSET {"findings", "rows", "failed"},
                 audited : Nat, errors : Nat, findings : SUBSET Rows]
    /\ jobs \in [Jobs -> Job]
    /\ target \in [Jobs -> Runs]
    /\ pagePc \in [Jobs \X Slots -> PagePcs]
    /\ deadline \in BOOLEAN
    /\ deletes \in 0 .. MaxDeletes
    /\ crashes \in 0 .. MaxCrashes
    /\ faults \in 0 .. MaxFaults
    /\ lockLosses \in 0 .. MaxLockLosses

Init ==
    /\ auditStatus = "none"
    /\ score = NoScore
    /\ rows = [r \in Rows |-> "none"]
    /\ findings = [r \in Rows |-> 0]
    /\ request = "idle"
    /\ delete = "idle"
    /\ auditJob = NoJob
    /\ run = 0
    /\ pc = "idle"
    /\ found = {}
    /\ scan = NoScan
    /\ jobs = [j \in Jobs |-> NoJob]
    /\ target = [j \in Jobs |-> j[1]]
    /\ pagePc = [e \in Jobs \X Slots |-> "idle"]
    /\ deadline = FALSE
    /\ deletes = 0
    /\ crashes = 0
    /\ faults = 0
    /\ lockLosses = 0

RowsIn(S) == {r \in Rows : rows[r] \in S}
ExistingRows == {r \in Rows : rows[r] # "none"}
RowOf(j) == <<target[j], j[2]>>

\* A Postgres or Redis call fails; the bound is on how often.
Fault == faults < MaxFaults /\ faults' = faults + 1
NoFault == UNCHANGED faults

-----------------------------------------------------------------------------
(* routes/audits.ts *)

\* prisma.audit.create
CreateAudit ==
    /\ request = "idle"
    /\ request' = "created"
    /\ auditStatus' = "queued"
    /\ UNCHANGED <<score, rows, findings, delete, deletes, handlerVars, pageVars, envVars>>

\* auditQueue.add
EnqueueAudit ==
    /\ request = "created"
    /\ request' = "done"
    /\ auditJob' = AddedJob
    /\ UNCHANGED <<dbVars, delete, deletes, run, pc, found, scan, deadline, pageVars, envVars>>

\* auditQueue.add throws: the client sees a 500, the row stays behind.
EnqueueAuditFails ==
    /\ request = "created"
    /\ Fault
    /\ request' = "lost"
    /\ UNCHANGED <<dbVars, delete, deletes, handlerVars, pageVars, crashes>>

\* DELETE reads the audit and passes the 409 check ...
DeleteRead ==
    /\ delete = "idle"
    /\ deletes < MaxDeletes
    /\ auditStatus \in {"queued", "running"}
    /\ delete' = "checked"
    /\ deletes' = deletes + 1
    /\ UNCHANGED <<dbVars, request, handlerVars, pageVars, envVars>>

\* ... and writes the row, whatever its status has become.
DeleteWrite ==
    /\ delete = "checked"
    /\ delete' = "idle"
    /\ auditStatus' = "cancelled"
    /\ UNCHANGED <<score, rows, findings, request, deletes, handlerVars, pageVars, envVars>>

-----------------------------------------------------------------------------
(* jobs/audit-job.ts: makeAuditHandler *)

\* Faulty variant: the guard stops only on a completed audit.
TakeAuditAgainAfterFailure ==
    /\ pc = "idle"
    /\ auditJob.state = "wait"
    /\ run' = run + 1
    /\ IF auditStatus = "completed"
         THEN pc' = "idle" /\ auditJob' = CompletedJob(auditJob)
         ELSE pc' = "checked" /\ auditJob' = TakenJob(auditJob)
    /\ UNCHANGED <<dbVars, apiVars, found, scan, deadline, pageVars, envVars>>

\* Faulty variant: the guard also stops on an audit another execution runs.
TakeAuditUnlessRunning ==
    /\ pc = "idle"
    /\ auditJob.state = "wait"
    /\ run' = run + 1
    /\ IF auditStatus \in {"running", "completed", "failed"}
         THEN pc' = "idle" /\ auditJob' = CompletedJob(auditJob)
         ELSE pc' = "checked" /\ auditJob' = TakenJob(auditJob)
    /\ UNCHANGED <<dbVars, apiVars, found, scan, deadline, pageVars, envVars>>

\* The worker takes the job; the handler reads the audit and returns at once
\* when it is completed or failed.
TakeAudit ==
    /\ pc = "idle"
    /\ auditJob.state = "wait"
    /\ run' = run + 1
    /\ IF auditStatus \in {"completed", "failed"}
         THEN pc' = "idle" /\ auditJob' = CompletedJob(auditJob)
         ELSE pc' = "checked" /\ auditJob' = TakenJob(auditJob)
    /\ UNCHANGED <<dbVars, apiVars, found, scan, deadline, pageVars, envVars>>

\* The unconditional update to 'running'.
MarkRunning ==
    /\ pc = "checked"
    /\ pc' = "started"
    /\ auditStatus' = "running"
    /\ UNCHANGED <<score, rows, findings, apiVars, auditJob, run, found, scan, deadline,
                   pageVars, envVars>>

\* A call before the try block throws: the handler rejects, no row is written.
AbortBeforeTry ==
    /\ pc = "checked"
    /\ Fault
    /\ pc' = "rethrown"
    /\ UNCHANGED <<dbVars, apiVars, auditJob, run, found, scan, deadline, pageVars, crashes>>

\* discoverSite and pageAudit.createMany: one queued row per page found.
DiscoverPages(P) ==
    /\ pc = "started"
    /\ pc' = "rowsCreated"
    /\ found' = P
    /\ rows' = [r \in Rows |-> IF r[1] = run /\ r[2] \in P THEN "queued" ELSE rows[r]]
    /\ UNCHANGED <<auditStatus, score, findings, apiVars, auditJob, run, scan, deadline,
                   pageVars, envVars>>

\* Faulty variant: the Map keeps the oldest queued row of a page.
OldestQueued(p) ==
    CHOOSE r \in Runs : /\ rows[<<r, p>>] = "queued"
                        /\ \A q \in Runs : rows[<<q, p>>] = "queued" => r <= q

\* runFlowOrchestrator: the queued rows are read in id order into a Map, so
\* the newest queued row of a page wins; one FlowProducer.add creates the
\* group and all its children.
NewestQueued(p) ==
    CHOOSE r \in Runs : /\ rows[<<r, p>>] = "queued"
                        /\ \A q \in Runs : rows[<<q, p>>] = "queued" => q <= r
FanOutFlow ==
    /\ pc = "rowsCreated"
    /\ Orchestrator = "flow"
    /\ \A p \in found : \E r \in Runs : rows[<<r, p>>] = "queued"
    /\ pc' = "waiting"
    /\ jobs' = [j \in Jobs |-> IF j[1] = run /\ j[2] \in found THEN AddedJob ELSE jobs[j]]
    /\ target' = [j \in Jobs |-> IF j[1] = run /\ j[2] \in found
                                   THEN NewestQueued(j[2]) ELSE target[j]]
    /\ UNCHANGED <<dbVars, apiVars, auditJob, run, found, scan, deadline, pagePc, lockLosses,
                   envVars>>

\* runPollingOrchestrator: page after page, any row of the page (findFirst
\* has no orderBy) and one auditPageQueue.add.
FanOutPolling(p, r) ==
    /\ pc = "rowsCreated"
    /\ Orchestrator = "polling"
    /\ p \in found
    /\ jobs[<<run, p>>] = NoJob
    /\ rows[<<r, p>>] # "none"
    /\ jobs' = [jobs EXCEPT ![<<run, p>>] = AddedJob]
    /\ target' = [target EXCEPT ![<<run, p>>] = r]
    /\ UNCHANGED <<dbVars, apiVars, handlerVars, pagePc, lockLosses, envVars>>

FannedOut ==
    /\ pc = "rowsCreated"
    /\ Orchestrator = "polling"
    /\ \A p \in found : jobs[<<run, p>>] # NoJob
    /\ pc' = "waiting"
    /\ UNCHANGED <<dbVars, apiVars, auditJob, run, found, scan, deadline, pageVars, envVars>>

\* Faulty variant: the wait ends one row early.
PagesTerminalButOne ==
    /\ pc = "waiting"
    /\ Cardinality(RowsIn(TerminalRow)) + 1 >= Cardinality(found)
    /\ pc' = "scoring"
    /\ UNCHANGED <<dbVars, apiVars, auditJob, run, found, scan, deadline, pageVars, envVars>>

\* waitForPagesTerminal: the count is over every row of the audit.
PagesTerminal ==
    /\ pc = "waiting"
    /\ Cardinality(RowsIn(TerminalRow)) >= Cardinality(found)
    /\ pc' = "scoring"
    /\ UNCHANGED <<dbVars, apiVars, auditJob, run, found, scan, deadline, pageVars, envVars>>

\* The group job ran: BullMQ starts it when all its children completed.
GroupFinished ==
    /\ pc = "waiting"
    /\ Orchestrator = "flow"
    /\ \A p \in found : jobs[<<run, p>>].state = "completed"
    /\ pc' = "scoring"
    /\ UNCHANGED <<dbVars, apiVars, auditJob, run, found, scan, deadline, pageVars, envVars>>

\* The poll loop's deadline: it returns without an error.
PollDeadline ==
    /\ pc = "waiting"
    /\ pc' = "scoring"
    /\ deadline' = TRUE
    /\ UNCHANGED <<dbVars, apiVars, auditJob, run, found, scan, pageVars, envVars>>

\* waitUntilFinished's deadline: it rejects, and may win the race.
FlowDeadline ==
    /\ pc = "waiting"
    /\ Orchestrator = "flow"
    /\ pc' = "threw"
    /\ deadline' = TRUE
    /\ UNCHANGED <<dbVars, apiVars, auditJob, run, found, scan, pageVars, envVars>>

\* Any other call inside the try block throws.
HandlerThrows ==
    /\ pc \in {"started", "rowsCreated", "waiting", "scoring"}
    /\ Fault
    /\ pc' = "threw"
    /\ scan' = NoScan
    /\ UNCHANGED <<dbVars, apiVars, auditJob, run, found, deadline, pageVars, crashes>>

\* The catch block: failed only if still running, then rethrow.
CatchWrite ==
    /\ pc = "threw"
    /\ pc' = "rethrown"
    /\ auditStatus' = IF auditStatus = "running" THEN "failed" ELSE auditStatus
    /\ UNCHANGED <<score, rows, findings, apiVars, auditJob, run, found, scan, deadline,
                   pageVars, envVars>>

\* The catch block's own update throws.
CatchWriteFails ==
    /\ pc = "threw"
    /\ Fault
    /\ pc' = "rethrown"
    /\ UNCHANGED <<dbVars, apiVars, auditJob, run, found, scan, deadline, pageVars, crashes>>

\* Faulty variant: the findings are read while the pages are awaited.
ScanFindingsEarly ==
    /\ pc \in {"waiting", "scoring"}
    /\ "findings" \notin scan.done
    /\ scan' = [scan EXCEPT !.done = @ \cup {"findings"},
                            !.findings = {r \in Rows : findings[r] > 0}]
    /\ UNCHANGED <<dbVars, apiVars, auditJob, run, pc, found, deadline, pageVars, envVars>>

\* completeAuditFromPageScores: three reads in parallel, no transaction.
ScanFindings ==
    /\ pc = "scoring"
    /\ "findings" \notin scan.done
    /\ scan' = [scan EXCEPT !.done = @ \cup {"findings"},
                            !.findings = {r \in Rows : findings[r] > 0}]
    /\ UNCHANGED <<dbVars, apiVars, auditJob, run, pc, found, deadline, pageVars, envVars>>

ScanRows ==
    /\ pc = "scoring"
    /\ "rows" \notin scan.done
    /\ scan' = [scan EXCEPT !.done = @ \cup {"rows"},
                            !.audited = Cardinality(RowsIn({"completed"}))]
    /\ UNCHANGED <<dbVars, apiVars, auditJob, run, pc, found, deadline, pageVars, envVars>>

ScanFailed ==
    /\ pc = "scoring"
    /\ "failed" \notin scan.done
    /\ scan' = [scan EXCEPT !.done = @ \cup {"failed"},
                            !.errors = Cardinality(RowsIn({"failed"}))]
    /\ UNCHANGED <<dbVars, apiVars, auditJob, run, pc, found, deadline, pageVars, envVars>>

\* The conditional update: completed with the rollup, only if still running.
CompleteAudit ==
    /\ pc = "scoring"
    /\ scan.done = {"findings", "rows", "failed"}
    /\ pc' = "returned"
    /\ scan' = NoScan
    /\ IF auditStatus = "running"
         THEN /\ auditStatus' = "completed"
              /\ score' = [audited |-> scan.audited, total |-> Cardinality(found),
                           errors |-> scan.errors, findings |-> scan.findings]
         ELSE UNCHANGED <<auditStatus, score>>
    /\ UNCHANGED <<rows, findings, apiVars, auditJob, run, found, deadline, pageVars, envVars>>

\* The worker reports the outcome to Redis.
AckAudit ==
    /\ pc \in {"returned", "rethrown"}
    /\ pc' = "idle"
    /\ auditJob' = IF pc = "returned" THEN CompletedJob(auditJob)
                                      ELSE ThrownJob(auditJob, AuditAttempts)
    /\ found' = {}
    /\ scan' = NoScan
    /\ UNCHANGED <<dbVars, apiVars, run, deadline, pageVars, envVars>>

-----------------------------------------------------------------------------
(* jobs/page-audit-job.ts: makePageAuditHandler *)

\* Faulty variant: no idempotency guard.
TakePageUnguarded(j) ==
    /\ jobs[j].state = "wait"
    /\ pagePc[<<j, "holder">>] = "idle"
    /\ jobs' = [jobs EXCEPT ![j] = TakenJob(@)]
    /\ pagePc' = [pagePc EXCEPT ![<<j, "holder">>] = "checked"]
    /\ UNCHANGED <<dbVars, apiVars, handlerVars, target, lockLosses, envVars>>

\* Faulty variant: the guard lets a failed row through.
TakePageAfterFailure(j) ==
    /\ jobs[j].state = "wait"
    /\ pagePc[<<j, "holder">>] = "idle"
    /\ IF rows[RowOf(j)] = "completed"
         THEN /\ jobs' = [jobs EXCEPT ![j] = CompletedJob(@)]
              /\ UNCHANGED pagePc
         ELSE /\ jobs' = [jobs EXCEPT ![j] = TakenJob(@)]
              /\ pagePc' = [pagePc EXCEPT ![<<j, "holder">>] = "checked"]
    /\ UNCHANGED <<dbVars, apiVars, handlerVars, target, lockLosses, envVars>>

\* Faulty variant: the guard also stops on a row that is running.
TakePageUnlessRunning(j) ==
    /\ jobs[j].state = "wait"
    /\ pagePc[<<j, "holder">>] = "idle"
    /\ IF rows[RowOf(j)] \in {"running", "completed", "failed"}
         THEN /\ jobs' = [jobs EXCEPT ![j] = CompletedJob(@)]
              /\ UNCHANGED pagePc
         ELSE /\ jobs' = [jobs EXCEPT ![j] = TakenJob(@)]
              /\ pagePc' = [pagePc EXCEPT ![<<j, "holder">>] = "checked"]
    /\ UNCHANGED <<dbVars, apiVars, handlerVars, target, lockLosses, envVars>>

\* The worker takes the job; the handler reads the row and returns at once
\* when it is completed or failed.
TakePage(j) ==
    /\ jobs[j].state = "wait"
    /\ pagePc[<<j, "holder">>] = "idle"
    /\ IF rows[RowOf(j)] \in {"completed", "failed"}
         THEN /\ jobs' = [jobs EXCEPT ![j] = CompletedJob(@)]
              /\ UNCHANGED pagePc
         ELSE /\ jobs' = [jobs EXCEPT ![j] = TakenJob(@)]
              /\ pagePc' = [pagePc EXCEPT ![<<j, "holder">>] = "checked"]
    /\ UNCHANGED <<dbVars, apiVars, handlerVars, target, lockLosses, envVars>>

\* The parent is read: a cancelled audit skips the page.
SkipPage(j, s) ==
    /\ pagePc[<<j, s>>] = "checked"
    /\ auditStatus = "cancelled"
    /\ rows' = [rows EXCEPT ![RowOf(j)] = "skipped"]
    /\ pagePc' = [pagePc EXCEPT ![<<j, s>>] = "returned"]
    /\ UNCHANGED <<auditStatus, score, findings, apiVars, handlerVars, jobs, target, lockLosses,
                   envVars>>

\* Otherwise the row is marked running, unconditionally.
StartPage(j, s) ==
    /\ pagePc[<<j, s>>] = "checked"
    /\ auditStatus # "cancelled"
    /\ rows' = [rows EXCEPT ![RowOf(j)] = "running"]
    /\ pagePc' = [pagePc EXCEPT ![<<j, s>>] = "fetching"]
    /\ UNCHANGED <<auditStatus, score, findings, apiVars, handlerVars, jobs, target, lockLosses,
                   envVars>>

\* The transaction: findings, row and page in one commit.
CommitPage(j, s) ==
    /\ pagePc[<<j, s>>] = "fetching"
    /\ findings' = [findings EXCEPT ![RowOf(j)] = @ + 1]
    /\ rows' = [rows EXCEPT ![RowOf(j)] = "completed"]
    /\ pagePc' = [pagePc EXCEPT ![<<j, s>>] = "returned"]
    /\ UNCHANGED <<auditStatus, score, apiVars, handlerVars, jobs, target, lockLosses, envVars>>

\* Faulty variant: a status the schema does not have.
FailPageUnknown(j, s) ==
    /\ pagePc[<<j, s>>] = "fetching"
    /\ rows' = [rows EXCEPT ![RowOf(j)] = "errored"]
    /\ pagePc' = [pagePc EXCEPT ![<<j, s>>] = "threw"]
    /\ UNCHANGED <<auditStatus, score, findings, apiVars, handlerVars, jobs, target, lockLosses,
                   envVars>>

\* The fetch, a plugin or the transaction throws: the catch block marks the
\* row failed, unconditionally, and rethrows.
FailPage(j, s) ==
    /\ pagePc[<<j, s>>] = "fetching"
    /\ rows' = [rows EXCEPT ![RowOf(j)] = "failed"]
    /\ pagePc' = [pagePc EXCEPT ![<<j, s>>] = "threw"]
    /\ UNCHANGED <<auditStatus, score, findings, apiVars, handlerVars, jobs, target, lockLosses,
                   envVars>>

\* A Postgres call outside the try block, or the catch block's own, throws.
AbortPage(j, s) ==
    /\ pagePc[<<j, s>>] \in {"checked", "fetching"}
    /\ Fault
    /\ pagePc' = [pagePc EXCEPT ![<<j, s>>] = "threw"]
    /\ UNCHANGED <<dbVars, apiVars, handlerVars, jobs, target, lockLosses, crashes>>

\* The worker reports the outcome to Redis; without the lock the report is
\* refused and changes nothing.
AckPage(j, s) ==
    /\ pagePc[<<j, s>>] \in {"returned", "threw"}
    /\ pagePc' = [pagePc EXCEPT ![<<j, s>>] = "idle"]
    /\ jobs' = IF s = "zombie" THEN jobs
               ELSE [jobs EXCEPT ![j] = IF pagePc[<<j, s>>] = "returned"
                                          THEN CompletedJob(@)
                                          ELSE ThrownJob(@, PageAttempts)]
    /\ UNCHANGED <<dbVars, apiVars, handlerVars, target, lockLosses, envVars>>

-----------------------------------------------------------------------------
(* The environment *)

\* A worker that still runs fails to renew its lock (a blocked event loop, a
\* Redis outage): the job is given to another execution while this one goes
\* on.
LoseLock(j) ==
    /\ lockLosses < MaxLockLosses
    /\ pagePc[<<j, "holder">>] # "idle"
    /\ pagePc[<<j, "zombie">>] = "idle"
    /\ lockLosses' = lockLosses + 1
    /\ jobs' = [jobs EXCEPT ![j] = StalledJob(@)]
    /\ pagePc' = [pagePc EXCEPT ![<<j, "zombie">>] = pagePc[<<j, "holder">>],
                                ![<<j, "holder">>] = "idle"]
    /\ UNCHANGED <<dbVars, apiVars, handlerVars, target, envVars>>

\* The API process dies: requests and executions are lost, locks expire.
Crash ==
    /\ crashes < MaxCrashes
    /\ crashes' = crashes + 1
    /\ request' = IF request = "created" THEN "lost" ELSE request
    /\ delete' = "idle"
    /\ pc' = "idle"
    /\ found' = {}
    /\ scan' = NoScan
    /\ auditJob' = IF auditJob.state = "active" THEN StalledJob(auditJob) ELSE auditJob
    /\ jobs' = [j \in Jobs |-> IF jobs[j].state = "active" THEN StalledJob(jobs[j]) ELSE jobs[j]]
    /\ pagePc' = [e \in Jobs \X Slots |-> "idle"]
    /\ UNCHANGED <<dbVars, deletes, run, deadline, target, lockLosses, faults>>

-----------------------------------------------------------------------------
Api == CreateAudit \/ EnqueueAudit \/ EnqueueAuditFails \/ DeleteRead \/ DeleteWrite

AuditHandler ==
    \/ TakeAudit \/ MarkRunning \/ AbortBeforeTry
    \/ \E P \in SUBSET Pages : DiscoverPages(P)
    \/ FanOutFlow
    \/ \E p \in Pages, r \in Runs : FanOutPolling(p, r)
    \/ FannedOut
    \/ PagesTerminal \/ GroupFinished \/ PollDeadline \/ FlowDeadline
    \/ HandlerThrows \/ CatchWrite \/ CatchWriteFails
    \/ ScanFindings \/ ScanRows \/ ScanFailed \/ CompleteAudit
    \/ AckAudit

PageHandler(j, s) ==
    \/ SkipPage(j, s) \/ StartPage(j, s) \/ CommitPage(j, s) \/ FailPage(j, s)
    \/ AbortPage(j, s) \/ AckPage(j, s)

PageWorker(j) == TakePage(j) \/ LoseLock(j) \/ \E s \in Slots : PageHandler(j, s)

Next == Api \/ AuditHandler \/ (\E j \in Jobs : PageWorker(j)) \/ Crash

Spec == Init /\ [][Next]_vars

-----------------------------------------------------------------------------
(***************************************************************************)
(* Fairness.  BullMQ workers poll for ever and every await of a handler    *)
(* settles (fetches and locks are bounded by timeouts, the wait by the     *)
(* 30-minute deadline), so a process that stays up takes the next step of  *)
(* a handler it has started.  Nothing obliges a client to send a request,  *)
(* a fault or a crash to happen, or a lock to be lost.                     *)
(***************************************************************************)
AuditStep ==
    \/ TakeAudit \/ MarkRunning
    \/ \E P \in SUBSET Pages : DiscoverPages(P)
    \/ FanOutFlow
    \/ \E p \in Pages, r \in Runs : FanOutPolling(p, r)
    \/ FannedOut
    \/ PagesTerminal \/ GroupFinished \/ PollDeadline \/ FlowDeadline
    \/ CatchWrite
    \/ ScanFindings \/ ScanRows \/ ScanFailed \/ CompleteAudit
    \/ AckAudit

PageStep(j) ==
    \/ TakePage(j)
    \/ \E s \in Slots : SkipPage(j, s) \/ StartPage(j, s) \/ CommitPage(j, s)
                         \/ FailPage(j, s) \/ AckPage(j, s)

Fairness ==
    /\ WF_vars(EnqueueAudit)
    /\ WF_vars(DeleteWrite)
    /\ WF_vars(AuditStep)
    /\ \A j \in Jobs : WF_vars(PageStep(j))

FairSpec == Spec /\ Fairness

-----------------------------------------------------------------------------
(* Safety *)

\* A page's findings are committed exactly when its row is completed, and
\* once, however often BullMQ delivers the page job: a job delivered again
\* after a crash between the commit and the acknowledgement must not add a
\* second batch (page-audit-job.ts, the guard and the transaction).
FindingsOncePerRow ==
    \A r \in Rows : findings[r] = IF rows[r] = "completed" THEN 1 ELSE 0

\* A worker that lost its lock runs on beside its successor, and both may
\* commit: every lost lock costs at most one more batch (page-audit-job.ts:98-154,
\* the guard is read before the transaction).
BatchesBounded ==
    \A r \in Rows : findings[r] <= 1 + lockLosses

\* A page row that has been completed or failed never changes again
\* (page-audit-job.ts, the idempotency guard against unconditional updates).
RowOutcomeFinal ==
    [][\A r \in Rows : rows[r] \in {"completed", "failed"} => rows'[r] = rows[r]]_vars

\* A completed audit whose handler ran once within its deadline is complete:
\* no page of it is still queued or running, so nothing can be added to a
\* published score (runFlowOrchestrator, completeAuditFromPageScores).
CompletedMeansPagesDone ==
    auditStatus = "completed" /\ run = 1 /\ ~deadline =>
        RowsIn({"queued", "running"}) = {}

\* Under the same conditions the three unsynchronised reads of the rollup
\* agree with each other and with the rows: every completed page is counted,
\* with its findings, and every failed one.
ScoreMatchesRows ==
    auditStatus = "completed" /\ run = 1 /\ ~deadline =>
        /\ score.findings = RowsIn({"completed"})
        /\ score.audited = Cardinality(RowsIn({"completed"}))
        /\ score.errors = Cardinality(RowsIn({"failed"}))
        /\ score.audited + score.errors <= score.total

\* What a project's owner reads of a completed audit is therefore exact: no
\* page is outstanding, and the score is that of the rows
\* (completeAuditFromPageScores).
PublishedScoreExact == CompletedMeansPagesDone /\ ScoreMatchesRows

\* Only a DELETE that read the audit while it was live takes a completed or
\* failed audit out of that status: no retry, stall, late handler or late
\* catch block does (audit-job.ts, the guard and the two conditional
\* updates).
OnlyDeleteLeavesTerminal ==
    [][(auditStatus \in {"completed", "failed"} /\ auditStatus' # auditStatus)
         => (delete = "checked" /\ auditStatus' = "cancelled")]_vars

\* Two page jobs never work on the same row under the flow orchestrator:
\* each execution of the audit handler hands out its own rows, although the
\* query selects every queued row of the audit (runFlowOrchestrator).
JobsHaveOwnRows ==
    \A j, k \in Jobs : /\ j # k
                       /\ jobs[j].state # "absent"
                       /\ jobs[k].state # "absent"
                       => RowOf(j) # RowOf(k)

\* When BullMQ is done with the audit's job the audit has ended too, unless
\* the process died on it twice or every attempt was used up by a Postgres
\* or Redis error or by a DELETE (audit-job.ts: the catch block, the
\* unconditional restart of a cancelled audit, the attempts of queue.ts).
JobEndsAuditEnds ==
    /\ Finished(auditJob)
    /\ auditJob.stalled <= MaxStalledCount
    /\ faults + deletes < AuditAttempts
    => auditStatus \in TerminalAudit

\* Without DELETE the pipeline implements the abstract lifecycle.
Lifecycle == INSTANCE AuditLifecycle
    WITH status <- auditStatus, result <- score,
         Scores <- [audited : Nat, total : Nat, errors : Nat, findings : SUBSET Rows]
LifecycleImplemented == Lifecycle!LifecycleSpec

(* Liveness *)

\* An audit whose job was enqueued reaches a terminal status, through one
\* crash or one transient error (the retry, the stall recovery, the deadline
\* and the catch block together).
EnqueuedAuditEnds == (request = "done") ~> (auditStatus \in TerminalAudit)

\* A page row whose job was enqueued does not stay queued or running: the
\* job is delivered again after a crash and the guard lets it run.  (An error
\* of Postgres in the catch block of the last attempt may leave it running.)
EnqueuedPagesEnd ==
    \A j \in Jobs :
        (jobs[j].state # "absent") ~> (rows[RowOf(j)] \in TerminalRow \/ faults > 0)

\* Whatever was enqueued ends, the audit and its pages (makeAuditHandler,
\* makePageAuditHandler).
EnqueuedEnds == EnqueuedAuditEnds /\ EnqueuedPagesEnd

-----------------------------------------------------------------------------
(* A claim of the documentation the code does not keep (see README). *)

\* Design F5, section 5.4: the handler bails when the audit is cancelled, so
\* a cancelled audit never goes back to work.
CancelledStaysCancelled ==
    [][(auditStatus = "cancelled") => (auditStatus' = "cancelled")]_vars
=============================================================================
