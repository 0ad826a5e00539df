------------------------ MODULE AuditPipelineProofs ------------------------
(***************************************************************************)
(* Safety of AuditPipeline for every value of its constants.               *)
(*                                                                         *)
(* The inductive invariant says who may touch what: the audit handler and  *)
(* the job it holds exist together (HandlerOwnership), and so do a page      *)
(* handler and its job (PageOwnership); each execution is paid for *)
(* by an attempt or a stall (RunAccounting), an execution that has not     *)
(* created its rows or jobs yet finds none under its own number            *)
(* (FreshRun), and, under the flow orchestrator, the rows of the current   *)
(* execution stay queued until it hands them out (OwnRows).                *)
(***************************************************************************)
EXTENDS AuditPipeline, BullJobProofs, FiniteSetTheorems, TLAPS

RunAccounting ==
    /\ auditJob.state = "absent" => run = 0
    /\ auditJob.state = "wait" =>
         /\ run = auditJob.made + auditJob.stalled
         /\ auditJob.made < AuditAttempts
         /\ auditJob.stalled <= MaxStalledCount
    /\ auditJob.state \in {"active", "completed"} =>
         /\ run = auditJob.made + auditJob.stalled + 1
         /\ auditJob.made < AuditAttempts
         /\ auditJob.stalled <= MaxStalledCount
    /\ run <= AuditAttempts + MaxStalledCount

HandlerOwnership ==
    /\ (auditStatus = "none") <=> (request = "idle")
    /\ auditJob.state # "absent" => request = "done"
    /\ (pc # "idle") <=> (auditJob.state = "active")
    /\ pc = "checked" => auditStatus \notin {"completed", "failed"}
    /\ delete = "checked" => auditStatus # "none"

PageOwnership ==
    /\ \A j \in Jobs : pagePc[<<j, "holder">>] # "idle" => jobs[j].state = "active"
    /\ \A j \in Jobs, s \in Slots : pagePc[<<j, s>>] # "idle" => jobs[j].state # "absent"
    /\ \A j \in Jobs : jobs[j].state # "absent" => rows[RowOf(j)] # "none"

FreshRun ==
    /\ \A r \in Rows : rows[r] # "none" => r[1] <= run
    /\ \A j \in Jobs : jobs[j].state # "absent" => j[1] <= run
    /\ pc \in {"checked", "started"} =>
         /\ \A r \in Rows : rows[r] # "none" => r[1] < run
         /\ \A j \in Jobs : jobs[j].state # "absent" => j[1] < run

OwnRows ==
    Orchestrator = "flow" =>
        /\ \A j \in Jobs : target[j] = j[1]
        /\ pc = "rowsCreated" =>
             /\ \A p \in found : rows[<<run, p>>] = "queued"
             /\ \A j \in Jobs : jobs[j].state # "absent" => j[1] < run

IInv == TypeOK /\ RunAccounting /\ HandlerOwnership /\ PageOwnership /\ FreshRun /\ OwnRows

\* Without lock losses there is one execution per job, and what it read of
\* its row still holds.
NoLockLoss ==
    /\ lockLosses = 0
    /\ \A j \in Jobs : pagePc[<<j, "zombie">>] = "idle"

RowsRead ==
    /\ \A j \in Jobs : pagePc[<<j, "holder">>] = "checked" =>
                           rows[RowOf(j)] \notin {"completed", "failed"}
    /\ \A j \in Jobs : pagePc[<<j, "holder">>] = "fetching" => rows[RowOf(j)] = "running"
    /\ FindingsOncePerRow

PageInv == NoLockLoss /\ RowsRead

-----------------------------------------------------------------------------
(* Rows, jobs and runs. *)

\* What the assumptions say of the runs and attempts of queue.ts.
LEMMA Constants ==
    /\ Runs \subseteq Nat
    /\ MaxStalledCount = 1
    /\ AuditAttempts \in Nat /\ AuditAttempts > 0
    /\ PageAttempts \in Nat /\ PageAttempts > 0
BY AttemptsAssumption DEF Runs, MaxStalledCount

\* Rows and jobs are pairs of an execution of the audit handler and a page.
LEMMA Pairs ==
    /\ Jobs = Rows
    /\ \A r \in Rows : r[1] \in Runs /\ r[2] \in Pages /\ r = <<r[1], r[2]>>
    /\ \A r \in Runs, p \in Pages : <<r, p>> \in Rows
    /\ \A r, p : <<r, p>>[1] = r /\ <<r, p>>[2] = p
BY DEF Jobs, Rows

\* An execution of the page handler is a job and a slot.
LEMMA SlotPairs ==
    /\ "holder" \in Slots /\ "zombie" \in Slots /\ "holder" # "zombie"
    /\ \A s \in Slots : s = "holder" \/ s = "zombie"
    /\ \A j \in Jobs, s \in Slots : <<j, s>> \in Jobs \X Slots
    /\ \A e \in Jobs \X Slots : e[1] \in Jobs /\ e[2] \in Slots /\ e = <<e[1], e[2]>>
BY DEF Slots

\* A page job points to a row (pageAuditId in its data).
LEMMA RowOfIsRow ==
    ASSUME target \in [Jobs -> Runs], NEW j \in Jobs
    PROVE  RowOf(j) \in Rows
BY Pairs DEF RowOf

\* The counts of the rollup are natural numbers.
LEMMA FiniteRows ==
    /\ \A S : Cardinality(RowsIn(S)) \in Nat
    /\ \A P \in SUBSET Pages : Cardinality(P) \in Nat
<1>1. IsFiniteSet(Runs)
  BY Constants, FS_Interval DEF Runs
<1>2. IsFiniteSet(Rows)
  BY <1>1, PagesAssumption, FS_Product DEF Rows
<1>3. \A S : RowsIn(S) \in SUBSET Rows
  BY DEF RowsIn
<1>4. QED
  BY <1>2, <1>3, PagesAssumption, FS_Subset, FS_CardinalityType

-----------------------------------------------------------------------------
(***************************************************************************)
(* Steps by what they touch.  A move of the audit handler keeps the job,   *)
(* the rows and the page jobs; a move of a page handler keeps everything   *)
(* but its own program counter and its row.                                *)
(***************************************************************************)
HandlerMove ==
    /\ pc # "idle"
    /\ pc' \notin {"idle", "checked", "started", "rowsCreated"}
    /\ \/ auditStatus' = auditStatus
       \/ auditStatus = "running" /\ auditStatus' \in {"completed", "failed"}
    /\ UNCHANGED <<rows, findings, request, delete, deletes, auditJob, run, found,
                   jobs, target, pagePc, lockLosses>>

PageMove(j, s) ==
    /\ pagePc[<<j, s>>] # "idle"
    /\ \E c \in PagePcs : pagePc' = [pagePc EXCEPT ![<<j, s>>] = c]
    /\ \/ rows' = rows
       \/ \E v \in {"running"} \cup TerminalRow : rows' = [rows EXCEPT ![RowOf(j)] = v]
    /\ UNCHANGED <<auditStatus, request, delete, deletes, auditJob, run, pc, found,
                   jobs, target, lockLosses>>

ClientMove ==
    /\ auditStatus \in {"queued", "running"} \/ delete' = "idle"
    /\ \/ auditStatus' = auditStatus
       \/ delete = "checked" /\ auditStatus' = "cancelled"
    /\ UNCHANGED <<rows, findings, request, auditJob, run, pc, found,
                   jobs, target, pagePc, lockLosses>>

\* audit-job.ts past the update to running: the steps that only move the
\* handler on or write the audit's final status.
LEMMA HandlerMoves ==
    ASSUME \/ AbortBeforeTry \/ FannedOut \/ PagesTerminal \/ GroupFinished
           \/ PollDeadline \/ FlowDeadline \/ HandlerThrows \/ CatchWrite \/ CatchWriteFails
           \/ ScanFindings \/ ScanRows \/ ScanFailed \/ CompleteAudit
    PROVE  HandlerMove
<1> USE DEF HandlerMove, dbVars, apiVars, handlerVars, pageVars, envVars
<1>1. CASE AbortBeforeTry
  BY <1>1 DEF AbortBeforeTry
<1>2. CASE FannedOut \/ PagesTerminal \/ GroupFinished
  BY <1>2 DEF FannedOut, PagesTerminal, GroupFinished
<1>3. CASE PollDeadline \/ FlowDeadline \/ HandlerThrows
  BY <1>3 DEF PollDeadline, FlowDeadline, HandlerThrows
<1>4. CASE CatchWrite \/ CatchWriteFails
  BY <1>4 DEF CatchWrite, CatchWriteFails
<1>5. CASE ScanFindings \/ ScanRows \/ ScanFailed
  BY <1>5 DEF ScanFindings, ScanRows, ScanFailed
<1>6. CASE CompleteAudit
  BY <1>6 DEF CompleteAudit
<1>7. QED
  BY <1>1, <1>2, <1>3, <1>4, <1>5, <1>6

\* page-audit-job.ts: the steps of a page handler that only move it on or
\* write its row.
LEMMA PageMoves ==
    ASSUME NEW j \in Jobs, NEW s \in Slots,
           SkipPage(j, s) \/ StartPage(j, s) \/ CommitPage(j, s) \/ FailPage(j, s)
             \/ AbortPage(j, s)
    PROVE  PageMove(j, s) /\ pagePc[<<j, s>>] \in {"checked", "fetching"}
<1> USE DEF PageMove, PagePcs, TerminalRow, dbVars, apiVars, handlerVars, pageVars, envVars
<1>1. CASE SkipPage(j, s)
  BY <1>1 DEF SkipPage
<1>2. CASE StartPage(j, s)
  BY <1>2 DEF StartPage
<1>3. CASE CommitPage(j, s)
  BY <1>3 DEF CommitPage
<1>4. CASE FailPage(j, s)
  BY <1>4 DEF FailPage
<1>5. CASE AbortPage(j, s)
  BY <1>5 DEF AbortPage
<1>6. QED
  BY <1>1, <1>2, <1>3, <1>4, <1>5

\* Every step is of one of the kinds above or is named here.
LEMMA StepKinds ==
    ASSUME Next
    PROVE  \/ CreateAudit \/ EnqueueAudit \/ EnqueueAuditFails
           \/ ClientMove
           \/ TakeAudit \/ MarkRunning
           \/ \E P \in SUBSET Pages : DiscoverPages(P)
           \/ FanOutFlow
           \/ \E p \in Pages, r \in Runs : FanOutPolling(p, r)
           \/ HandlerMove
           \/ AckAudit
           \/ \E j \in Jobs : TakePage(j) \/ LoseLock(j)
           \/ \E j \in Jobs, s \in Slots : PageMove(j, s) \/ AckPage(j, s)
           \/ Crash
<1>1. CASE DeleteRead \/ DeleteWrite
  BY <1>1 DEF DeleteRead, DeleteWrite, ClientMove, handlerVars, pageVars, dbVars
<1>2. QED
  BY <1>1, HandlerMoves, PageMoves DEF Next, Api, AuditHandler, PageWorker, PageHandler

-----------------------------------------------------------------------------
(* The inductive invariant, conjunct by conjunct. *)

\* The strengthened invariant holds before the first POST.
THEOREM InitIInv == Init => IInv
<1> SUFFICES ASSUME Init PROVE IInv
  OBVIOUS
<1> USE Constants, Pairs, SlotPairs, FreshJobs, BoundsAssumption DEF Init
<1>1. TypeOK
  <2>1. target \in [Jobs -> Runs]
    OBVIOUS
  <2>2. /\ rows \in [Rows -> {"none", "queued", "running"} \cup TerminalRow]
        /\ findings \in [Rows -> Nat]
        /\ jobs \in [Jobs -> Job]
        /\ pagePc \in [Jobs \X Slots -> PagePcs]
    BY DEF PagePcs
  <2>3. /\ score \in [audited : Nat, total : Nat, errors : Nat, findings : SUBSET Rows]
        /\ scan \in [done : SUBSET {"findings", "rows", "failed"},
                     audited : Nat, errors : Nat, findings : SUBSET Rows]
    BY DEF NoScore, NoScan
  <2>4. /\ auditStatus = "none" /\ request = "idle" /\ delete = "idle" /\ pc \in HandlerPcs
        /\ auditJob \in Job /\ run \in Nat /\ found \in SUBSET Pages /\ deadline \in BOOLEAN
    BY DEF HandlerPcs
  <2>5. /\ deletes \in 0 .. MaxDeletes /\ crashes \in 0 .. MaxCrashes
        /\ faults \in 0 .. MaxFaults /\ lockLosses \in 0 .. MaxLockLosses
    OBVIOUS
  <2>6. QED
    BY ONLY <2>1, <2>2, <2>3, <2>4, <2>5 DEF TypeOK
<1>2. RunAccounting
  BY DEF RunAccounting
<1>3. HandlerOwnership /\ PageOwnership
  BY DEF HandlerOwnership, PageOwnership
<1>4. FreshRun /\ OwnRows
  BY DEF FreshRun, OwnRows
<1>5. QED
  BY <1>1, <1>2, <1>3, <1>4 DEF IInv

\* queue.ts: each execution of the audit handler is paid for by an attempt
\* or a stall.
LEMMA NextRunAccounting == IInv /\ Next => RunAccounting'
<1> SUFFICES ASSUME IInv, Next PROVE RunAccounting'
  OBVIOUS
<1> USE Constants, FreshJobs DEF RunAccounting
<1>0. auditJob \in Job /\ run \in Nat
  BY DEF IInv, TypeOK
<1>1. CASE EnqueueAudit
  <2>1. auditJob.state = "absent"
    BY <1>1 DEF EnqueueAudit, IInv, HandlerOwnership
  <2>2. auditJob' = AddedJob /\ run' = run
    BY <1>1 DEF EnqueueAudit
  <2>3. QED
    BY <2>1, <2>2 DEF IInv
<1>2. CASE TakeAudit
  <2>1. auditJob.state = "wait" /\ run' = run + 1
    BY <1>2 DEF TakeAudit
  <2>2. auditJob' \in {TakenJob(auditJob), CompletedJob(auditJob)}
    BY <1>2 DEF TakeAudit
  <2>3. QED
    BY <1>0, <2>1, <2>2, TakeAndComplete DEF IInv, Job
<1>3. CASE AckAudit
  <2>1. auditJob.state = "active" /\ run' = run
    BY <1>3 DEF AckAudit, IInv, HandlerOwnership, envVars
  <2>2. CASE auditJob' = CompletedJob(auditJob)
    BY <1>0, <2>1, <2>2, TakeAndComplete DEF IInv
  <2>3. CASE auditJob' = ThrownJob(auditJob, AuditAttempts)
    <3> DEFINE t == ThrownJob(auditJob, AuditAttempts)
    <3>1. /\ t.made = auditJob.made + 1 /\ t.stalled = auditJob.stalled
          /\ t.state \in {"wait", "failed"}
          /\ t.state = "wait" => auditJob.made + 1 < AuditAttempts
      BY <1>0, Thrown
    <3>2. auditJob.made \in Nat /\ auditJob.stalled \in Nat
      BY <1>0 DEF Job
    <3> HIDE DEF t
    <3>3. QED
      BY <1>0, <2>1, <2>3, <3>1, <3>2 DEF IInv, t
  <2>4. QED
    BY <1>3, <2>2, <2>3 DEF AckAudit
<1>4. CASE Crash
  <2>1. run' = run
    BY <1>4 DEF Crash
  <2>2. auditJob' = IF auditJob.state = "active" THEN StalledJob(auditJob) ELSE auditJob
    BY <1>4 DEF Crash
  <2>3. QED
    BY <1>0, <2>1, <2>2, Stalled DEF IInv, Job
<1>5. CASE UNCHANGED <<auditJob, run>>
  BY <1>5 DEF IInv
<1>6. \/ EnqueueAudit \/ TakeAudit \/ AckAudit \/ Crash \/ UNCHANGED <<auditJob, run>>
  BY StepKinds DEF CreateAudit, EnqueueAuditFails, ClientMove, MarkRunning, DiscoverPages, FanOutFlow,
     FanOutPolling, HandlerMove, TakePage, LoseLock, PageMove, AckPage, handlerVars
<1>7. QED
  BY <1>1, <1>2, <1>3, <1>4, <1>5, <1>6

\* audit-job.ts: an execution of the audit handler holds the audit's job, and
\* the job exists only after the row.
LEMMA NextHandlerOwnership == IInv /\ Next => HandlerOwnership'
<1> SUFFICES ASSUME IInv, Next PROVE HandlerOwnership'
  OBVIOUS
<1> USE FreshJobs DEF HandlerOwnership
<1>0. auditJob \in Job /\ HandlerOwnership
  BY DEF IInv, TypeOK
<1>1. CASE CreateAudit
  BY <1>0, <1>1 DEF CreateAudit, handlerVars
<1>2. CASE EnqueueAudit \/ EnqueueAuditFails
  BY <1>0, <1>2 DEF EnqueueAudit, EnqueueAuditFails, dbVars, handlerVars
<1>3. CASE ClientMove
  <2>1. CASE auditStatus' = auditStatus
    BY <1>0, <1>3, <2>1 DEF ClientMove
  <2>2. CASE delete = "checked" /\ auditStatus' = "cancelled"
    BY <1>0, <1>3, <2>2 DEF ClientMove
  <2>3. QED
    BY <1>3, <2>1, <2>2 DEF ClientMove
<1>4. CASE TakeAudit
  BY <1>0, <1>4, TakeAndComplete DEF TakeAudit, dbVars, apiVars
<1>5. CASE MarkRunning
  BY <1>0, <1>5 DEF MarkRunning, apiVars
<1>6. CASE HandlerMove
  BY <1>0, <1>6 DEF HandlerMove
<1>7. CASE AckAudit
  BY <1>0, <1>7, TakeAndComplete, Thrown, Constants DEF AckAudit, dbVars, apiVars
<1>8. CASE Crash
  BY <1>0, <1>8, Stalled DEF Crash, dbVars
<1>9. CASE \/ \E P \in SUBSET Pages : DiscoverPages(P)
           \/ FanOutFlow
           \/ \E p \in Pages, r \in Runs : FanOutPolling(p, r)
  BY <1>0, <1>9 DEF DiscoverPages, FanOutFlow, FanOutPolling, dbVars, apiVars, handlerVars
<1>10. CASE \/ \E j \in Jobs : TakePage(j) \/ LoseLock(j)
            \/ \E j \in Jobs, s \in Slots : PageMove(j, s) \/ AckPage(j, s)
  BY <1>0, <1>10 DEF TakePage, LoseLock, PageMove, AckPage, dbVars, apiVars, handlerVars
<1>11. QED
  BY StepKinds, <1>1, <1>2, <1>3, <1>4, <1>5, <1>6, <1>7, <1>8, <1>9, <1>10

\* The number of the current execution is within the bound.
LEMMA RunInRuns ==
    ASSUME IInv, pc # "idle"
    PROVE  run \in Runs
BY Constants DEF IInv, TypeOK, RunAccounting, HandlerOwnership, Runs, Job

\* Under the flow orchestrator the newest queued row of a page is the one the
\* current execution created, so the Map of runFlowOrchestrator picks it.
LEMMA NewestIsOwn ==
    ASSUME IInv, FanOutFlow, NEW p \in found
    PROVE  run \in Runs /\ NewestQueued(p) = run
<1>1. /\ run \in Nat /\ p \in Pages
      /\ rows[<<run, p>>] = "queued"
  BY DEF IInv, TypeOK, OwnRows, FanOutFlow
<1>2. \A r \in Rows : rows[r] # "none" => r[1] <= run
  BY DEF IInv, FreshRun
<1>3. \E r \in Runs : rows[<<r, p>>] = "queued"
  BY DEF FanOutFlow
<1>4. run \in Runs
  <2>1. run >= 1
    <3>1. PICK r \in Runs : rows[<<r, p>>] = "queued"
      BY <1>3
    <3>2. r <= run /\ r >= 1
      BY <1>1, <1>2, <3>1, Pairs DEF Runs
    <3>3. QED
      BY <1>1, <3>2, Constants
  <2>2. run <= AuditAttempts + MaxStalledCount
    BY DEF IInv, RunAccounting
  <2>3. QED
    BY <1>1, <2>1, <2>2, Constants DEF Runs
<1>5. \A q \in Runs : rows[<<q, p>>] = "queued" => q <= run
  BY <1>1, <1>2, Pairs
<1>6. \A r \in Runs :
        /\ rows[<<r, p>>] = "queued"
        /\ \A q \in Runs : rows[<<q, p>>] = "queued" => q <= r
        => r = run
  BY <1>1, <1>4, <1>5, Constants
<1>7. QED
  BY <1>1, <1>4, <1>5, <1>6 DEF NewestQueued

\* Every step keeps the variables in their types.
LEMMA NextTypeOK == IInv /\ [Next]_vars => TypeOK'
<1> SUFFICES ASSUME IInv, [Next]_vars PROVE TypeOK'
  OBVIOUS
<1> USE Constants, Pairs, SlotPairs, BoundsAssumption, FreshJobs
<1> USE DEF TypeOK, HandlerPcs, PagePcs, Fault, NoScan,
            dbVars, apiVars, handlerVars, pageVars, envVars
<1>0. TypeOK
  BY DEF IInv
<1>1. CASE CreateAudit
  BY <1>0, <1>1 DEF CreateAudit
<1>2. CASE EnqueueAudit
  BY <1>0, <1>2 DEF EnqueueAudit
<1>3. CASE EnqueueAuditFails
  BY <1>0, <1>3 DEF EnqueueAuditFails
<1>4. CASE DeleteRead
  BY <1>0, <1>4 DEF DeleteRead
<1>5. CASE DeleteWrite
  BY <1>0, <1>5 DEF DeleteWrite, TerminalAudit
<1>6. CASE TakeAudit
  BY <1>0, <1>6, TakeAndComplete DEF TakeAudit
<1>7. CASE MarkRunning
  BY <1>0, <1>7 DEF MarkRunning
<1>8. CASE AbortBeforeTry
  BY <1>0, <1>8 DEF AbortBeforeTry
<1>9. ASSUME NEW P \in SUBSET Pages, DiscoverPages(P) PROVE TypeOK'
  BY <1>0, <1>9 DEF DiscoverPages
<1>10. CASE FanOutFlow
  <2>1. ASSUME NEW p \in found PROVE NewestQueued(p) \in Runs
    BY <1>0, <1>10, <2>1, NewestIsOwn DEF IInv, FanOutFlow
  <2>2. target' \in [Jobs -> Runs] /\ jobs' \in [Jobs -> Job]
    BY <1>0, <1>10, <2>1 DEF FanOutFlow
  <2>3. QED
    BY <1>0, <1>10, <2>2 DEF FanOutFlow
<1>11. ASSUME NEW p \in Pages, NEW r \in Runs, FanOutPolling(p, r) PROVE TypeOK'
  BY <1>0, <1>11 DEF FanOutPolling
<1>12. CASE FannedOut
  BY <1>0, <1>12 DEF FannedOut
<1>13. CASE PagesTerminal
  BY <1>0, <1>13 DEF PagesTerminal
<1>14. CASE GroupFinished
  BY <1>0, <1>14 DEF GroupFinished
<1>15. CASE PollDeadline
  BY <1>0, <1>15 DEF PollDeadline
<1>16. CASE FlowDeadline
  BY <1>0, <1>16 DEF FlowDeadline
<1>17. CASE HandlerThrows
  BY <1>0, <1>17 DEF HandlerThrows
<1>18. CASE CatchWrite
  BY <1>0, <1>18 DEF CatchWrite, TerminalAudit
<1>19. CASE CatchWriteFails
  BY <1>0, <1>19 DEF CatchWriteFails
<1>20. CASE ScanFindings
  BY <1>0, <1>20 DEF ScanFindings
<1>21. CASE ScanRows
  BY <1>0, <1>21, FiniteRows DEF ScanRows
<1>22. CASE ScanFailed
  BY <1>0, <1>22, FiniteRows DEF ScanFailed
<1>23. CASE CompleteAudit
  <2>1. score' \in [audited : Nat, total : Nat, errors : Nat, findings : SUBSET Rows]
    BY <1>0, <1>23, FiniteRows DEF CompleteAudit
  <2>2. auditStatus' \in {"none", "queued", "running"} \cup TerminalAudit
    BY <1>0, <1>23 DEF CompleteAudit, TerminalAudit
  <2>3. QED
    BY <1>0, <1>23, <2>1, <2>2 DEF CompleteAudit
<1>24. CASE AckAudit
  BY <1>0, <1>24, TakeAndComplete, Thrown DEF AckAudit
<1>25. ASSUME NEW j \in Jobs, TakePage(j) PROVE TypeOK'
  <2>1. jobs' \in [Jobs -> Job]
    BY <1>0, <1>25, TakeAndComplete DEF TakePage
  <2>2. pagePc' \in [Jobs \X Slots -> PagePcs]
    <3>1. \/ pagePc' = pagePc
          \/ pagePc' = [pagePc EXCEPT ![<<j, "holder">>] = "checked"]
      BY <1>25 DEF TakePage
    <3>2. QED
      BY <1>0, <3>1
  <2>3. QED
    BY <1>0, <1>25, <2>1, <2>2 DEF TakePage
<1>26. ASSUME NEW j \in Jobs, LoseLock(j) PROVE TypeOK'
  <2>1. jobs' \in [Jobs -> Job]
    BY <1>0, <1>26, Stalled DEF LoseLock
  <2>2. pagePc' \in [Jobs \X Slots -> PagePcs]
    BY <1>0, <1>26 DEF LoseLock
  <2>3. lockLosses' \in 0 .. MaxLockLosses
    BY <1>0, <1>26 DEF LoseLock
  <2>4. UNCHANGED <<dbVars, apiVars, handlerVars, target, envVars>>
    BY <1>26 DEF LoseLock
  <2>5. QED
    BY ONLY <1>0, <2>1, <2>2, <2>3, <2>4
    DEF TypeOK, dbVars, apiVars, handlerVars, envVars
<1>27. ASSUME NEW j \in Jobs, NEW s \in Slots, SkipPage(j, s) PROVE TypeOK'
  <2>1. pagePc' \in [Jobs \X Slots -> PagePcs]
    BY <1>0, <1>27 DEF SkipPage
  <2>2. rows' \in [Rows -> {"none", "queued", "running"} \cup TerminalRow]
    BY <1>0, <1>27, RowOfIsRow DEF SkipPage, TerminalRow
  <2>3. QED
    BY <1>0, <1>27, <2>1, <2>2 DEF SkipPage
<1>28. ASSUME NEW j \in Jobs, NEW s \in Slots, StartPage(j, s) PROVE TypeOK'
  BY <1>0, <1>28, RowOfIsRow, TakeAndComplete, Thrown DEF StartPage
<1>29. ASSUME NEW j \in Jobs, NEW s \in Slots, CommitPage(j, s) PROVE TypeOK'
  <2>1. pagePc' \in [Jobs \X Slots -> PagePcs]
    BY <1>0, <1>29 DEF CommitPage
  <2>2. /\ rows' \in [Rows -> {"none", "queued", "running"} \cup TerminalRow]
        /\ findings' \in [Rows -> Nat]
    BY <1>0, <1>29, RowOfIsRow DEF CommitPage, TerminalRow
  <2>3. QED
    BY <1>0, <1>29, <2>1, <2>2 DEF CommitPage
<1>30. ASSUME NEW j \in Jobs, NEW s \in Slots, FailPage(j, s) PROVE TypeOK'
  <2>1. pagePc' \in [Jobs \X Slots -> PagePcs]
    BY <1>0, <1>30 DEF FailPage
  <2>2. rows' \in [Rows -> {"none", "queued", "running"} \cup TerminalRow]
    BY <1>0, <1>30, RowOfIsRow DEF FailPage, TerminalRow
  <2>3. QED
    BY <1>0, <1>30, <2>1, <2>2 DEF FailPage
<1>31. ASSUME NEW j \in Jobs, NEW s \in Slots, AbortPage(j, s) PROVE TypeOK'
  <2>1. pagePc' \in [Jobs \X Slots -> PagePcs]
    BY <1>0, <1>31 DEF AbortPage
  <2>3. QED
    BY <1>0, <1>31, <2>1 DEF AbortPage
<1>32. ASSUME NEW j \in Jobs, NEW s \in Slots, AckPage(j, s) PROVE TypeOK'
  <2>1. pagePc' \in [Jobs \X Slots -> PagePcs]
    BY <1>0, <1>32 DEF AckPage
  <2>2. jobs' \in [Jobs -> Job]
    BY <1>0, <1>32, TakeAndComplete, Thrown DEF AckPage
  <2>3. QED
    BY <1>0, <1>32, <2>1, <2>2 DEF AckPage
<1>33. CASE Crash
  BY <1>0, <1>33, Stalled DEF Crash
<1>34. CASE UNCHANGED vars
  BY <1>0, <1>34 DEF vars
<1>35. QED
  BY <1>1, <1>2, <1>3, <1>4, <1>5, <1>6, <1>7, <1>8, <1>9, <1>10, <1>11, <1>12, <1>13, <1>14, <1>15, <1>16, <1>17, <1>18, <1>19, <1>20, <1>21, <1>22, <1>23, <1>24, <1>25, <1>26, <1>27, <1>28, <1>29, <1>30, <1>31, <1>32, <1>33, <1>34
  DEF Next, Api, AuditHandler, PageWorker, PageHandler

\* Jobs and rows, once created, exist for ever.
LEMMA NothingVanishes ==
    ASSUME IInv, Next
    PROVE  /\ \A r \in Rows : rows[r] # "none" => rows'[r] # "none"
           /\ \A j \in Jobs : jobs[j].state # "absent" => jobs'[j].state # "absent"
<1> USE Pairs, SlotPairs, FreshJobs DEF dbVars, handlerVars, pageVars
<1>0. TypeOK
  BY DEF IInv
<1>1. CASE \E P \in SUBSET Pages : DiscoverPages(P)
  BY <1>0, <1>1 DEF DiscoverPages, TypeOK
<1>2. CASE FanOutFlow \/ \E p \in Pages, r \in Runs : FanOutPolling(p, r)
  <2>1. CASE FanOutFlow
    BY <1>0, <2>1 DEF FanOutFlow, TypeOK
  <2>2. CASE \E p \in Pages, r \in Runs : FanOutPolling(p, r)
    <3>1. PICK p \in Pages, r \in Runs : FanOutPolling(p, r)
      BY <2>2
    <3>2. rows' = rows /\ jobs' = [jobs EXCEPT ![<<run, p>>] = AddedJob]
      BY <3>1 DEF FanOutPolling
    <3>3. QED
      BY <1>0, <3>2 DEF TypeOK
  <2>3. QED
    BY <1>2, <2>1, <2>2
<1>3. CASE \E j \in Jobs : TakePage(j) \/ LoseLock(j)
  <2>1. PICK j \in Jobs : TakePage(j) \/ LoseLock(j)
    BY <1>3
  <2>2. /\ rows' = rows
        /\ \E job \in {TakenJob(jobs[j]), CompletedJob(jobs[j]), StalledJob(jobs[j])} :
             jobs' = [jobs EXCEPT ![j] = job]
    BY <2>1 DEF TakePage, LoseLock
  <2>3. \A job \in {TakenJob(jobs[j]), CompletedJob(jobs[j]), StalledJob(jobs[j])} :
          job.state # "absent"
    BY <1>0, TakeAndComplete, Stalled DEF TypeOK
  <2>4. QED
    BY <1>0, <2>2, <2>3 DEF TypeOK
<1>4. CASE \E j \in Jobs, s \in Slots : AckPage(j, s)
  <2>1. PICK j \in Jobs, s \in Slots : AckPage(j, s)
    BY <1>4
  <2>2. \/ jobs' = jobs
        \/ jobs' = [jobs EXCEPT ![j] = CompletedJob(jobs[j])]
        \/ jobs' = [jobs EXCEPT ![j] = ThrownJob(jobs[j], PageAttempts)]
    BY <2>1 DEF AckPage
  <2>3. rows' = rows
    BY <2>1 DEF AckPage
  <2>4. /\ CompletedJob(jobs[j]).state # "absent"
        /\ ThrownJob(jobs[j], PageAttempts).state # "absent"
    BY <1>0, TakeAndComplete, Thrown, Constants DEF TypeOK
  <2>5. QED
    BY <1>0, <2>2, <2>3, <2>4 DEF TypeOK
<1>5. CASE \E j \in Jobs, s \in Slots : PageMove(j, s)
  BY <1>0, <1>5, RowOfIsRow DEF PageMove, TerminalRow, TypeOK
<1>6. CASE Crash
  BY <1>0, <1>6, Stalled DEF Crash, TypeOK
<1>7. CASE UNCHANGED <<rows, jobs>>
  BY <1>7
<1>8. QED
  BY StepKinds, <1>1, <1>2, <1>3, <1>4, <1>5, <1>6, <1>7
  DEF CreateAudit, EnqueueAudit, EnqueueAuditFails, ClientMove, TakeAudit, MarkRunning, HandlerMove,
      AckAudit

\* A job appears only when the audit handler fans out, and a row only when it
\* creates the rows of its own run.
LEMMA OnlyFanOutAdds ==
    ASSUME IInv, Next
    PROVE  /\ \A r \in Rows : rows'[r] # "none" /\ rows[r] = "none" =>
                                r[1] = run /\ pc' = "rowsCreated" /\ run' = run
           /\ \A j \in Jobs : jobs'[j].state # "absent" /\ jobs[j].state = "absent" =>
                                /\ pc = "rowsCreated" /\ run' = run
                                /\ FanOutFlow \/ \E p \in Pages, r \in Runs : FanOutPolling(p, r)
                                /\ j[1] = run
<1> USE Pairs, SlotPairs, FreshJobs DEF dbVars, handlerVars, pageVars
<1>0. TypeOK /\ PageOwnership
  BY DEF IInv
<1>1. CASE \E P \in SUBSET Pages : DiscoverPages(P)
  BY <1>0, <1>1 DEF DiscoverPages, TypeOK
<1>2. CASE FanOutFlow
  BY <1>0, <1>2 DEF FanOutFlow, TypeOK
<1>3. CASE \E p \in Pages, r \in Runs : FanOutPolling(p, r)
  <2>1. PICK p \in Pages, r \in Runs : FanOutPolling(p, r)
    BY <1>3
  <2>2. /\ pc = "rowsCreated" /\ run' = run /\ rows' = rows
        /\ jobs' = [jobs EXCEPT ![<<run, p>>] = AddedJob]
    BY <2>1 DEF FanOutPolling
  <2>3. \A k \in Jobs : k # <<run, p>> => jobs'[k] = jobs[k]
    BY <1>0, <2>2 DEF TypeOK
  <2>4. QED
    BY <2>1, <2>2, <2>3
<1>4. CASE \E j \in Jobs : TakePage(j) \/ LoseLock(j)
  <2>1. PICK j \in Jobs : TakePage(j) \/ LoseLock(j)
    BY <1>4
  <2>2. jobs[j].state # "absent"
    BY <1>0, <2>1 DEF TakePage, LoseLock, PageOwnership
  <2>3. rows' = rows /\ \A k \in Jobs : k # j => jobs'[k] = jobs[k]
    BY <1>0, <2>1 DEF TakePage, LoseLock, TypeOK
  <2>4. QED
    BY <2>2, <2>3
<1>5. CASE \E j \in Jobs, s \in Slots : PageMove(j, s) \/ AckPage(j, s)
  <2>1. PICK j \in Jobs, s \in Slots : PageMove(j, s) \/ AckPage(j, s)
    BY <1>5
  <2>2. jobs[j].state # "absent" /\ rows[RowOf(j)] # "none"
    BY <1>0, <2>1 DEF PageMove, AckPage, PageOwnership
  <2>3. /\ \A k \in Jobs : k # j => jobs'[k] = jobs[k]
        /\ \A r \in Rows : r # RowOf(j) => rows'[r] = rows[r]
    BY <1>0, <2>1, RowOfIsRow DEF PageMove, AckPage, TypeOK
  <2>4. QED
    BY <2>2, <2>3
<1>6. CASE Crash
  BY <1>0, <1>6 DEF Crash, TypeOK
<1>7. CASE UNCHANGED <<rows, jobs>>
  BY <1>7
<1>8. QED
  BY StepKinds, <1>1, <1>2, <1>3, <1>4, <1>5, <1>6, <1>7
  DEF CreateAudit, EnqueueAudit, EnqueueAuditFails, ClientMove, TakeAudit, MarkRunning, HandlerMove,
      AckAudit

\* What an execution of the audit handler does to pc and run.
LEMMA RunSteps ==
    ASSUME IInv, Next
    PROVE  /\ run' = run \/ (TakeAudit /\ run' = run + 1)
           /\ pc' \in {"checked", "started"} =>
                TakeAudit \/ (run' = run /\ pc \in {"checked", "started"} /\ UNCHANGED <<rows, jobs>>)
                          \/ (run' = run /\ pc' = pc)
           /\ pc' = "rowsCreated" =>
                \/ (\E P \in SUBSET Pages : DiscoverPages(P))
                \/ (run' = run /\ pc' = pc /\ found' = found)
BY StepKinds
DEF CreateAudit, EnqueueAudit, EnqueueAuditFails, ClientMove, TakeAudit, MarkRunning, HandlerMove,
    AckAudit, DiscoverPages, FanOutFlow, FanOutPolling, TakePage, LoseLock, PageMove, AckPage, Crash,
    dbVars, handlerVars, pageVars

\* audit-job.ts: an execution that has not created its rows yet finds none,
\* and no job, under its own number.
LEMMA NextFreshRun == IInv /\ Next => FreshRun'
<1> SUFFICES ASSUME IInv, Next PROVE FreshRun'
  OBVIOUS
<1>0. FreshRun /\ run \in Nat /\ Runs \subseteq Nat
  BY Constants DEF IInv, TypeOK
<1> USE <1>0, Pairs DEF FreshRun
<1>1. \A r \in Rows : rows'[r] # "none" => r[1] <= run'
  BY OnlyFanOutAdds, RunSteps
<1>2. \A j \in Jobs : jobs'[j].state # "absent" => j[1] <= run'
  BY OnlyFanOutAdds, RunSteps
<1>3. ASSUME pc' \in {"checked", "started"}
      PROVE  /\ \A r \in Rows : rows'[r] # "none" => r[1] < run'
             /\ \A j \in Jobs : jobs'[j].state # "absent" => j[1] < run'
  <2>1. CASE TakeAudit
    <3>1. UNCHANGED <<rows, jobs>> /\ run' = run + 1
      BY <2>1 DEF TakeAudit, dbVars, pageVars
    <3>2. QED
      BY <3>1
  <2>2. CASE run' = run /\ pc \in {"checked", "started"} /\ UNCHANGED <<rows, jobs>>
    BY <2>2
  <2>3. CASE run' = run /\ pc' = pc
    BY <1>3, <2>3, OnlyFanOutAdds
  <2>4. QED
    BY <1>3, <2>1, <2>2, <2>3, RunSteps
<1>4. QED
  BY <1>1, <1>2, <1>3

\* runFlowOrchestrator: between createMany and the fan-out the rows of this
\* execution stay queued, so each job gets the row of its own execution.
LEMMA NextOwnRows == IInv /\ Next => OwnRows'
<1> SUFFICES ASSUME IInv, Next, Orchestrator = "flow"
             PROVE  /\ \A j \in Jobs : target'[j] = j[1]
                    /\ pc' = "rowsCreated" =>
                         /\ \A p \in found' : rows'[<<run', p>>] = "queued"
                         /\ \A j \in Jobs : jobs'[j].state # "absent" => j[1] < run'
  BY DEF OwnRows
<1> USE Pairs
<1>0. /\ TypeOK /\ FreshRun /\ PageOwnership
      /\ \A j \in Jobs : target[j] = j[1]
      /\ pc = "rowsCreated" =>
           /\ \A p \in found : rows[<<run, p>>] = "queued"
           /\ \A j \in Jobs : jobs[j].state # "absent" => j[1] < run
  BY DEF IInv, OwnRows
<1>1. \A j \in Jobs : target'[j] = j[1]
  <2>1. CASE FanOutFlow
    BY <1>0, <2>1, NewestIsOwn DEF FanOutFlow
  <2>2. CASE \E p \in Pages, r \in Runs : FanOutPolling(p, r)
    BY <2>2 DEF FanOutPolling
  <2>3. CASE target' = target
    BY <1>0, <2>3
  <2>4. QED
    BY <2>1, <2>2, <2>3, StepKinds
    DEF CreateAudit, EnqueueAudit, EnqueueAuditFails, ClientMove, TakeAudit, MarkRunning, HandlerMove,
        AckAudit, DiscoverPages, TakePage, LoseLock, PageMove, AckPage, Crash, pageVars
<1>2. CASE \E P \in SUBSET Pages : DiscoverPages(P)
  <2>1. PICK P \in SUBSET Pages : DiscoverPages(P)
    BY <1>2
  <2>2. /\ pc = "started" /\ run' = run /\ found' = P /\ jobs' = jobs
        /\ rows' = [r \in Rows |-> IF r[1] = run /\ r[2] \in P THEN "queued" ELSE rows[r]]
    BY <2>1 DEF DiscoverPages, pageVars
  <2>3. ASSUME NEW p \in P PROVE rows'[<<run, p>>] = "queued"
    <3>1. run \in Runs
      BY <1>0, RunInRuns, <2>2
    <3>2. QED
      BY <2>2, <3>1
  <2>4. QED
    BY <1>0, <1>1, <2>2, <2>3 DEF FreshRun
<1>3. ASSUME pc' = "rowsCreated", pc = "rowsCreated", run' = run, found' = found
      PROVE  /\ \A p \in found' : rows'[<<run', p>>] = "queued"
             /\ \A j \in Jobs : jobs'[j].state # "absent" => j[1] < run'
  <2>1. \A j \in Jobs : jobs'[j].state # "absent" => jobs[j].state # "absent"
    <3>1. ~FanOutFlow /\ ~(\E p \in Pages, r \in Runs : FanOutPolling(p, r))
      BY <1>3 DEF FanOutFlow, FanOutPolling
    <3>2. QED
      BY <3>1, OnlyFanOutAdds
  <2>2. ASSUME NEW p \in found PROVE rows'[<<run, p>>] = rows[<<run, p>>]
    <3>1. CASE rows' = rows
      BY <3>1
    <3>2. CASE \E j \in Jobs, s \in Slots : PageMove(j, s)
      <4>1. PICK j \in Jobs, s \in Slots : PageMove(j, s)
        BY <3>2
      <4>2. jobs[j].state # "absent" /\ RowOf(j)[1] = j[1]
        BY <1>0, <4>1 DEF PageMove, PageOwnership, RowOf
      <4>3. RowOf(j) # <<run, p>>
        BY <1>0, <1>3, <4>2 DEF TypeOK
      <4>4. \A r \in Rows : r # RowOf(j) => rows'[r] = rows[r]
        BY <1>0, <4>1 DEF PageMove, TypeOK
      <4>5. <<run, p>> \in Rows
        BY <1>0, RunInRuns, <1>3 DEF TypeOK
      <4>6. QED
        BY <4>3, <4>4, <4>5
    <3>3. QED
      BY <1>3, <3>1, <3>2, StepKinds
      DEF CreateAudit, EnqueueAudit, EnqueueAuditFails, ClientMove, TakeAudit, MarkRunning, HandlerMove,
          AckAudit, DiscoverPages, FanOutFlow, FanOutPolling, TakePage, LoseLock, AckPage, Crash,
          dbVars, pageVars
  <2>3. QED
    BY <1>0, <1>3, <2>1, <2>2
<1>4. QED
  BY <1>1, <1>2, <1>3, RunSteps DEF DiscoverPages

\* page-audit-job.ts: a page handler that holds the lock runs an active job,
\* and every job's row exists.
LEMMA NextPageOwnership == IInv /\ Next => PageOwnership'
<1> SUFFICES ASSUME IInv, Next PROVE PageOwnership'
  OBVIOUS
<1> USE Pairs, SlotPairs
<1>0. TypeOK /\ PageOwnership
  BY DEF IInv
<1>s. "holder" \in Slots /\ "zombie" \in Slots /\ "holder" # "zombie"
  OBVIOUS
<1>1. \A j \in Jobs : jobs'[j].state # "absent" => rows'[RowOf(j)'] # "none"
  <2>1. CASE FanOutFlow
    <3>1. ASSUME NEW j \in Jobs, jobs'[j].state # "absent"
          PROVE  rows[<<target'[j], j[2]>>] # "none"
      <4>1. CASE j[1] = run /\ j[2] \in found
        <5>1. rows[<<NewestQueued(j[2]), j[2]>>] = "queued"
          BY <2>1, <4>1, NewestIsOwn DEF FanOutFlow, IInv, OwnRows
        <5>2. QED
          BY <2>1, <4>1, <5>1 DEF FanOutFlow
      <4>2. CASE ~(j[1] = run /\ j[2] \in found)
        BY <1>0, <2>1, <3>1, <4>2 DEF FanOutFlow, PageOwnership, RowOf
      <4>3. QED
        BY <4>1, <4>2
    <3>2. QED
      BY <2>1, <3>1 DEF FanOutFlow, dbVars, RowOf
  <2>2. CASE \E p \in Pages, r \in Runs : FanOutPolling(p, r)
    <3>1. PICK p \in Pages, r \in Runs : FanOutPolling(p, r)
      BY <2>2
    <3>2. /\ rows' = rows /\ rows[<<r, p>>] # "none"
          /\ jobs' = [jobs EXCEPT ![<<run, p>>] = AddedJob]
          /\ target' = [target EXCEPT ![<<run, p>>] = r]
      BY <3>1 DEF FanOutPolling, dbVars
    <3>3. ASSUME NEW j \in Jobs, jobs'[j].state # "absent"
          PROVE  rows[<<target'[j], j[2]>>] # "none"
      <4>1. CASE j = <<run, p>>
        BY <1>0, <3>2, <4>1 DEF TypeOK
      <4>2. CASE j # <<run, p>>
        BY <1>0, <3>2, <3>3, <4>2 DEF TypeOK, PageOwnership, RowOf
      <4>3. QED
        BY <4>1, <4>2
    <3>4. QED
      BY <3>2, <3>3 DEF RowOf
  <2>3. CASE ~FanOutFlow /\ ~(\E p \in Pages, r \in Runs : FanOutPolling(p, r))
    <3>0. target' = target
      BY <2>3, StepKinds
      DEF CreateAudit, EnqueueAudit, EnqueueAuditFails, ClientMove, TakeAudit, MarkRunning, HandlerMove,
          AckAudit, DiscoverPages, TakePage, LoseLock, PageMove, AckPage, Crash, pageVars
    <3>1. \A j \in Jobs : jobs'[j].state # "absent" => jobs[j].state # "absent"
      BY <2>3, OnlyFanOutAdds
    <3>2. QED
      BY <1>0, <3>0, <3>1, NothingVanishes, RowOfIsRow DEF TypeOK, PageOwnership, RowOf
  <2>4. QED
    BY <2>1, <2>2, <2>3
<1>2. /\ \A j \in Jobs, s \in Slots : pagePc'[<<j, s>>] # "idle" => jobs'[j].state # "absent"
      /\ \A j \in Jobs : pagePc'[<<j, "holder">>] # "idle" => jobs'[j].state = "active"
  <2>1. CASE \/ FanOutFlow
             \/ \E p \in Pages, r \in Runs : FanOutPolling(p, r)
    <3>1. pagePc' = pagePc
      BY <2>1 DEF FanOutFlow, FanOutPolling
    <3>2. \A j \in Jobs : jobs[j].state # "absent" => jobs'[j] = jobs[j]
      <4>1. CASE FanOutFlow
        <5>1. \A j \in Jobs : jobs[j].state # "absent" => j[1] < run
          BY <4>1 DEF FanOutFlow, IInv, OwnRows
        <5>2. \A j \in Jobs : j[1] \in Nat
          BY Constants
        <5>3. run \in Nat
          BY <1>0 DEF TypeOK
        <5>4. \A j \in Jobs : jobs[j].state # "absent" => j[1] # run
          BY <5>1, <5>2, <5>3
        <5>5. QED
          BY <4>1, <5>4 DEF FanOutFlow
      <4>2. ASSUME NEW p \in Pages, NEW r \in Runs, FanOutPolling(p, r)
            PROVE  \A j \in Jobs : jobs[j].state # "absent" => jobs'[j] = jobs[j]
        BY <1>0, <4>2, FreshJobs DEF FanOutPolling, TypeOK
      <4>3. QED
        BY <2>1, <4>1, <4>2
    <3>3. QED
      BY <1>0, <3>1, <3>2 DEF PageOwnership
  <2>2. ASSUME NEW j \in Jobs, TakePage(j)
        PROVE  \A k \in Jobs : /\ pagePc'[<<k, "zombie">>] # "idle" => jobs'[k].state # "absent"
                               /\ pagePc'[<<k, "holder">>] # "idle" => jobs'[k].state = "active"
    <3>1. \/ pagePc' = pagePc /\ jobs' = [jobs EXCEPT ![j] = CompletedJob(jobs[j])]
          \/ /\ pagePc' = [pagePc EXCEPT ![<<j, "holder">>] = "checked"]
             /\ jobs' = [jobs EXCEPT ![j] = TakenJob(jobs[j])]
      BY <2>2 DEF TakePage
    <3>2. pagePc[<<j, "holder">>] = "idle"
      BY <2>2 DEF TakePage
    <3>3. /\ jobs[j] \in Job /\ jobs[j].state # "absent"
          /\ CompletedJob(jobs[j]).state # "absent"
          /\ TakenJob(jobs[j]).state = "active"
      BY <1>0, <2>2, TakeAndComplete DEF TypeOK, TakePage, TakenJob, CompletedJob, Job
    <3>4. \A k \in Jobs : k # j => jobs'[k] = jobs[k]
      BY <1>0, <3>1 DEF TypeOK
    <3>5. CASE /\ pagePc' = pagePc
               /\ jobs' = [jobs EXCEPT ![j] = CompletedJob(jobs[j])]
      <4>1. jobs'[j] = CompletedJob(jobs[j])
        BY <1>0, <3>5 DEF TypeOK
      <4>2. QED
        BY ONLY <1>0, <1>s, <3>2, <3>3, <3>4, <3>5, <4>1 DEF PageOwnership
    <3>6. CASE /\ pagePc' = [pagePc EXCEPT ![<<j, "holder">>] = "checked"]
               /\ jobs' = [jobs EXCEPT ![j] = TakenJob(jobs[j])]
      <4>1. jobs'[j] = TakenJob(jobs[j])
        BY <1>0, <3>6 DEF TypeOK
      <4>2. \A k \in Jobs, t \in Slots :
              k # j \/ t = "zombie" => pagePc'[<<k, t>>] = pagePc[<<k, t>>]
        BY <1>0, <3>6 DEF TypeOK
      <4>3. QED
        BY ONLY <1>0, <1>s, <3>3, <3>4, <4>1, <4>2 DEF PageOwnership
    <3>7. QED
      BY <3>1, <3>5, <3>6
  <2>3. ASSUME NEW j \in Jobs, LoseLock(j)
        PROVE  \A k \in Jobs : /\ pagePc'[<<k, "zombie">>] # "idle" => jobs'[k].state # "absent"
                               /\ pagePc'[<<k, "holder">>] # "idle" => jobs'[k].state = "active"
    <3>1. /\ jobs' = [jobs EXCEPT ![j] = StalledJob(jobs[j])]
          /\ pagePc' = [pagePc EXCEPT ![<<j, "zombie">>] = pagePc[<<j, "holder">>],
                                      ![<<j, "holder">>] = "idle"]
      BY <2>3 DEF LoseLock
    <3>2. /\ pagePc'[<<j, "holder">>] = "idle"
          /\ \A k \in Jobs, t \in Slots : k # j => pagePc'[<<k, t>>] = pagePc[<<k, t>>]
      BY <1>0, <3>1 DEF TypeOK
    <3>3. \A k \in Jobs : k # j => jobs'[k] = jobs[k]
      BY <1>0, <3>1 DEF TypeOK
    <3>4. jobs'[j].state # "absent"
      <4>1. jobs[j].state # "absent"
        BY <1>0, <2>3 DEF LoseLock, PageOwnership
      <4>2. QED
        BY <4>1, NothingVanishes
    <3>5. QED
      BY ONLY <1>0, <1>s, <3>2, <3>3, <3>4 DEF PageOwnership
  <2>4. ASSUME NEW j \in Jobs, NEW s \in Slots, PageMove(j, s)
        PROVE  \A k \in Jobs : /\ pagePc'[<<k, "zombie">>] # "idle" => jobs'[k].state # "absent"
                               /\ pagePc'[<<k, "holder">>] # "idle" => jobs'[k].state = "active"
    <3>1. PICK c \in PagePcs : pagePc' = [pagePc EXCEPT ![<<j, s>>] = c]
      BY <2>4 DEF PageMove
    <3>2. pagePc[<<j, s>>] # "idle" /\ jobs' = jobs
      BY <2>4 DEF PageMove
    <3>3. \A k \in Jobs, t \in Slots : pagePc'[<<k, t>>] # "idle" => pagePc[<<k, t>>] # "idle"
      BY <1>0, <3>1, <3>2 DEF TypeOK
    <3>4. QED
      BY ONLY <1>0, <1>s, <3>2, <3>3 DEF PageOwnership
  <2>5. ASSUME NEW j \in Jobs, NEW s \in Slots, AckPage(j, s)
        PROVE  \A k \in Jobs : /\ pagePc'[<<k, "zombie">>] # "idle" => jobs'[k].state # "absent"
                               /\ pagePc'[<<k, "holder">>] # "idle" => jobs'[k].state = "active"
    <3>1. pagePc' = [pagePc EXCEPT ![<<j, s>>] = "idle"]
      BY <2>5 DEF AckPage
    <3>2. \A k \in Jobs : k # j \/ s = "zombie" => jobs'[k] = jobs[k]
      BY <1>0, <2>5 DEF AckPage, TypeOK
    <3>3. \A k \in Jobs : jobs[k].state # "absent" => jobs'[k].state # "absent"
      BY NothingVanishes
    <3>4. QED
      BY <1>0, <3>1, <3>2, <3>3 DEF TypeOK, PageOwnership
  <2>6. CASE Crash
    BY <2>6 DEF Crash
  <2>7. CASE UNCHANGED <<jobs, pagePc>>
    BY <1>0, <2>7 DEF PageOwnership
  <2>8. QED
    BY <2>1, <2>2, <2>3, <2>4, <2>5, <2>6, <2>7, StepKinds
    DEF CreateAudit, EnqueueAudit, EnqueueAuditFails, ClientMove, TakeAudit, MarkRunning, HandlerMove,
        AckAudit, DiscoverPages, pageVars
<1>3. QED
  BY <1>1, <1>2 DEF PageOwnership

\* The strengthened invariant holds in every reachable state, whatever the
\* orchestrator, the attempts and the number of crashes, faults, lock losses
\* and DELETE requests.
THEOREM Invariance == Spec => []IInv
<1>1. IInv /\ [Next]_vars => IInv'
  <2>1. CASE Next
    BY <2>1, NextTypeOK, NextRunAccounting, NextHandlerOwnership, NextPageOwnership, NextFreshRun,
       NextOwnRows DEF IInv
  <2>2. CASE UNCHANGED vars
    BY <2>2, NextTypeOK
    DEF vars, dbVars, apiVars, handlerVars, pageVars, envVars, IInv, RunAccounting, HandlerOwnership,
        PageOwnership, FreshRun, OwnRows, RowOf
  <2>3. QED
    BY <2>1, <2>2
<1>2. QED
  BY InitIInv, <1>1, PTL DEF Spec

\* Every variable keeps the type its column, Redis state or local variable has.
THEOREM TypeCorrect == Spec => []TypeOK
<1>1. IInv => TypeOK
  BY DEF IInv
<1>2. QED
  BY <1>1, Invariance, PTL

\* audit-job.ts and routes/audits.ts: only a DELETE that read the audit while
\* it was live takes it out of completed or failed.
THEOREM TerminalLeftByDeleteOnly == Spec => OnlyDeleteLeavesTerminal
<1>1. ASSUME IInv, Next, auditStatus \in {"completed", "failed"}, auditStatus' # auditStatus
      PROVE  delete = "checked" /\ auditStatus' = "cancelled"
  <2>1. ~CreateAudit
    BY <1>1 DEF CreateAudit, IInv, HandlerOwnership
  <2>2. ~MarkRunning
    BY <1>1 DEF MarkRunning, IInv, HandlerOwnership
  <2>3. QED
    BY <1>1, <2>1, <2>2, StepKinds
    DEF EnqueueAudit, EnqueueAuditFails, ClientMove, TakeAudit, HandlerMove, AckAudit,
        DiscoverPages, FanOutFlow, FanOutPolling, TakePage, LoseLock, PageMove, AckPage, Crash, dbVars
<1>2. IInv /\ [Next]_vars =>
        [(auditStatus \in {"completed", "failed"} /\ auditStatus' # auditStatus)
           => (delete = "checked" /\ auditStatus' = "cancelled")]_vars
  BY <1>1 DEF vars
<1>3. QED
  BY <1>2, Invariance, PTL DEF Spec, OnlyDeleteLeavesTerminal

-----------------------------------------------------------------------------
(* Refinement: without DELETE, every step is one of AuditLifecycle's or a    *)
(* stutter.                                                                  *)

\* Nobody cancels an audit when nobody may send a DELETE.
NoCancel == delete = "idle" /\ auditStatus # "cancelled"

\* A handler that works on an audit finds its row, and the abstract steps
\* are the only ones that write status and score.
LEMMA AuditWrites ==
    ASSUME IInv, NoCancel, Next, MaxDeletes = 0
    PROVE  NoCancel' /\ [Lifecycle!LifecycleNext]_<<auditStatus, score>>
<1> USE DEF NoCancel, Lifecycle!LifecycleNext
<1>0. TypeOK /\ TypeOK'
  BY NextTypeOK DEF IInv
<1>1. CASE CreateAudit
  BY <1>1 DEF CreateAudit, IInv, HandlerOwnership, Lifecycle!Create
<1>2. CASE MarkRunning
  <2>1. auditStatus \in {"queued", "running"}
    <3>1. auditStatus # "none"
      BY <1>2 DEF MarkRunning, IInv, HandlerOwnership
    <3>2. auditStatus \notin {"completed", "failed"}
      BY <1>2 DEF MarkRunning, IInv, HandlerOwnership
    <3>3. QED
      BY <1>0, <3>1, <3>2 DEF TypeOK, TerminalAudit
  <2>2. QED
    BY <1>2, <2>1 DEF MarkRunning, apiVars, Lifecycle!Start
<1>3. CASE CompleteAudit
  <2>1. CASE auditStatus = "running"
    BY <1>0, <1>3, <2>1 DEF CompleteAudit, apiVars, TypeOK, Lifecycle!Complete
  <2>2. CASE auditStatus # "running"
    BY <1>3, <2>2 DEF CompleteAudit, apiVars
  <2>3. QED
    BY <2>1, <2>2
<1>4. CASE CatchWrite
  BY <1>4 DEF CatchWrite, apiVars, Lifecycle!Fail
<1>5. CASE DeleteRead
  BY <1>0, <1>5, BoundsAssumption DEF DeleteRead, TypeOK
<1>6. CASE DeleteWrite
  BY <1>6 DEF DeleteWrite
<1>7. CASE /\ UNCHANGED <<auditStatus, score>>
           /\ delete' = delete \/ delete' = "idle"
  BY <1>7
<1>8. CASE EnqueueAudit \/ EnqueueAuditFails \/ Crash
  BY <1>8 DEF EnqueueAudit, EnqueueAuditFails, Crash, dbVars
<1>9. CASE AuditHandler
  BY <1>2, <1>3, <1>4, <1>7, <1>9
  DEF AuditHandler, TakeAudit, AbortBeforeTry, DiscoverPages, FanOutFlow, FanOutPolling, FannedOut,
      PagesTerminal, GroupFinished, PollDeadline, FlowDeadline, HandlerThrows, CatchWriteFails,
      ScanFindings, ScanRows, ScanFailed, AckAudit, dbVars, apiVars
<1>10. ASSUME NEW j \in Jobs, PageWorker(j)
       PROVE  UNCHANGED <<auditStatus, score, delete>>
  <2>1. CASE TakePage(j) \/ LoseLock(j)
    BY <2>1 DEF TakePage, LoseLock, dbVars, apiVars
  <2>2. ASSUME NEW s \in Slots, PageHandler(j, s)
        PROVE  UNCHANGED <<auditStatus, score, delete>>
    BY <2>2 DEF PageHandler, SkipPage, StartPage, CommitPage, FailPage, AbortPage, AckPage,
                dbVars, apiVars
  <2>3. QED
    BY <1>10, <2>1, <2>2 DEF PageWorker
<1>11. QED
  BY <1>1, <1>5, <1>6, <1>7, <1>8, <1>9, <1>10 DEF Next, Api

\* routes/audits.ts and audit-job.ts: what the API shows of an audit nobody
\* cancels is exactly the abstract lifecycle, whatever crashes, stalls,
\* retries and lock losses do behind it.
THEOREM ImplementsLifecycle == ASSUME MaxDeletes = 0 PROVE Spec => LifecycleImplemented
<1>1. Init => NoCancel /\ Lifecycle!LifecycleInit
  BY InitIInv DEF Init, NoCancel, Lifecycle!LifecycleInit, IInv, TypeOK
<1>2. MaxDeletes = 0
  OBVIOUS
<1>3. IInv /\ NoCancel /\ [Next]_vars => NoCancel'
  BY <1>2, AuditWrites DEF vars, dbVars, apiVars, NoCancel
<1>4. IInv /\ NoCancel /\ [Next]_vars => [Lifecycle!LifecycleNext]_<<auditStatus, score>>
  BY <1>2, AuditWrites DEF vars, dbVars
<1>5. QED
  BY <1>1, <1>3, <1>4, Invariance, PTL DEF Spec, LifecycleImplemented, Lifecycle!LifecycleSpec

-----------------------------------------------------------------------------
(***************************************************************************)
(* Pages under the flow orchestrator, as long as no live worker loses its  *)
(* lock: every row belongs to one job and every job to one execution, so   *)
(* what the page handler read of its row still holds when it writes it.    *)
(***************************************************************************)

\* Under the flow orchestrator a job audits the row its own execution made.
LEMMA FlowRowOf ==
    ASSUME IInv, Orchestrator = "flow", NEW j \in Jobs
    PROVE  RowOf(j) = j
BY Pairs DEF IInv, OwnRows, RowOf

\* The page writes: what an execution writes to its row, and from where.
RowWrite(j, from, to) ==
    /\ rows[j] \in from
    /\ rows' = [rows EXCEPT ![j] = to]
    /\ findings' = [findings EXCEPT ![j] = IF to = "completed" THEN @ + 1 ELSE @]

\* An execution writes its own row only, out of the status it read.
LEMMA PageWrites ==
    ASSUME IInv, PageInv, Orchestrator = "flow",
           NEW j \in Jobs, NEW s \in Slots, PageHandler(j, s)
    PROVE  /\ s = "holder"
           /\ \/ UNCHANGED <<rows, findings>> /\ pagePc'[<<j, s>>] \in {"idle", "threw"}
              \/ /\ \/ RowWrite(j, {"none", "queued", "running", "skipped"}, "skipped")
                    \/ RowWrite(j, {"running"}, "completed")
                    \/ RowWrite(j, {"running"}, "failed")
                 /\ pagePc'[<<j, s>>] \in {"returned", "threw"}
              \/ /\ RowWrite(j, {"none", "queued", "running", "skipped"}, "running")
                 /\ pagePc'[<<j, s>>] = "fetching"
           /\ \E c \in PagePcs : pagePc' = [pagePc EXCEPT ![<<j, s>>] = c]
           /\ target' = target
<1> USE FlowRowOf DEF RowWrite
<1>0. /\ rows \in [Rows -> {"none", "queued", "running"} \cup TerminalRow]
      /\ findings \in [Rows -> Nat]
      /\ pagePc \in [Jobs \X Slots -> PagePcs]
      /\ j \in Rows /\ <<j, s>> \in Jobs \X Slots
  BY Pairs DEF IInv, TypeOK
<1>1. pagePc[<<j, s>>] # "idle"
  BY DEF PageHandler, SkipPage, StartPage, CommitPage, FailPage, AbortPage, AckPage
<1>2. s = "holder"
  BY <1>1, SlotPairs DEF PageInv, NoLockLoss
<1>3. /\ pagePc[<<j, s>>] = "checked" => rows[j] \notin {"completed", "failed"}
      /\ pagePc[<<j, s>>] = "fetching" => rows[j] = "running"
  BY <1>2 DEF PageInv, RowsRead
<1>4. rows[j] \in {"none", "queued", "running", "completed", "failed", "skipped"}
  BY <1>0 DEF TerminalRow
<1>5. CASE SkipPage(j, s)
  BY <1>0, <1>2, <1>3, <1>4, <1>5 DEF SkipPage, PagePcs, pageVars
<1>6. CASE StartPage(j, s)
  BY <1>0, <1>2, <1>3, <1>4, <1>6 DEF StartPage, PagePcs
<1>7. CASE CommitPage(j, s)
  BY <1>0, <1>2, <1>3, <1>7 DEF CommitPage, PagePcs
<1>8. CASE FailPage(j, s)
  BY <1>0, <1>2, <1>3, <1>8 DEF FailPage, PagePcs
<1>9. CASE AbortPage(j, s) \/ AckPage(j, s)
  BY <1>0, <1>2, <1>9 DEF AbortPage, AckPage, PagePcs, dbVars
<1>10. QED
  BY <1>5, <1>6, <1>7, <1>8, <1>9 DEF PageHandler

\* Every other step leaves the rows alone, or queues rows that did not exist.
LEMMA OtherWrites ==
    ASSUME IInv, PageInv, Orchestrator = "flow", MaxLockLosses = 0, Next,
           ~(\E j \in Jobs, s \in Slots : PageHandler(j, s))
    PROVE  /\ UNCHANGED findings
           /\ \A r \in Rows : rows'[r] = rows[r] \/ (rows[r] = "none" /\ rows'[r] = "queued")
           /\ \/ pagePc' = pagePc
              \/ pagePc' = [e \in Jobs \X Slots |-> "idle"]
              \/ \E j \in Jobs : /\ rows[j] \notin {"completed", "failed"}
                                 /\ pagePc' = [pagePc EXCEPT ![<<j, "holder">>] = "checked"]
           /\ lockLosses' = lockLosses
<1>0. TypeOK
  BY DEF IInv
<1>1. ASSUME NEW P \in SUBSET Pages, DiscoverPages(P)
      PROVE  \A r \in Rows : rows'[r] = rows[r] \/ (rows[r] = "none" /\ rows'[r] = "queued")
  <2>1. \A r \in Rows : rows[r] # "none" => r[1] < run
    BY <1>1 DEF DiscoverPages, IInv, FreshRun
  <2>2. run \in Nat /\ \A r \in Rows : r[1] \in Nat
    BY <1>0, Pairs, Constants DEF TypeOK
  <2>3. \A r \in Rows : r[1] = run => rows[r] = "none"
    BY <2>1, <2>2
  <2>4. QED
    BY <1>1, <2>3 DEF DiscoverPages
<1>2. ASSUME NEW j \in Jobs, TakePage(j)
      PROVE  \/ pagePc' = pagePc
             \/ /\ rows[j] \notin {"completed", "failed"}
                /\ pagePc' = [pagePc EXCEPT ![<<j, "holder">>] = "checked"]
  BY <1>2, FlowRowOf DEF TakePage
<1>3. ~(\E j \in Jobs : LoseLock(j))
  BY <1>0, BoundsAssumption DEF LoseLock, TypeOK
<1>4. CASE Api \/ Crash
  BY <1>4 DEF Api, CreateAudit, EnqueueAudit, EnqueueAuditFails, DeleteRead, DeleteWrite, Crash,
              dbVars, pageVars
<1>5. CASE AuditHandler
  <2>1. ASSUME NEW P \in SUBSET Pages, DiscoverPages(P)
        PROVE  UNCHANGED <<findings, pagePc, lockLosses>>
    BY <2>1 DEF DiscoverPages, pageVars
  <2>2. CASE ~(\E P \in SUBSET Pages : DiscoverPages(P))
    BY <1>5, <2>2
    DEF AuditHandler, TakeAudit, MarkRunning, AbortBeforeTry, FanOutFlow, FanOutPolling, FannedOut,
        PagesTerminal, GroupFinished, PollDeadline, FlowDeadline, HandlerThrows, CatchWrite,
        CatchWriteFails, ScanFindings, ScanRows, ScanFailed, CompleteAudit, AckAudit, dbVars,
        pageVars
  <2>3. QED
    BY <1>1, <2>1, <2>2
<1>6. CASE \E j \in Jobs : TakePage(j)
  BY <1>2, <1>6 DEF TakePage, dbVars
<1>7. QED
  BY <1>3, <1>4, <1>5, <1>6 DEF Next, PageWorker

\* What the page handlers know of their rows is inductive.
LEMMA NextPageInv ==
    ASSUME IInv, PageInv, Orchestrator = "flow", MaxLockLosses = 0, [Next]_vars
    PROVE  PageInv'
<1>0. /\ rows \in [Rows -> {"none", "queued", "running"} \cup TerminalRow]
      /\ findings \in [Rows -> Nat]
      /\ pagePc \in [Jobs \X Slots -> PagePcs]
      /\ Jobs = Rows
  BY Pairs DEF IInv, TypeOK
<1>s. /\ "holder" \in Slots /\ "zombie" \in Slots /\ "holder" # "zombie"
      /\ \A j \in Jobs, t \in Slots : <<j, t>> \in Jobs \X Slots
  BY SlotPairs
<1>1. \A j \in Jobs : RowOf(j) = j
  BY FlowRowOf
<1>2. /\ lockLosses = 0
      /\ \A j \in Jobs : pagePc[<<j, "zombie">>] = "idle"
      /\ \A j \in Jobs : pagePc[<<j, "holder">>] = "checked" => rows[j] \notin {"completed", "failed"}
      /\ \A j \in Jobs : pagePc[<<j, "holder">>] = "fetching" => rows[j] = "running"
      /\ \A r \in Rows : findings[r] = IF rows[r] = "completed" THEN 1 ELSE 0
  BY <1>1 DEF PageInv, NoLockLoss, RowsRead, FindingsOncePerRow
<1>3. SUFFICES
        /\ lockLosses' = 0
        /\ \A j \in Jobs : pagePc'[<<j, "zombie">>] = "idle"
        /\ \A j \in Jobs : pagePc'[<<j, "holder">>] = "checked"
                             => rows'[j] \notin {"completed", "failed"}
        /\ \A j \in Jobs : pagePc'[<<j, "holder">>] = "fetching" => rows'[j] = "running"
        /\ \A r \in Rows : findings'[r] = IF rows'[r] = "completed" THEN 1 ELSE 0
  <2>1. \A j \in Jobs : RowOf(j)' = j
    <3>1. OwnRows'
      <4>1. CASE Next
        BY <4>1, NextOwnRows
      <4>2. CASE UNCHANGED vars
        BY <4>2 DEF vars, dbVars, handlerVars, pageVars, IInv, OwnRows
      <4>3. QED
        BY <4>1, <4>2
    <3>2. QED
      BY <3>1, Pairs DEF OwnRows, RowOf
  <2>2. QED
    BY <2>1 DEF PageInv, NoLockLoss, RowsRead, FindingsOncePerRow
<1>4. ASSUME NEW j \in Jobs, NEW s \in Slots, PageHandler(j, s)
      PROVE  /\ lockLosses' = 0
             /\ \A k \in Jobs : pagePc'[<<k, "zombie">>] = "idle"
             /\ \A k \in Jobs : pagePc'[<<k, "holder">>] = "checked"
                                  => rows'[k] \notin {"completed", "failed"}
             /\ \A k \in Jobs : pagePc'[<<k, "holder">>] = "fetching" => rows'[k] = "running"
             /\ \A r \in Rows : findings'[r] = IF rows'[r] = "completed" THEN 1 ELSE 0
  <2>1. lockLosses' = lockLosses
    BY <1>4 DEF PageHandler, SkipPage, StartPage, CommitPage, FailPage, AbortPage, AckPage
  <2>2. s = "holder"
    BY <1>4, PageWrites
  <2>3. \A k \in Jobs, t \in Slots : k # j \/ t = "zombie" => pagePc'[<<k, t>>] = pagePc[<<k, t>>]
    <3>1. PICK c \in PagePcs : pagePc' = [pagePc EXCEPT ![<<j, s>>] = c]
      BY <1>4, PageWrites
    <3>2. QED
      BY <1>0, <1>s, <2>2, <3>1
  <2>4. CASE UNCHANGED <<rows, findings>> /\ pagePc'[<<j, s>>] \in {"idle", "threw"}
    BY ONLY <1>0, <1>s, <1>2, <2>1, <2>2, <2>3, <2>4
  <2>5. ASSUME NEW from, NEW to \in {"running", "skipped", "completed", "failed"},
               RowWrite(j, from, to), "completed" \notin from,
               pagePc'[<<j, s>>] # "checked",
               pagePc'[<<j, s>>] = "fetching" => to = "running"
        PROVE  /\ \A k \in Jobs : pagePc'[<<k, "holder">>] = "checked"
                                    => rows'[k] \notin {"completed", "failed"}
               /\ \A k \in Jobs : pagePc'[<<k, "holder">>] = "fetching" => rows'[k] = "running"
               /\ \A r \in Rows : findings'[r] = IF rows'[r] = "completed" THEN 1 ELSE 0
    <3>1. /\ rows'[j] = to /\ rows[j] # "completed"
          /\ findings'[j] = IF to = "completed" THEN findings[j] + 1 ELSE findings[j]
          /\ \A r \in Rows : r # j => rows'[r] = rows[r] /\ findings'[r] = findings[r]
      BY <1>0, <2>5 DEF RowWrite
    <3>2. findings'[j] = IF rows'[j] = "completed" THEN 1 ELSE 0
      BY <1>0, <1>2, <3>1
    <3>3. QED
      BY ONLY <1>0, <1>s, <1>2, <2>2, <2>3, <2>5, <3>1, <3>2
  <2>6. QED
    <3>1. \A k \in Jobs : pagePc'[<<k, "zombie">>] = "idle"
      BY <1>2, <1>s, <2>3
    <3>2. CASE \/ RowWrite(j, {"none", "queued", "running", "skipped"}, "skipped")
               \/ RowWrite(j, {"running"}, "completed")
               \/ RowWrite(j, {"running"}, "failed")
      <4>1. CASE pagePc'[<<j, s>>] \in {"returned", "threw"}
        BY <1>2, <2>1, <2>5, <3>1, <3>2, <4>1
      <4>2. CASE pagePc'[<<j, s>>] \notin {"returned", "threw"}
        BY <1>2, <1>4, <2>1, <2>4, <2>5, <3>1, <4>2, PageWrites
      <4>3. QED
        BY <4>1, <4>2
    <3>3. CASE ~(\/ RowWrite(j, {"none", "queued", "running", "skipped"}, "skipped")
                 \/ RowWrite(j, {"running"}, "completed")
                 \/ RowWrite(j, {"running"}, "failed"))
      BY <1>2, <1>4, <2>1, <2>4, <2>5, <3>1, <3>3, PageWrites
    <3>4. QED
      BY <3>2, <3>3
<1>5. CASE Next /\ ~(\E j \in Jobs, s \in Slots : PageHandler(j, s))
  <2>1. /\ UNCHANGED findings /\ lockLosses' = lockLosses
        /\ \A r \in Rows : rows'[r] = rows[r] \/ (rows[r] = "none" /\ rows'[r] = "queued")
    BY <1>5, OtherWrites
  <2>2. CASE pagePc' = pagePc
    BY ONLY <1>0, <1>2, <2>1, <2>2
  <2>3. CASE pagePc' = [e \in Jobs \X Slots |-> "idle"]
    BY ONLY <1>0, <1>s, <1>2, <2>1, <2>3
  <2>4. ASSUME NEW j \in Jobs, rows[j] \notin {"completed", "failed"},
               pagePc' = [pagePc EXCEPT ![<<j, "holder">>] = "checked"]
        PROVE  /\ \A k \in Jobs : pagePc'[<<k, "zombie">>] = "idle"
               /\ \A k \in Jobs : pagePc'[<<k, "holder">>] = "checked"
                                    => rows'[k] \notin {"completed", "failed"}
               /\ \A k \in Jobs : pagePc'[<<k, "holder">>] = "fetching" => rows'[k] = "running"
    <3>1. /\ pagePc'[<<j, "holder">>] = "checked"
          /\ \A k \in Jobs, t \in Slots :
               k # j \/ t = "zombie" => pagePc'[<<k, t>>] = pagePc[<<k, t>>]
      BY <1>0, <1>s, <2>4
    <3>2. QED
      BY ONLY <1>0, <1>s, <1>2, <2>1, <2>4, <3>1
  <2>5. QED
    BY <1>2, <1>5, <2>1, <2>2, <2>3, <2>4, OtherWrites
<1>6. CASE UNCHANGED vars
  BY <1>2, <1>6 DEF vars, dbVars, pageVars
<1>7. QED
  BY <1>4, <1>5, <1>6

\* page-audit-job.ts, the guard and the transaction: before the first POST no
\* page handler runs.
LEMMA InitPageInv == Init => PageInv
BY Pairs, SlotPairs, InitIInv, RowOfIsRow
DEF Init, PageInv, NoLockLoss, RowsRead, FindingsOncePerRow, IInv, TypeOK

\* page-audit-job.ts, the guard and the transaction: under the flow
\* orchestrator a page's findings are committed exactly once when its row is
\* completed and never otherwise, whatever crashes and stalls redeliver, for
\* any number of pages, attempts, crashes, faults and DELETEs, provided no
\* live worker loses its lock.
THEOREM FindingsCommittedOnce ==
    ASSUME Orchestrator = "flow", MaxLockLosses = 0
    PROVE  Spec => []FindingsOncePerRow
<1>1. Init => PageInv
  BY InitPageInv
<1>2. Orchestrator = "flow" /\ MaxLockLosses = 0
  OBVIOUS
<1>3. IInv /\ PageInv /\ [Next]_vars => PageInv'
  BY <1>2, NextPageInv
<1>4. PageInv => FindingsOncePerRow
  BY DEF PageInv, RowsRead
<1>5. QED
  BY <1>1, <1>3, <1>4, Invariance, PTL DEF Spec

\* page-audit-job.ts, the idempotency guard: under the same conditions a
\* completed or failed page is never written again.
THEOREM OutcomesAreFinal ==
    ASSUME Orchestrator = "flow", MaxLockLosses = 0
    PROVE  Spec => RowOutcomeFinal
<1>1. Init => PageInv
  BY InitPageInv
<1>2. Orchestrator = "flow" /\ MaxLockLosses = 0
  OBVIOUS
<1>3. IInv /\ PageInv /\ [Next]_vars => PageInv'
  BY <1>2, NextPageInv
<1>4. ASSUME IInv, PageInv, Next, NEW r \in Rows, rows[r] \in {"completed", "failed"}
      PROVE  rows'[r] = rows[r]
  <2>1. CASE \E j \in Jobs, s \in Slots : PageHandler(j, s)
    <3>1. PICK j \in Jobs, s \in Slots : PageHandler(j, s)
      BY <2>1
    <3>2. \/ rows' = rows
          \/ /\ \E v : rows' = [rows EXCEPT ![j] = v]
             /\ rows[j] \notin {"completed", "failed"}
      BY <1>2, <1>4, <3>1, PageWrites DEF RowWrite
    <3>3. rows \in [Rows -> {"none", "queued", "running"} \cup TerminalRow]
      BY <1>4 DEF IInv, TypeOK
    <3>4. QED
      BY <1>4, <3>2, <3>3
  <2>2. CASE ~(\E j \in Jobs, s \in Slots : PageHandler(j, s))
    <3>1. rows'[r] = rows[r] \/ (rows[r] = "none" /\ rows'[r] = "queued")
      BY <1>2, <1>4, <2>2, OtherWrites
    <3>2. QED
      BY <1>4, <3>1
  <2>3. QED
    BY <2>1, <2>2
<1>5. IInv /\ PageInv /\ [Next]_vars =>
        [\A r \in Rows : rows[r] \in {"completed", "failed"} => rows'[r] = rows[r]]_vars
  BY <1>4
<1>6. QED
  BY <1>1, <1>3, <1>5, Invariance, PTL DEF Spec, RowOutcomeFinal

\* audit-job.ts, runFlowOrchestrator: no two page jobs work on one row, for
\* every execution of the audit handler, crash, stall and lock loss.
THEOREM RowsNotShared ==
    ASSUME Orchestrator = "flow" PROVE Spec => []JobsHaveOwnRows
<1>1. IInv => JobsHaveOwnRows
  BY FlowRowOf DEF JobsHaveOwnRows
<1>2. QED
  BY <1>1, Invariance, PTL

=============================================================================
