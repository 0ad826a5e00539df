--------------------------- MODULE AuditEndProofs ---------------------------
(***************************************************************************)
(* How an audit ends, for every value of the constants: JobEndsAuditEnds,  *)
(* BatchesBounded and PublishedScoreExact, each with its argument.         *)
(***************************************************************************)
EXTENDS AuditPipelineProofs

-----------------------------------------------------------------------------
(***************************************************************************)
(* JobEndsAuditEnds.  The argument counts attempts.  An attempt that ends  *)
(* with the audit neither completed nor failed was spoilt by an error      *)
(* outside the try block's protection or by a DELETE, so the attempts made *)
(* never exceed the errors and the DELETEs written; a DELETE that has read *)
(* the audit but not written yet is still owed.                            *)
(***************************************************************************)

\* The DELETE that is between its read and its write.
Pending == IF delete = "checked" THEN 1 ELSE 0

\* n attempts have been spoilt so far.
Spoilt(n) == n + Pending <= faults + deletes

Working == {"started", "rowsCreated", "waiting", "scoring", "threw"}

EndInv ==
    /\ delete = "checked" => deletes >= 1
    /\ auditJob.state = "wait" =>
         /\ auditStatus \notin {"completed", "failed"} => Spoilt(auditJob.made)
         /\ auditJob.made + Pending <= faults + deletes + 1
    /\ pc # "idle" => Spoilt(auditJob.made)
    /\ pc \in Working =>
         /\ auditStatus \in {"running", "cancelled"}
         /\ auditStatus = "cancelled" => Spoilt(auditJob.made + 1)
    /\ pc = "rethrown" =>
         (auditStatus \notin {"completed", "failed"} => Spoilt(auditJob.made + 1))
    /\ pc = "returned" => auditStatus \in {"completed", "cancelled"}
    /\ JobEndsAuditEnds

\* The numbers of the argument.
LEMMA EndTypes ==
    ASSUME TypeOK
    PROVE  /\ auditJob \in Job /\ auditJob.made \in Nat /\ auditJob.stalled \in Nat
           /\ faults \in Nat /\ deletes \in Nat
           /\ Pending \in {0, 1}
           /\ delete = "checked" => Pending = 1
           /\ delete = "idle" => Pending = 0
           /\ pc \in {"idle", "checked", "rethrown", "returned"} \cup Working
BY BoundsAssumption DEF TypeOK, Job, Pending, Working, HandlerPcs

\* A step that leaves the audit, its handler and the client alone.
LEMMA EndStutter ==
    ASSUME EndInv, UNCHANGED <<auditStatus, auditJob, pc, delete, deletes, faults>>
    PROVE  EndInv'
BY DEF EndInv, Spoilt, Pending, JobEndsAuditEnds

\* audits.ts: the client's steps keep the account: a DELETE is counted when
\* it has read the audit and spoils an attempt when it writes.
LEMMA EndApi == ASSUME IInv, EndInv, Api PROVE EndInv'
<1>0. TypeOK /\ TypeOK'
  BY NextTypeOK DEF IInv, Next
<1> USE <1>0, EndTypes, Constants DEF EndInv, Spoilt, Pending, JobEndsAuditEnds
<1>1. CASE CreateAudit
  <2>1. auditJob.state = "absent" /\ pc = "idle"
    BY <1>1, FreshJobs DEF CreateAudit, IInv, HandlerOwnership, TypeOK, Job, JobStates
  <2>2. UNCHANGED <<auditJob, pc, delete, deletes, faults>>
    BY <1>1 DEF CreateAudit, handlerVars, envVars
  <2>3. QED
    BY <2>1, <2>2 DEF Finished, Working
<1>2. CASE EnqueueAudit
  <2>1. /\ pc = "idle" /\ pc' = "idle"
        /\ auditJob'.state = "wait" /\ auditJob'.made = 0
    BY <1>2, FreshJobs DEF EnqueueAudit, IInv, HandlerOwnership
  <2>2. UNCHANGED <<auditStatus, delete, deletes, faults>>
    BY <1>2 DEF EnqueueAudit, dbVars, envVars
  <2>3. Pending <= faults + deletes
    OBVIOUS
  <2>4. QED
    BY <2>1, <2>2, <2>3 DEF Finished, Working
<1>3. CASE EnqueueAuditFails
  <2>1. /\ UNCHANGED <<auditStatus, auditJob, pc, delete, deletes>>
        /\ faults' = faults + 1
    BY <1>3 DEF EnqueueAuditFails, Fault, dbVars, handlerVars
  <2>2. QED
    BY <2>1 DEF Finished
<1>4. CASE DeleteRead
  <2>1. /\ UNCHANGED <<auditStatus, auditJob, pc, faults>>
        /\ deletes' = deletes + 1
        /\ delete = "idle" /\ delete' = "checked"
    BY <1>4 DEF DeleteRead, dbVars, handlerVars, envVars
  <2>2. QED
    BY <2>1 DEF Finished
<1>5. CASE DeleteWrite
  <2>1. /\ UNCHANGED <<auditJob, pc, faults, deletes>>
        /\ delete = "checked" /\ delete' = "idle" /\ auditStatus' = "cancelled"
    BY <1>5 DEF DeleteWrite, handlerVars, envVars
  <2>2. JobEndsAuditEnds'
    BY <2>1 DEF TerminalAudit
  <2>3. auditJob'.state = "wait" => auditJob.made <= faults + deletes
    BY <2>1
  <2>4. pc' # "idle" => auditJob.made + 1 <= faults + deletes
    BY <2>1
  <2>5. QED
    BY <2>1, <2>2, <2>3, <2>4 DEF Working
<1>6. QED
  BY <1>1, <1>2, <1>3, <1>4, <1>5 DEF Api

\* audit-job.ts: a step of the handler keeps the account: what is thrown
\* outside the catch block's protection is paid by an error.
LEMMA EndHandler == ASSUME IInv, EndInv, AuditHandler PROVE EndInv'
<1>0. TypeOK /\ TypeOK'
  BY NextTypeOK DEF IInv, Next
<1>a. (pc # "idle") <=> (auditJob.state = "active")
  BY DEF IInv, HandlerOwnership
<1>b. delete' = delete /\ deletes' = deletes
  BY DEF AuditHandler, TakeAudit, MarkRunning, AbortBeforeTry, DiscoverPages, FanOutFlow,
         FanOutPolling, FannedOut, PagesTerminal, GroupFinished, PollDeadline, FlowDeadline,
         HandlerThrows, CatchWrite, CatchWriteFails, ScanFindings, ScanRows, ScanFailed,
         CompleteAudit, AckAudit, apiVars
<1> USE <1>0, <1>a, <1>b, EndTypes, Constants
    DEF EndInv, Spoilt, Pending, JobEndsAuditEnds, Finished, Working
<1>1. CASE TakeAudit
  <2>1. auditJob.state = "wait" /\ UNCHANGED <<auditStatus, faults>>
    BY <1>1 DEF TakeAudit, dbVars, envVars
  <2>2. CASE auditStatus \in {"completed", "failed"}
    BY <1>1, <2>1, <2>2, TakeAndComplete DEF TakeAudit, TerminalAudit
  <2>3. CASE auditStatus \notin {"completed", "failed"}
    BY <1>1, <2>1, <2>3, TakeAndComplete DEF TakeAudit
  <2>4. QED
    BY <2>2, <2>3
<1>2. CASE MarkRunning
  <2>1. /\ pc = "checked" /\ pc' = "started" /\ auditStatus' = "running"
        /\ UNCHANGED <<auditJob, faults>>
    BY <1>2 DEF MarkRunning, envVars
  <2>2. QED
    BY <2>1
<1>3. CASE AbortBeforeTry
  <2>1. /\ pc = "checked" /\ pc' = "rethrown" /\ faults' = faults + 1
        /\ UNCHANGED <<auditJob, auditStatus>>
    BY <1>3 DEF AbortBeforeTry, Fault, dbVars
  <2>2. QED
    BY <2>1
<1>4. CASE \/ \E P \in SUBSET Pages : DiscoverPages(P)
           \/ FanOutFlow
           \/ \E p \in Pages, r \in Runs : FanOutPolling(p, r)
           \/ FannedOut \/ PagesTerminal \/ GroupFinished \/ PollDeadline \/ FlowDeadline
           \/ ScanFindings \/ ScanRows \/ ScanFailed
  <2>1. /\ pc \in Working /\ pc' \in Working
        /\ UNCHANGED <<auditStatus, auditJob, faults>>
    BY <1>4 DEF DiscoverPages, FanOutFlow, FanOutPolling, FannedOut, PagesTerminal, GroupFinished,
                PollDeadline, FlowDeadline, ScanFindings, ScanRows, ScanFailed, dbVars, handlerVars,
                envVars
  <2>2. QED
    BY <2>1
<1>5. CASE HandlerThrows
  <2>1. /\ pc \in Working /\ pc' = "threw" /\ faults' = faults + 1
        /\ UNCHANGED <<auditStatus, auditJob>>
    BY <1>5 DEF HandlerThrows, Fault, dbVars
  <2>2. QED
    BY <2>1
<1>6. CASE CatchWrite
  <2>1. /\ pc = "threw" /\ pc' = "rethrown" /\ UNCHANGED <<auditJob, faults>>
        /\ auditStatus' = IF auditStatus = "running" THEN "failed" ELSE auditStatus
    BY <1>6 DEF CatchWrite, envVars
  <2>2. QED
    BY <2>1
<1>7. CASE CatchWriteFails
  <2>1. /\ pc = "threw" /\ pc' = "rethrown" /\ faults' = faults + 1
        /\ UNCHANGED <<auditStatus, auditJob>>
    BY <1>7 DEF CatchWriteFails, Fault, dbVars
  <2>2. QED
    BY <2>1
<1>8. CASE CompleteAudit
  <2>1. /\ pc = "scoring" /\ pc' = "returned" /\ UNCHANGED <<auditJob, faults>>
        /\ auditStatus' = IF auditStatus = "running" THEN "completed" ELSE auditStatus
    BY <1>8 DEF CompleteAudit, envVars
  <2>2. QED
    BY <2>1
<1>9. CASE AckAudit
  <2>1. /\ pc \in {"returned", "rethrown"} /\ pc' = "idle" /\ UNCHANGED <<auditStatus, faults>>
        /\ auditJob' = IF pc = "returned" THEN CompletedJob(auditJob)
                       ELSE ThrownJob(auditJob, AuditAttempts)
    BY <1>9 DEF AckAudit, dbVars, envVars
  <2>2. CASE pc = "returned"
    BY <2>1, <2>2, TakeAndComplete DEF TerminalAudit
  <2>3. CASE pc = "rethrown"
    <3> DEFINE t == ThrownJob(auditJob, AuditAttempts)
    <3>1. /\ t.made = auditJob.made + 1 /\ t.stalled = auditJob.stalled
          /\ t.state \in {"wait", "failed"}
      BY Thrown
    <3>2. t.state = "failed" => auditJob.made + 1 >= AuditAttempts
      BY DEF ThrownJob
    <3>3. auditJob' = t
      BY <2>1, <2>3
    <3> HIDE DEF t
    <3>4. QED
      BY <2>1, <2>3, <3>1, <3>2, <3>3 DEF TerminalAudit
  <2>4. QED
    BY <2>1, <2>2, <2>3
<1>10. QED
  BY <1>1, <1>2, <1>3, <1>4, <1>5, <1>6, <1>7, <1>8, <1>9 DEF AuditHandler

\* A process that dies gives the job back once without counting an attempt,
\* and forgets the DELETE it was serving.
LEMMA EndCrash == ASSUME IInv, EndInv, Crash PROVE EndInv'
<1>0. TypeOK /\ TypeOK'
  BY NextTypeOK DEF IInv, Next
<1>1. (pc # "idle") <=> (auditJob.state = "active")
  BY DEF IInv, HandlerOwnership
<1>2. /\ delete' = "idle" /\ pc' = "idle"
      /\ UNCHANGED <<auditStatus, deletes, faults>>
      /\ auditJob' = IF auditJob.state = "active" THEN StalledJob(auditJob) ELSE auditJob
  BY DEF Crash, dbVars
<1> USE EndTypes DEF EndInv, Spoilt, Pending, JobEndsAuditEnds, Finished, Working
<1>3. CASE auditJob.state = "active"
  <2> DEFINE t == StalledJob(auditJob)
  <2>1. /\ t.made = auditJob.made /\ t.stalled = auditJob.stalled + 1
        /\ t.state \in {"wait", "failed"}
    BY <1>0, Stalled
  <2>2. t.state = "failed" => ~(t.stalled <= MaxStalledCount)
    BY <1>0 DEF StalledJob, MaxStalledCount
  <2>3. auditJob' = t
    BY <1>2, <1>3
  <2> HIDE DEF t
  <2>4. QED
    BY <1>0, <1>1, <1>2, <1>3, <2>1, <2>2, <2>3
<1>4. CASE auditJob.state # "active"
  BY <1>0, <1>1, <1>2, <1>4
<1>5. QED
  BY <1>3, <1>4

\* The account of attempts is inductive.
LEMMA InitEndInv == Init => EndInv
BY FreshJobs DEF Init, EndInv, JobEndsAuditEnds, Finished, Working

LEMMA NextEndInv == IInv /\ EndInv /\ [Next]_vars => EndInv'
<1>1. ASSUME NEW j \in Jobs, PageWorker(j)
      PROVE  UNCHANGED <<auditStatus, auditJob, pc, delete, deletes>> /\ faults' \in {faults, faults + 1}
  BY <1>1 DEF PageWorker, PageHandler, TakePage, LoseLock, SkipPage, StartPage, CommitPage,
              FailPage, AbortPage, AckPage, Fault, dbVars, apiVars, handlerVars, envVars
<1>2. ASSUME IInv, EndInv, NEW j \in Jobs, PageWorker(j) PROVE EndInv'
  <2>1. CASE faults' = faults
    BY <1>1, <1>2, <2>1, EndStutter
  <2>2. CASE faults' = faults + 1
    <3>1. TypeOK
      BY <1>2 DEF IInv
    <3>2. QED
      BY <1>1, <1>2, <2>2, <3>1, EndTypes, Constants
      DEF EndInv, Spoilt, Pending, JobEndsAuditEnds, Finished
  <2>3. QED
    BY <1>1, <1>2, <2>1, <2>2
<1>3. ASSUME IInv, EndInv, UNCHANGED vars PROVE EndInv'
  BY <1>3, EndStutter DEF vars, dbVars, apiVars, handlerVars, envVars
<1>4. QED
  BY <1>2, <1>3, EndApi, EndHandler, EndCrash DEF Next

\* audit-job.ts and queue.ts: an audit whose job BullMQ has finished with has
\* a terminal status, for any number of attempts, unless a second process
\* death or an error or DELETE per attempt has used them up.
THEOREM AuditEndsWithItsJob == Spec => []JobEndsAuditEnds
<1>1. EndInv => JobEndsAuditEnds
  BY DEF EndInv
<1>2. QED
  BY <1>1, InitEndInv, NextEndInv, Invariance, PTL DEF Spec

-----------------------------------------------------------------------------
(***************************************************************************)
(* BatchesBounded.  An execution of the page handler that has passed the   *)
(* guard may still commit, so it counts as a batch of its row.  With one   *)
(* batch more than the lost locks the row is settled and the guard stops   *)
(* every later execution; a job that is waiting beside an execution which  *)
(* runs on without its lock has been paid for by that lock.                *)
(***************************************************************************)

\* 1 while an execution has passed the guard and not yet written its outcome.
Busy(j, s) == IF pagePc[<<j, s>>] \in {"checked", "fetching"} THEN 1 ELSE 0

Batches(j) ==
    /\ findings[j] + Busy(j, "holder") + Busy(j, "zombie") <= 1 + lockLosses
    /\ findings[j] = 1 + lockLosses => rows[j] \in {"completed", "failed"}
    /\ pagePc[<<j, "holder">>] = "threw" => findings[j] + Busy(j, "zombie") <= lockLosses
    /\ jobs[j].state = "wait" /\ Busy(j, "zombie") = 1 => findings[j] + 1 <= lockLosses

BatchInv == \A j \in Jobs : Batches(j)

\* The numbers and the program counters of one job.
LEMMA BatchTypes ==
    ASSUME TypeOK, NEW j \in Jobs
    PROVE  /\ j \in Rows /\ findings[j] \in Nat /\ lockLosses \in Nat
           /\ \A s \in Slots : /\ pagePc[<<j, s>>] \in PagePcs
                               /\ Busy(j, s) \in {0, 1}
           /\ jobs[j] \in Job
BY Pairs, SlotPairs, BoundsAssumption DEF TypeOK, Busy

\* A step that leaves the job's executions and its batches alone, and does
\* not put the job back, keeps the account of the job.
LEMMA BatchStutter ==
    ASSUME TypeOK, TypeOK', NEW j \in Jobs, Batches(j),
           findings'[j] = findings[j],
           \A s \in Slots : pagePc'[<<j, s>>] = pagePc[<<j, s>>],
           rows'[j] = rows[j] \/ rows[j] = "none",
           \/ jobs'[j].state = jobs[j].state
           \/ jobs'[j].state # "wait"
           \/ pagePc[<<j, "zombie">>] = "idle",
           lockLosses' \in {lockLosses, lockLosses + 1}
    PROVE  Batches(j)'
<1>1. /\ Busy(j, "holder")' = Busy(j, "holder") /\ Busy(j, "zombie")' = Busy(j, "zombie")
      /\ pagePc[<<j, "zombie">>] = "idle" => Busy(j, "zombie") = 0
  BY SlotPairs DEF Busy
<1>2. /\ findings[j] \in Nat /\ lockLosses \in Nat
      /\ Busy(j, "holder") \in {0, 1} /\ Busy(j, "zombie") \in {0, 1}
      /\ pagePc'[<<j, "holder">>] = pagePc[<<j, "holder">>]
  BY BatchTypes, SlotPairs
<1> HIDE DEF Busy
<1>3. QED
  BY <1>1, <1>2 DEF Batches

\* page-audit-job.ts: taking the job starts an execution only when the row
\* is not settled.
LEMMA BatchTake ==
    ASSUME IInv, TypeOK', Orchestrator = "flow", NEW j \in Jobs, Batches(j), TakePage(j)
    PROVE  Batches(j)'
<1>0. TypeOK
  BY DEF IInv
<1>1. /\ RowOf(j) = j /\ jobs \in [Jobs -> Job]
      /\ pagePc \in [Jobs \X Slots -> PagePcs]
      /\ <<j, "holder">> \in Jobs \X Slots /\ <<j, "zombie">> \in Jobs \X Slots
      /\ <<j, "holder">> # <<j, "zombie">>
  BY <1>0, FlowRowOf, SlotPairs DEF TypeOK
<1>2. /\ UNCHANGED <<rows, findings, lockLosses>>
      /\ jobs[j].state = "wait" /\ pagePc[<<j, "holder">>] = "idle"
  BY DEF TakePage, dbVars
<1>3. CASE rows[j] \in {"completed", "failed"}
  <2>1. pagePc' = pagePc /\ jobs'[j] = CompletedJob(jobs[j])
    BY <1>1, <1>3 DEF TakePage
  <2>2. jobs'[j].state # "wait"
    BY <1>1, <2>1, TakeAndComplete
  <2>3. QED
    BY <1>0, <1>2, <2>1, <2>2, BatchStutter
<1>4. CASE rows[j] \notin {"completed", "failed"}
  <2>1. /\ pagePc' = [pagePc EXCEPT ![<<j, "holder">>] = "checked"]
        /\ jobs'[j] = TakenJob(jobs[j])
    BY <1>1, <1>4 DEF TakePage
  <2>2. jobs'[j].state # "wait"
    BY <1>1, <2>1, TakeAndComplete
  <2>3. pagePc'[<<j, "holder">>] = "checked" /\ pagePc'[<<j, "zombie">>] = pagePc[<<j, "zombie">>]
    BY <1>1, <2>1
  <2>4. /\ Busy(j, "holder") = 0 /\ Busy(j, "holder")' = 1
        /\ Busy(j, "zombie")' = Busy(j, "zombie")
    BY <1>2, <2>3 DEF Busy
  <2>5. /\ findings[j] \in Nat /\ lockLosses \in Nat
        /\ Busy(j, "zombie") \in {0, 1}
    BY <1>0, BatchTypes, SlotPairs
  <2>6. findings[j] + Busy(j, "zombie") <= lockLosses
    BY <1>2, <1>4, <2>4, <2>5 DEF Batches
  <2>7. QED
    BY <1>2, <2>2, <2>3, <2>4, <2>5, <2>6 DEF Batches
<1>5. QED
  BY <1>3, <1>4

\* An execution that writes its outcome stops counting as a batch, or becomes
\* one; in between it may reopen the row, which is not settled for good then.
LEMMA BatchHandler ==
    ASSUME IInv, TypeOK', Orchestrator = "flow", NEW j \in Jobs, NEW s \in Slots,
           Batches(j), PageHandler(j, s)
    PROVE  Batches(j)'
<1>0. TypeOK
  BY DEF IInv
<1>1. /\ RowOf(j) = j /\ jobs \in [Jobs -> Job] /\ j \in Rows
      /\ pagePc \in [Jobs \X Slots -> PagePcs]
      /\ rows \in [Rows -> {"none", "queued", "running"} \cup TerminalRow]
      /\ findings \in [Rows -> Nat]
      /\ <<j, s>> \in Jobs \X Slots
      /\ \A t \in Slots : t # s => <<j, t>> # <<j, s>> /\ <<j, t>> \in Jobs \X Slots
  BY <1>0, FlowRowOf, SlotPairs, Pairs DEF TypeOK
<1>2. /\ findings[j] \in Nat /\ lockLosses \in Nat
      /\ Busy(j, "holder") \in {0, 1} /\ Busy(j, "zombie") \in {0, 1}
  BY <1>0, BatchTypes, SlotPairs
<1>3. ASSUME NEW c, pagePc' = [pagePc EXCEPT ![<<j, s>>] = c]
      PROVE  /\ pagePc'[<<j, s>>] = c
             /\ Busy(j, s)' = IF c \in {"checked", "fetching"} THEN 1 ELSE 0
             /\ \A t \in Slots : t # s => /\ Busy(j, t)' = Busy(j, t)
                                          /\ pagePc'[<<j, t>>] = pagePc[<<j, t>>]
  BY <1>1, <1>3 DEF Busy
<1>s. s = "holder" \/ s = "zombie"
  BY SlotPairs
<1>4. CASE SkipPage(j, s) \/ StartPage(j, s) \/ FailPage(j, s) \/ AbortPage(j, s)
  <2>1. /\ UNCHANGED <<findings, jobs, lockLosses>>
        /\ Busy(j, s) = 1
        /\ \E c \in {"returned", "fetching", "threw"} : pagePc' = [pagePc EXCEPT ![<<j, s>>] = c]
    BY <1>4 DEF SkipPage, StartPage, FailPage, AbortPage, dbVars, Busy
  <2>2. PICK c \in {"returned", "fetching", "threw"} : pagePc' = [pagePc EXCEPT ![<<j, s>>] = c]
    BY <2>1
  <2>3. /\ pagePc'[<<j, s>>] = c /\ Busy(j, s)' = IF c = "fetching" THEN 1 ELSE 0
        /\ \A t \in Slots : t # s => /\ Busy(j, t)' = Busy(j, t)
                                     /\ pagePc'[<<j, t>>] = pagePc[<<j, t>>]
    BY <1>3, <2>2
  <2>4. findings[j] # 1 + lockLosses
    BY <1>2, <1>s, <2>1 DEF Batches
  <2>5. CASE s = "holder"
    <3>1. Busy(j, "zombie")' = Busy(j, "zombie")
      BY <2>3, <2>5, SlotPairs
    <3>2. QED
      BY <1>2, <2>1, <2>3, <2>4, <2>5, <3>1 DEF Batches
  <2>6. CASE s = "zombie"
    <3>1. Busy(j, "holder")' = Busy(j, "holder") /\ pagePc'[<<j, "holder">>] = pagePc[<<j, "holder">>]
      BY <2>3, <2>6, SlotPairs
    <3>2. QED
      BY <1>2, <2>1, <2>3, <2>4, <2>6, <3>1 DEF Batches
  <2>7. QED
    BY <1>s, <2>5, <2>6
<1>5. CASE CommitPage(j, s)
  <2>1. /\ UNCHANGED <<jobs, lockLosses>> /\ Busy(j, s) = 1
        /\ findings'[j] = findings[j] + 1 /\ rows'[j] = "completed"
        /\ pagePc' = [pagePc EXCEPT ![<<j, s>>] = "returned"]
    BY <1>1, <1>5 DEF CommitPage, Busy
  <2>2. /\ pagePc'[<<j, s>>] = "returned" /\ Busy(j, s)' = 0
        /\ \A t \in Slots : t # s => /\ Busy(j, t)' = Busy(j, t)
                                     /\ pagePc'[<<j, t>>] = pagePc[<<j, t>>]
    BY <1>3, <2>1
  <2>3. CASE s = "holder"
    <3>1. Busy(j, "zombie")' = Busy(j, "zombie")
      BY <2>2, <2>3, SlotPairs
    <3>2. jobs[j].state # "wait"
      BY <1>1, <2>1, <2>3 DEF Busy, IInv, PageOwnership
    <3>3. QED
      BY <1>2, <2>1, <2>2, <2>3, <3>1, <3>2 DEF Batches
  <2>4. CASE s = "zombie"
    <3>1. Busy(j, "holder")' = Busy(j, "holder") /\ pagePc'[<<j, "holder">>] = pagePc[<<j, "holder">>]
      BY <2>2, <2>4, SlotPairs
    <3>2. QED
      BY <1>2, <2>1, <2>2, <2>4, <3>1 DEF Batches
  <2>5. QED
    BY <1>s, <2>3, <2>4
<1>6. CASE AckPage(j, s)
  <2>1. /\ UNCHANGED <<findings, rows, lockLosses>> /\ Busy(j, s) = 0
        /\ pagePc' = [pagePc EXCEPT ![<<j, s>>] = "idle"]
    BY <1>6 DEF AckPage, Busy, dbVars
  <2>2. /\ pagePc'[<<j, s>>] = "idle" /\ Busy(j, s)' = 0
        /\ \A t \in Slots : t # s => /\ Busy(j, t)' = Busy(j, t)
                                     /\ pagePc'[<<j, t>>] = pagePc[<<j, t>>]
    BY <1>3, <2>1
  <2>3. CASE s = "zombie"
    <3>1. Busy(j, "holder")' = Busy(j, "holder") /\ pagePc'[<<j, "holder">>] = pagePc[<<j, "holder">>]
      BY <2>2, <2>3, SlotPairs
    <3>2. jobs' = jobs
      BY <1>6, <2>3 DEF AckPage
    <3>3. QED
      BY <1>2, <2>1, <2>2, <2>3, <3>1, <3>2 DEF Batches
  <2>4. CASE s = "holder"
    <3>1. Busy(j, "zombie")' = Busy(j, "zombie")
      BY <2>2, <2>4, SlotPairs
    <3>2. CASE pagePc[<<j, s>>] = "returned"
      <4>1. jobs'[j] = CompletedJob(jobs[j])
        BY <1>1, <1>6, <2>4, <3>2 DEF AckPage
      <4>2. jobs'[j].state # "wait"
        BY <1>1, <4>1, TakeAndComplete
      <4>3. QED
        BY <1>2, <2>1, <2>2, <2>4, <3>1, <4>2 DEF Batches
    <3>3. CASE pagePc[<<j, s>>] = "threw"
      BY <1>2, <2>1, <2>2, <2>4, <3>1, <3>3 DEF Batches
    <3>4. QED
      BY <1>6, <3>2, <3>3 DEF AckPage
  <2>5. QED
    BY <1>s, <2>3, <2>4
<1>7. QED
  BY <1>4, <1>5, <1>6 DEF PageHandler

\* A lock loss lets one more execution in and is counted.
LEMMA BatchLoss ==
    ASSUME IInv, NEW j \in Jobs, Batches(j), LoseLock(j)
    PROVE  Batches(j)'
<1>0. TypeOK
  BY DEF IInv
<1>1. /\ pagePc \in [Jobs \X Slots -> PagePcs]
      /\ <<j, "holder">> \in Jobs \X Slots /\ <<j, "zombie">> \in Jobs \X Slots
      /\ <<j, "holder">> # <<j, "zombie">>
  BY <1>0, SlotPairs DEF TypeOK
<1>2. /\ findings[j] \in Nat /\ lockLosses \in Nat
      /\ Busy(j, "holder") \in {0, 1} /\ Busy(j, "zombie") \in {0, 1}
  BY <1>0, BatchTypes, SlotPairs
<1>3. /\ UNCHANGED <<rows, findings>> /\ lockLosses' = lockLosses + 1
      /\ pagePc[<<j, "zombie">>] = "idle"
      /\ pagePc'[<<j, "zombie">>] = pagePc[<<j, "holder">>] /\ pagePc'[<<j, "holder">>] = "idle"
  BY <1>1 DEF LoseLock, dbVars
<1>4. /\ Busy(j, "zombie") = 0 /\ Busy(j, "holder")' = 0 /\ Busy(j, "zombie")' = Busy(j, "holder")
  BY <1>3 DEF Busy
<1>5. QED
  BY <1>2, <1>3, <1>4 DEF Batches

\* The account of every job is inductive.
LEMMA NextBatchInv ==
    ASSUME IInv, BatchInv, Orchestrator = "flow", [Next]_vars
    PROVE  BatchInv'
<1>0. TypeOK /\ TypeOK'
  BY NextTypeOK DEF IInv
<1> SUFFICES ASSUME NEW k \in Jobs PROVE Batches(k)'
  BY DEF BatchInv
<1>1. Batches(k)
  BY DEF BatchInv
<1>2. CASE UNCHANGED <<rows, findings, jobs, pagePc, lockLosses>>
  BY <1>0, <1>1, <1>2, BatchStutter
<1>3. CASE \E P \in SUBSET Pages : DiscoverPages(P)
  <2>1. PICK P \in SUBSET Pages : DiscoverPages(P)
    BY <1>3
  <2>2. /\ UNCHANGED <<findings, jobs, pagePc, lockLosses>>
        /\ rows' = [r \in Rows |-> IF r[1] = run /\ r[2] \in P THEN "queued" ELSE rows[r]]
    BY <2>1 DEF DiscoverPages, pageVars
  <2>3. k \in Rows /\ k[1] \in Nat /\ run \in Nat /\ (rows[k] # "none" => k[1] < run)
    BY <2>1, <1>0, Pairs, Constants DEF DiscoverPages, IInv, FreshRun, TypeOK
  <2>4. rows'[k] = rows[k] \/ rows[k] = "none"
    BY <2>2, <2>3
  <2>5. QED
    BY <1>0, <1>1, <2>2, <2>4, BatchStutter
<1>4. CASE FanOutFlow
  <2>1. /\ UNCHANGED <<rows, findings, pagePc, lockLosses>>
        /\ jobs' = [j \in Jobs |-> IF j[1] = run /\ j[2] \in found THEN AddedJob ELSE jobs[j]]
        /\ pc = "rowsCreated"
    BY <1>4 DEF FanOutFlow, dbVars
  <2>2. k[1] = run => jobs[k].state = "absent"
    <3>1. k[1] \in Nat /\ run \in Nat
      BY <1>0, Pairs, Constants DEF TypeOK
    <3>2. jobs[k].state # "absent" => k[1] < run
      BY <2>1 DEF IInv, OwnRows
    <3>3. QED
      BY <3>1, <3>2
  <2>3. jobs[k].state = "absent" => pagePc[<<k, "zombie">>] = "idle"
    BY SlotPairs DEF IInv, PageOwnership
  <2>4. QED
    BY <1>0, <1>1, <2>1, <2>2, <2>3, BatchStutter
<1>5. ASSUME NEW j \in Jobs, NEW s \in Slots, PageHandler(j, s) PROVE Batches(k)'
  <2>1. CASE k = j
    BY <1>0, <1>1, <1>5, <2>1, BatchHandler
  <2>2. CASE k # j
    <3>1. /\ RowOf(j) = j
          /\ jobs \in [Jobs -> Job] /\ findings \in [Rows -> Nat]
          /\ rows \in [Rows -> {"none", "queued", "running"} \cup TerminalRow]
          /\ pagePc \in [Jobs \X Slots -> PagePcs]
          /\ \A t \in Slots : <<k, t>> # <<j, s>> /\ <<k, t>> \in Jobs \X Slots
      BY <1>0, <2>2, FlowRowOf, SlotPairs DEF TypeOK
    <3>2. /\ lockLosses' = lockLosses
          /\ jobs' = jobs \/ \E v : jobs' = [jobs EXCEPT ![j] = v]
          /\ findings' = findings \/ \E v : findings' = [findings EXCEPT ![j] = v]
          /\ rows' = rows \/ \E v : rows' = [rows EXCEPT ![j] = v]
          /\ \E v : pagePc' = [pagePc EXCEPT ![<<j, s>>] = v]
      BY <1>5, <3>1 DEF PageHandler, SkipPage, StartPage, CommitPage, FailPage, AbortPage, AckPage,
                        dbVars
    <3>3. /\ jobs'[k] = jobs[k] /\ findings'[k] = findings[k] /\ rows'[k] = rows[k]
          /\ \A t \in Slots : pagePc'[<<k, t>>] = pagePc[<<k, t>>]
      BY <2>2, <3>1, <3>2, Pairs
    <3>4. QED
      BY <1>0, <1>1, <3>2, <3>3, BatchStutter
  <2>3. QED
    BY <2>1, <2>2
<1>6. ASSUME NEW j \in Jobs, TakePage(j) \/ LoseLock(j) PROVE Batches(k)'
  <2>1. CASE k = j
    BY <1>0, <1>1, <1>6, <2>1, BatchTake, BatchLoss
  <2>2. CASE k # j
    <3>1. /\ jobs \in [Jobs -> Job] /\ pagePc \in [Jobs \X Slots -> PagePcs]
          /\ \A t, u \in Slots : <<k, t>> # <<j, u>> /\ <<k, t>> \in Jobs \X Slots
      BY <1>0, <2>2, SlotPairs DEF TypeOK
    <3>2. /\ lockLosses' \in {lockLosses, lockLosses + 1} /\ UNCHANGED <<findings, rows>>
          /\ \E v : jobs' = [jobs EXCEPT ![j] = v]
          /\ \/ pagePc' = pagePc
             \/ \E v : pagePc' = [pagePc EXCEPT ![<<j, "holder">>] = v]
             \/ \E v, w : pagePc' = [pagePc EXCEPT ![<<j, "zombie">>] = v, ![<<j, "holder">>] = w]
      BY <1>6 DEF TakePage, LoseLock, dbVars
    <3>3. jobs'[k] = jobs[k] /\ \A t \in Slots : pagePc'[<<k, t>>] = pagePc[<<k, t>>]
      BY <2>2, <3>1, <3>2, SlotPairs
    <3>4. QED
      BY <1>0, <1>1, <3>2, <3>3, BatchStutter
  <2>3. QED
    BY <2>1, <2>2
<1>7. CASE Crash
  <2>1. /\ UNCHANGED <<rows, findings, lockLosses>>
        /\ pagePc'[<<k, "holder">>] = "idle" /\ pagePc'[<<k, "zombie">>] = "idle"
    BY <1>7, SlotPairs DEF Crash, dbVars
  <2>2. Busy(k, "holder")' = 0 /\ Busy(k, "zombie")' = 0
    BY <2>1 DEF Busy
  <2>3. QED
    BY <1>0, <1>1, <2>1, <2>2, BatchTypes, SlotPairs DEF Batches
<1>8. QED
  <2>1. CASE \E j \in Jobs : TakePage(j) \/ LoseLock(j)
    BY <1>6, <2>1
  <2>2. CASE \E j \in Jobs, s \in Slots : PageHandler(j, s)
    BY <1>5, <2>2
  <2>3. CASE UNCHANGED vars
    BY <1>2, <2>3 DEF vars, dbVars, pageVars
  <2>4. CASE Api
    BY <1>2, <2>4 DEF Api, CreateAudit, EnqueueAudit, EnqueueAuditFails, DeleteRead, DeleteWrite,
                      dbVars, pageVars
  <2>5. CASE AuditHandler
    <3>1. ASSUME NEW p, NEW r PROVE ~FanOutPolling(p, r)
      BY DEF FanOutPolling
    <3>2. CASE ~FanOutFlow /\ ~(\E P \in SUBSET Pages : DiscoverPages(P))
      <4>1. UNCHANGED <<rows, findings, jobs, pagePc, lockLosses>>
        BY <2>5, <3>1, <3>2
        DEF AuditHandler, TakeAudit, MarkRunning, AbortBeforeTry, FannedOut,
            PagesTerminal, GroupFinished, PollDeadline, FlowDeadline, HandlerThrows, CatchWrite,
            CatchWriteFails, ScanFindings, ScanRows, ScanFailed, CompleteAudit, AckAudit, dbVars,
            pageVars
      <4>2. QED
        BY <1>2, <4>1
    <3>3. QED
      BY <1>3, <1>4, <3>2
  <2>6. QED
    BY <1>7, <2>1, <2>2, <2>3, <2>4, <2>5 DEF Next, PageWorker

\* page-audit-job.ts:98-154: under the flow orchestrator a page's findings are
\* committed at most once, and once more for each lock a live worker lost, for
\* any number of pages, attempts, crashes, faults and DELETEs.
THEOREM BatchesPaidFor == ASSUME Orchestrator = "flow" PROVE Spec => []BatchesBounded
<1>1. Orchestrator = "flow"
  OBVIOUS
<1>2. Init => BatchInv
  <2>1. ASSUME Init PROVE BatchInv
    BY <2>1, Pairs, SlotPairs, FreshJobs DEF Init, BatchInv, Batches, Busy
  <2>2. QED
    BY <2>1
<1>3. IInv /\ BatchInv /\ [Next]_vars => BatchInv'
  BY <1>1, NextBatchInv
<1>4. IInv /\ BatchInv => BatchesBounded
  <2>1. ASSUME IInv, BatchInv, NEW r \in Rows PROVE findings[r] <= 1 + lockLosses
    <3>1. TypeOK /\ r \in Jobs /\ Batches(r)
      BY <2>1, Pairs DEF IInv, BatchInv
    <3>2. /\ findings[r] \in Nat /\ lockLosses \in Nat
          /\ Busy(r, "holder") \in {0, 1} /\ Busy(r, "zombie") \in {0, 1}
      BY <3>1, BatchTypes, SlotPairs
    <3>3. QED
      BY <3>1, <3>2 DEF Batches
  <2>2. QED
    BY <2>1 DEF BatchesBounded
<1>5. QED
  BY <1>2, <1>3, <1>4, Invariance, PTL DEF Spec

-----------------------------------------------------------------------------
(***************************************************************************)
(* PublishedScoreExact.  While the first execution of the audit handler is *)
(* within its deadline the rows that exist are its own, one per page it    *)
(* found; a page job that ended left its row terminal, and only a          *)
(* cancelled audit has skipped rows.  So when the wait is over the rows    *)
(* are settled and no page handler can change them: the three reads of the *)
(* rollup see one state, and so does everyone who reads the score.         *)
(***************************************************************************)
First == run = 1 /\ ~deadline

FirstRows == pc \in {"rowsCreated", "waiting", "scoring"} => ExistingRows = {1} \X found

SkipsAreCancelled == \A r \in Rows : rows[r] = "skipped" => auditStatus = "cancelled"

DoneJobs ==
    \A j \in Jobs : jobs[j].state = "completed" \/ pagePc[<<j, "holder">>] = "returned"
                      => rows[j] \in TerminalRow

Settled == RowsIn({"queued", "running"}) = {}

ScanExact ==
    /\ "findings" \in scan.done => scan.findings = RowsIn({"completed"})
    /\ "rows" \in scan.done => scan.audited = Cardinality(RowsIn({"completed"}))
    /\ "failed" \in scan.done => scan.errors = Cardinality(RowsIn({"failed"}))

ScoreInv ==
    /\ run = 0 => auditStatus # "completed"
    /\ pc # "scoring" => scan = NoScan
    /\ First => FirstRows /\ SkipsAreCancelled /\ DoneJobs
    /\ First /\ pc = "scoring" => Settled /\ ScanExact
    /\ PublishedScoreExact

\* Before the first execution there are no rows and no jobs, and a row of the
\* first execution carries its number.
LEMMA FirstNumbers ==
    ASSUME IInv
    PROVE  /\ \A r \in Rows : r[1] \in Nat /\ r[1] >= 1 /\ (rows[r] # "none" => r[1] <= run)
           /\ run \in Nat
           /\ run = 0 => /\ \A r \in Rows : rows[r] = "none"
                         /\ \A j \in Jobs : /\ jobs[j].state = "absent"
                                            /\ pagePc[<<j, "holder">>] = "idle"
           /\ run = 1 /\ pc \in {"checked", "started"} => \A r \in Rows : rows[r] = "none"
           /\ pc # "idle" => run >= 1
<1>1. run \in Nat /\ \A r \in Rows : r[1] \in Nat /\ r[1] >= 1
  BY Pairs, Constants DEF IInv, TypeOK, Runs
<1>2. /\ \A r \in Rows : rows[r] # "none" => r[1] <= run
      /\ \A j \in Jobs : jobs[j].state # "absent" => j[1] <= run
      /\ pc \in {"checked", "started"} => \A r \in Rows : rows[r] # "none" => r[1] < run
      /\ \A j \in Jobs : pagePc[<<j, "holder">>] # "idle" => jobs[j].state # "absent"
  BY SlotPairs DEF IInv, FreshRun, PageOwnership
<1>3. pc # "idle" => run = auditJob.made + auditJob.stalled + 1 /\ auditJob \in Job
  BY DEF IInv, HandlerOwnership, RunAccounting, TypeOK
<1>4. QED
  BY <1>1, <1>2, <1>3, Pairs DEF Job

\* The rows of the first execution, one per page: the count decides whether
\* all are terminal, and no more rows are counted than pages found.
LEMMA FirstCounts ==
    ASSUME TypeOK, ExistingRows = {1} \X found
    PROVE  /\ Cardinality(RowsIn(TerminalRow)) >= Cardinality(found) => Settled
           /\ Cardinality(RowsIn({"completed"})) + Cardinality(RowsIn({"failed"}))
                <= Cardinality(found)
<1> DEFINE E == {1} \X found
           C == RowsIn({"completed"})
           F == RowsIn({"failed"})
           T == RowsIn(TerminalRow)
<1>1. IsFiniteSet(E) /\ Cardinality(E) = Cardinality(found) /\ Cardinality(found) \in Nat
  <2>1. IsFiniteSet(found) /\ Cardinality(found) \in Nat
    BY PagesAssumption, FS_Subset, FS_CardinalityType DEF TypeOK
  <2>2. IsFiniteSet({1}) /\ Cardinality({1}) = 1
    BY FS_Singleton
  <2>3. IsFiniteSet(E) /\ Cardinality(E) = Cardinality({1}) * Cardinality(found)
    BY <2>1, <2>2, FS_Product
  <2>4. 1 * Cardinality(found) = Cardinality(found)
    BY <2>1
  <2>5. QED
    BY <2>1, <2>2, <2>3, <2>4
<1>2. C \subseteq E /\ F \subseteq E /\ T \subseteq E /\ C \cap F = {}
  BY DEF ExistingRows, RowsIn, TerminalRow
<1>3. /\ IsFiniteSet(C) /\ IsFiniteSet(F) /\ IsFiniteSet(T)
      /\ Cardinality(C) \in Nat /\ Cardinality(F) \in Nat /\ Cardinality(T) \in Nat
      /\ Cardinality(T) <= Cardinality(E)
      /\ Cardinality(E) = Cardinality(T) => E = T
  BY <1>1, <1>2, FS_Subset, FS_CardinalityType
<1>4. Cardinality(T) >= Cardinality(found) => Settled
  <2>1. SUFFICES ASSUME Cardinality(T) >= Cardinality(found) PROVE Settled
    OBVIOUS
  <2>2. E = T
    <3>1. Cardinality(E) = Cardinality(T)
      BY <1>1, <1>3, <2>1
    <3>2. QED
      BY <1>3, <3>1
  <2>3. \A r \in Rows : rows[r] # "none" => rows[r] \in TerminalRow
    BY <2>2 DEF ExistingRows, RowsIn
  <2>4. QED
    BY <2>3 DEF Settled, RowsIn, TerminalRow
<1>5. Cardinality(C) + Cardinality(F) <= Cardinality(found)
  <2>1. Cardinality(C \cup F) = Cardinality(C) + Cardinality(F) - Cardinality(C \cap F)
    BY <1>3, FS_Union
  <2>2. Cardinality(C \cap F) = 0
    BY <1>2, FS_EmptySet
  <2>3. C \cup F \subseteq E
    BY <1>2
  <2>4. Cardinality(C \cup F) <= Cardinality(E)
    BY <1>1, <2>3, FS_Subset
  <2>5. QED
    BY <1>1, <1>3, <2>1, <2>2, <2>4
<1>6. QED
  BY <1>4, <1>5

\* A step that leaves the rows alone and neither completes the audit nor
\* moves its handler into the rollup keeps the invariant.
LEMMA ScoreFrame ==
    ASSUME ScoreInv, UNCHANGED <<rows, score, run, deadline>>,
           auditStatus' = auditStatus \/ auditStatus' # "completed",
           First => SkipsAreCancelled' /\ DoneJobs',
           \/ UNCHANGED <<pc, found, scan>>
           \/ pc' \notin {"rowsCreated", "waiting", "scoring"} /\ scan' = NoScan
           \/ pc = "rowsCreated" /\ pc' = "waiting" /\ UNCHANGED <<found, scan>>
    PROVE  ScoreInv'
<1>1. First' = First
  BY DEF First
<1>2. PublishedScoreExact'
  BY DEF ScoreInv, PublishedScoreExact, CompletedMeansPagesDone, ScoreMatchesRows, RowsIn
<1>3. run' = 0 => auditStatus' # "completed"
  BY DEF ScoreInv
<1>4. pc' # "scoring" => scan' = NoScan
  BY DEF ScoreInv
<1>5. First => FirstRows'
  BY DEF ScoreInv, FirstRows, ExistingRows
<1>6. First /\ pc' = "scoring" => Settled' /\ ScanExact'
  BY DEF ScoreInv, Settled, ScanExact, RowsIn
<1>7. QED
  BY <1>1, <1>2, <1>3, <1>4, <1>5, <1>6 DEF ScoreInv

\* page-audit-job.ts: during the first execution a page handler leaves a
\* settled row alone, and its job ends with a terminal row.
LEMMA PageSteps ==
    ASSUME IInv, PageInv, Orchestrator = "flow", SkipsAreCancelled, DoneJobs,
           NEW j \in Jobs, NEW s \in Slots, PageHandler(j, s)
    PROVE  /\ UNCHANGED <<auditStatus, score, run, pc, found, scan, deadline>>
           /\ ExistingRows' = ExistingRows
           /\ SkipsAreCancelled' /\ DoneJobs'
           /\ Settled => rows' = rows
<1>0. /\ j \in Rows /\ RowOf(j) = j /\ jobs \in [Jobs -> Job]
      /\ rows \in [Rows -> {"none", "queued", "running"} \cup TerminalRow]
      /\ pagePc \in [Jobs \X Slots -> PagePcs]
      /\ <<j, s>> \in Jobs \X Slots
      /\ \A k \in Jobs : k # j => <<k, "holder">> # <<j, s>>
      /\ \A k \in Jobs : <<k, "holder">> \in Jobs \X Slots
      /\ Rows = Jobs
  BY FlowRowOf, Pairs, SlotPairs DEF IInv, TypeOK
<1>1. s = "holder"
  BY PageWrites
<1>2. /\ UNCHANGED <<auditStatus, score, run, pc, found, scan, deadline>>
      /\ jobs' = jobs \/ \E v : jobs' = [jobs EXCEPT ![j] = v]
      /\ rows' = rows \/ \E v : rows' = [rows EXCEPT ![j] = v]
      /\ \E v : pagePc' = [pagePc EXCEPT ![<<j, s>>] = v]
  BY <1>0 DEF PageHandler, SkipPage, StartPage, CommitPage, FailPage, AbortPage, AckPage, dbVars,
              handlerVars
<1>3. \A k \in Jobs : k # j => /\ jobs'[k] = jobs[k] /\ rows'[k] = rows[k]
                               /\ pagePc'[<<k, "holder">>] = pagePc[<<k, "holder">>]
  BY <1>0, <1>2
<1>4. /\ jobs[j].state = "active" /\ rows[j] # "none"
      /\ pagePc[<<j, s>>] = "fetching" => rows[j] = "running"
  BY <1>0, <1>1 DEF PageHandler, SkipPage, StartPage, CommitPage, FailPage, AbortPage, AckPage,
                    IInv, PageOwnership, PageInv, RowsRead
<1>5. /\ rows'[j] # "none"
      /\ rows'[j] = "skipped" => auditStatus = "cancelled"
      /\ jobs'[j].state = "completed" \/ pagePc'[<<j, "holder">>] = "returned"
           => rows'[j] \in TerminalRow
      /\ rows[j] \notin {"queued", "running"} => rows' = rows
  <2>1. CASE SkipPage(j, s)
    <3>1. rows[j] \notin {"completed", "failed"}
      BY <1>0, <1>1, <2>1 DEF SkipPage, PageInv, RowsRead
    <3>2. rows[j] \in {"queued", "running", "skipped"}
      BY <1>0, <1>4, <3>1 DEF TerminalRow
    <3>3. rows' = [rows EXCEPT ![j] = "skipped"] /\ jobs' = jobs /\ auditStatus = "cancelled"
      BY <1>0, <2>1 DEF SkipPage
    <3>4. QED
      BY <1>0, <1>4, <3>2, <3>3 DEF TerminalRow
  <2>2. CASE StartPage(j, s)
    <3>1. rows[j] \notin {"completed", "failed"}
      BY <1>0, <1>1, <2>2 DEF StartPage, PageInv, RowsRead
    <3>2. rows[j] # "skipped"
      BY <1>0, <2>2 DEF StartPage, SkipsAreCancelled
    <3>3. rows[j] \in {"queued", "running"}
      BY <1>0, <1>4, <3>1, <3>2 DEF TerminalRow
    <3>4. /\ rows'[j] = "running" /\ jobs' = jobs
          /\ pagePc'[<<j, "holder">>] = "fetching"
      BY <1>0, <1>1, <2>2 DEF StartPage
    <3>5. QED
      BY <1>4, <3>3, <3>4
  <2>3. CASE CommitPage(j, s) \/ FailPage(j, s)
    <3>1. /\ rows[j] = "running" /\ rows'[j] \in {"completed", "failed"} /\ jobs' = jobs
      BY <1>0, <1>4, <2>3 DEF CommitPage, FailPage
    <3>2. QED
      BY <1>4, <3>1 DEF TerminalRow
  <2>4. CASE AbortPage(j, s)
    <3>1. /\ UNCHANGED <<rows, jobs>> /\ pagePc'[<<j, "holder">>] = "threw"
      BY <1>0, <1>1, <2>4 DEF AbortPage, dbVars
    <3>2. QED
      BY <1>0, <1>4, <3>1 DEF SkipsAreCancelled
  <2>5. CASE AckPage(j, s)
    <3>1. rows' = rows /\ pagePc'[<<j, "holder">>] = "idle"
      BY <1>0, <1>1, <2>5 DEF AckPage, dbVars
    <3>2. jobs'[j].state = "completed" => rows[j] \in TerminalRow
      <4>1. CASE pagePc[<<j, s>>] = "returned"
        BY <1>1, <4>1 DEF DoneJobs
      <4>2. CASE pagePc[<<j, s>>] # "returned"
        <5>1. jobs'[j] = ThrownJob(jobs[j], PageAttempts)
          BY <1>0, <1>1, <2>5, <4>2 DEF AckPage
        <5>2. QED
          BY <1>0, <5>1, Thrown, Constants
      <4>3. QED
        BY <4>1, <4>2
    <3>3. QED
      BY <1>0, <1>4, <3>1, <3>2 DEF SkipsAreCancelled
  <2>6. QED
    BY <2>1, <2>2, <2>3, <2>4, <2>5 DEF PageHandler
<1>6. ExistingRows' = ExistingRows
  BY <1>0, <1>3, <1>4, <1>5 DEF ExistingRows
<1>7. SkipsAreCancelled' /\ DoneJobs'
  BY <1>0, <1>2, <1>3, <1>5 DEF SkipsAreCancelled, DoneJobs
<1>8. Settled => rows' = rows
  BY <1>0, <1>5 DEF Settled, RowsIn
<1>9. QED
  BY <1>2, <1>6, <1>7, <1>8

\* The page queue's own steps: a job ends at once only on a settled row.
LEMMA QueueSteps ==
    ASSUME IInv, Orchestrator = "flow", DoneJobs, NEW j \in Jobs, TakePage(j)
    PROVE  UNCHANGED rows /\ DoneJobs'
<1>0. /\ RowOf(j) = j /\ jobs \in [Jobs -> Job]
      /\ pagePc \in [Jobs \X Slots -> PagePcs]
      /\ \A k \in Jobs : <<k, "holder">> \in Jobs \X Slots
      /\ \A k \in Jobs : k # j => <<k, "holder">> # <<j, "holder">>
  BY FlowRowOf, SlotPairs DEF IInv, TypeOK
<1>1. UNCHANGED rows
  BY DEF TakePage, dbVars
<1>2. CASE rows[j] \in {"completed", "failed"}
  <2>1. pagePc' = pagePc /\ jobs' = [jobs EXCEPT ![j] = CompletedJob(@)]
    BY <1>0, <1>2 DEF TakePage
  <2>2. QED
    BY <1>0, <1>1, <1>2, <2>1 DEF DoneJobs, TerminalRow
<1>3. CASE rows[j] \notin {"completed", "failed"}
  <2>1. /\ pagePc' = [pagePc EXCEPT ![<<j, "holder">>] = "checked"]
        /\ jobs' = [jobs EXCEPT ![j] = TakenJob(@)]
    BY <1>0, <1>3 DEF TakePage
  <2>2. jobs'[j].state = "active"
    BY <1>0, <2>1, TakeAndComplete
  <2>3. \A k \in Jobs : k # j => /\ jobs'[k] = jobs[k]
                                 /\ pagePc'[<<k, "holder">>] = pagePc[<<k, "holder">>]
    BY <1>0, <2>1
  <2>4. pagePc'[<<j, "holder">>] = "checked"
    BY <1>0, <2>1
  <2>5. QED
    BY <1>1, <2>2, <2>3, <2>4 DEF DoneJobs
<1>4. QED
  BY <1>1, <1>2, <1>3

\* The three reads of the rollup and its write: in the settled state they see
\* the same rows.
LEMMA RollupSteps ==
    ASSUME IInv, PageInv, ScoreInv,
           ScanFindings \/ ScanRows \/ ScanFailed \/ CompleteAudit
    PROVE  ScoreInv'
<1>0. TypeOK /\ pc = "scoring" /\ run >= 1 /\ run \in Nat
  BY FirstNumbers DEF IInv, ScanFindings, ScanRows, ScanFailed, CompleteAudit
<1>1. CASE ScanFindings \/ ScanRows \/ ScanFailed
  <2>1. /\ UNCHANGED <<auditStatus, score, rows, findings, run, pc, found, deadline, jobs, pagePc>>
        /\ pc = "scoring"
    BY <1>1 DEF ScanFindings, ScanRows, ScanFailed, dbVars, pageVars
  <2>2. First => ScanExact'
    <3>1. {r \in Rows : findings[r] > 0} = RowsIn({"completed"})
      BY DEF PageInv, RowsRead, FindingsOncePerRow, RowsIn
    <3>2. SUFFICES ASSUME First PROVE ScanExact'
      OBVIOUS
    <3>3. ScanExact /\ scan \in [done : SUBSET {"findings", "rows", "failed"},
                                 audited : Nat, errors : Nat, findings : SUBSET Rows]
      BY <1>0, <3>2 DEF ScoreInv, TypeOK
    <3>4. /\ RowsIn({"completed"})' = RowsIn({"completed"})
          /\ RowsIn({"failed"})' = RowsIn({"failed"})
      BY <2>1 DEF RowsIn
    <3>5. CASE ScanFindings
      <4>1. /\ scan'.findings = RowsIn({"completed"}) /\ scan'.audited = scan.audited
            /\ scan'.errors = scan.errors /\ scan'.done = scan.done \cup {"findings"}
        BY <3>1, <3>3, <3>5 DEF ScanFindings
      <4>2. QED
        BY <3>3, <3>4, <4>1 DEF ScanExact
    <3>6. CASE ScanRows
      <4>1. /\ scan'.audited = Cardinality(RowsIn({"completed"})) /\ scan'.findings = scan.findings
            /\ scan'.errors = scan.errors /\ scan'.done = scan.done \cup {"rows"}
        BY <3>3, <3>6 DEF ScanRows
      <4>2. QED
        BY <3>3, <3>4, <4>1 DEF ScanExact
    <3>7. CASE ScanFailed
      <4>1. /\ scan'.errors = Cardinality(RowsIn({"failed"})) /\ scan'.findings = scan.findings
            /\ scan'.audited = scan.audited /\ scan'.done = scan.done \cup {"failed"}
        BY <3>3, <3>7 DEF ScanFailed
      <4>2. QED
        BY <3>3, <3>4, <4>1 DEF ScanExact
    <3>8. QED
      BY <1>1, <3>5, <3>6, <3>7
  <2>3. QED
    BY <2>1, <2>2 DEF ScoreInv, First, FirstRows, ExistingRows, SkipsAreCancelled, DoneJobs, Settled,
                      RowsIn, PublishedScoreExact, CompletedMeansPagesDone, ScoreMatchesRows
<1>2. CASE CompleteAudit
  <2>1. /\ UNCHANGED <<rows, run, deadline, jobs, pagePc>>
        /\ pc' = "returned" /\ scan' = NoScan
        /\ scan.done = {"findings", "rows", "failed"}
    BY <1>2 DEF CompleteAudit, pageVars
  <2>2. /\ RowsIn({"completed"})' = RowsIn({"completed"})
        /\ RowsIn({"failed"})' = RowsIn({"failed"})
        /\ RowsIn({"queued", "running"})' = RowsIn({"queued", "running"})
    BY <2>1 DEF RowsIn
  <2>3. First' = First
    BY <2>1 DEF First
  <2>4. CASE auditStatus = "running"
    <3>1. /\ auditStatus' = "completed"
          /\ score' = [audited |-> scan.audited, total |-> Cardinality(found),
                       errors |-> scan.errors, findings |-> scan.findings]
      BY <1>2, <2>4 DEF CompleteAudit
    <3>2. First => PublishedScoreExact'
      <4>1. SUFFICES ASSUME First PROVE PublishedScoreExact'
        OBVIOUS
      <4>2. Settled /\ ScanExact /\ FirstRows
        BY <1>0, <4>1 DEF ScoreInv
      <4>3. Cardinality(RowsIn({"completed"})) + Cardinality(RowsIn({"failed"})) <= Cardinality(found)
        BY <1>0, <4>2, FirstCounts DEF FirstRows
      <4>4. /\ score'.findings = RowsIn({"completed"})
            /\ score'.audited = Cardinality(RowsIn({"completed"}))
            /\ score'.errors = Cardinality(RowsIn({"failed"}))
            /\ score'.total = Cardinality(found)
        BY <2>1, <3>1, <4>2 DEF ScanExact
      <4>5. QED
        BY <2>2, <4>2, <4>3, <4>4
        DEF PublishedScoreExact, CompletedMeansPagesDone, ScoreMatchesRows, Settled
    <3>3. ~First => PublishedScoreExact'
      BY <2>1 DEF First, PublishedScoreExact, CompletedMeansPagesDone, ScoreMatchesRows
    <3>4. First => SkipsAreCancelled' /\ DoneJobs'
      BY <2>1, <2>4 DEF ScoreInv, SkipsAreCancelled, DoneJobs
    <3>5. FirstRows' /\ run' # 0
      BY <1>0, <2>1 DEF FirstRows
    <3>6. QED
      BY <2>1, <2>3, <3>2, <3>3, <3>4, <3>5 DEF ScoreInv
  <2>5. CASE auditStatus # "running"
    <3>1. UNCHANGED <<auditStatus, score>>
      BY <1>2, <2>5 DEF CompleteAudit
    <3>2. First => SkipsAreCancelled' /\ DoneJobs'
      BY <2>1, <3>1 DEF ScoreInv, SkipsAreCancelled, DoneJobs
    <3>3. QED
      BY <2>1, <3>1, <3>2, ScoreFrame
  <2>6. QED
    BY <2>4, <2>5
<1>3. QED
  BY <1>1, <1>2

\* The end of the wait: every page of the first execution has its outcome.
LEMMA WaitSteps ==
    ASSUME IInv, ScoreInv,
           PagesTerminal \/ GroupFinished \/ PollDeadline \/ FlowDeadline
    PROVE  ScoreInv'
<1>0. TypeOK /\ pc = "waiting" /\ scan = NoScan
  BY DEF IInv, PagesTerminal, GroupFinished, PollDeadline, FlowDeadline, ScoreInv
<1>1. UNCHANGED <<auditStatus, score, rows, run, found, scan, jobs, pagePc>>
  BY DEF PagesTerminal, GroupFinished, PollDeadline, FlowDeadline, dbVars, pageVars
<1>2. CASE PollDeadline \/ FlowDeadline
  <2>1. deadline' /\ pc' \in {"scoring", "threw"}
    BY <1>2 DEF PollDeadline, FlowDeadline
  <2>2. QED
    BY <1>0, <1>1, <2>1
    DEF ScoreInv, First, PublishedScoreExact, CompletedMeansPagesDone, ScoreMatchesRows
<1>3. CASE PagesTerminal \/ GroupFinished
  <2>1. pc' = "scoring" /\ deadline' = deadline
    BY <1>3 DEF PagesTerminal, GroupFinished
  <2>2. First => Settled
    <3>1. SUFFICES ASSUME First PROVE Settled
      OBVIOUS
    <3>2. ExistingRows = {1} \X found /\ DoneJobs /\ run = 1
      BY <1>0, <3>1 DEF ScoreInv, FirstRows, First
    <3>3. CASE PagesTerminal
      BY <1>0, <3>2, <3>3, FirstCounts DEF PagesTerminal
    <3>4. CASE GroupFinished
      <4>1. ASSUME NEW r \in Rows, rows[r] # "none" PROVE rows[r] \in TerminalRow
        <5>1. r \in {1} \X found
          BY <3>2, <4>1 DEF ExistingRows
        <5>2. PICK p \in found : r = <<1, p>>
          BY <5>1
        <5>3. jobs[<<run, p>>].state = "completed"
          BY <3>4 DEF GroupFinished
        <5>4. QED
          BY <3>2, <5>2, <5>3, Pairs DEF DoneJobs
      <4>2. QED
        BY <4>1 DEF Settled, RowsIn, TerminalRow
    <3>5. QED
      BY <1>3, <3>3, <3>4
  <2>3. First => ScanExact'
    BY <1>0, <1>1 DEF ScanExact, NoScan
  <2>4. First => FirstRows' /\ SkipsAreCancelled' /\ DoneJobs' /\ Settled'
    BY <1>0, <1>1, <2>2
    DEF ScoreInv, FirstRows, ExistingRows, SkipsAreCancelled, DoneJobs, Settled, RowsIn
  <2>5. PublishedScoreExact'
    BY <1>1, <2>1
    DEF ScoreInv, PublishedScoreExact, CompletedMeansPagesDone, ScoreMatchesRows, RowsIn
  <2>6. First' = First /\ (run' = 0 => auditStatus' # "completed")
    BY <1>1, <2>1 DEF First, ScoreInv
  <2>7. QED
    BY <2>1, <2>3, <2>4, <2>5, <2>6 DEF ScoreInv
<1>4. QED
  BY <1>2, <1>3

\* What is known of the first execution is inductive.
LEMMA NextScoreInv ==
    ASSUME IInv, EndInv, PageInv, ScoreInv, Orchestrator = "flow", MaxLockLosses = 0, [Next]_vars
    PROVE  ScoreInv'
<1>0. /\ TypeOK /\ jobs \in [Jobs -> Job] /\ pagePc \in [Jobs \X Slots -> PagePcs]
      /\ auditJob \in Job /\ Jobs = Rows
      /\ \A j \in Jobs : <<j, "holder">> \in Jobs \X Slots
  BY Pairs, SlotPairs DEF IInv, TypeOK
<1>f. First => SkipsAreCancelled /\ DoneJobs
  BY DEF ScoreInv
<1>1. CASE UNCHANGED <<auditStatus, score, rows, run, deadline, jobs, pagePc, pc, found, scan>>
  BY <1>1, <1>f, ScoreFrame DEF SkipsAreCancelled, DoneJobs
<1>2. CASE CreateAudit
  <2>1. /\ run = 0 /\ UNCHANGED <<run, pc, scan>> /\ auditStatus' = "queued"
    BY <1>2 DEF CreateAudit, handlerVars, IInv, HandlerOwnership, RunAccounting
  <2>2. pc = "idle"
    BY <2>1, FirstNumbers
  <2>3. QED
    BY <2>1, <2>2
    DEF ScoreInv, First, PublishedScoreExact, CompletedMeansPagesDone, ScoreMatchesRows
<1>3. CASE DeleteWrite
  <2>1. /\ UNCHANGED <<rows, score, run, deadline, jobs, pagePc, pc, found, scan>>
        /\ auditStatus' = "cancelled"
    BY <1>3 DEF DeleteWrite, handlerVars, pageVars
  <2>2. First => SkipsAreCancelled' /\ DoneJobs'
    BY <1>f, <2>1 DEF SkipsAreCancelled, DoneJobs
  <2>3. QED
    BY <2>1, <2>2, ScoreFrame
<1>4. CASE EnqueueAudit \/ EnqueueAuditFails \/ DeleteRead
  BY <1>1, <1>4 DEF EnqueueAudit, EnqueueAuditFails, DeleteRead, dbVars, handlerVars, pageVars
<1>5. CASE TakeAudit
  <2>1. /\ pc = "idle" /\ run' = run + 1 /\ pc' \in {"idle", "checked"}
        /\ UNCHANGED <<auditStatus, score, rows, findings, found, scan, deadline, jobs, pagePc>>
    BY <1>5 DEF TakeAudit, dbVars, pageVars
  <2>2. CASE run = 0
    <3>1. /\ \A r \in Rows : rows[r] = "none"
          /\ \A j \in Jobs : jobs[j].state = "absent" /\ pagePc[<<j, "holder">>] = "idle"
      BY <2>2, FirstNumbers
    <3>2. SkipsAreCancelled' /\ DoneJobs' /\ FirstRows'
      BY <2>1, <3>1 DEF SkipsAreCancelled, DoneJobs, FirstRows
    <3>3. auditStatus' # "completed"
      BY <2>1, <2>2 DEF ScoreInv
    <3>4. QED
      BY <2>1, <3>2, <3>3
      DEF ScoreInv, PublishedScoreExact, CompletedMeansPagesDone, ScoreMatchesRows
  <2>3. CASE run # 0
    <3>1. run' # 1 /\ run' # 0
      BY <2>1, <2>3, FirstNumbers
    <3>2. QED
      BY <2>1, <3>1
      DEF ScoreInv, First, PublishedScoreExact, CompletedMeansPagesDone, ScoreMatchesRows
  <2>4. QED
    BY <2>2, <2>3
<1>6. CASE MarkRunning
  <2>1. /\ pc = "checked" /\ pc' = "started" /\ auditStatus' = "running"
        /\ UNCHANGED <<score, rows, run, found, scan, deadline, jobs, pagePc>>
    BY <1>6 DEF MarkRunning, pageVars
  <2>2. run = 1 => \A r \in Rows : rows[r] = "none"
    BY <2>1, FirstNumbers
  <2>3. First => SkipsAreCancelled' /\ DoneJobs'
    BY <1>f, <2>1, <2>2 DEF First, SkipsAreCancelled, DoneJobs
  <2>4. scan' = NoScan
    BY <2>1 DEF ScoreInv
  <2>5. QED
    BY <2>1, <2>3, <2>4, ScoreFrame
<1>7. CASE AbortBeforeTry \/ HandlerThrows \/ CatchWrite \/ CatchWriteFails \/ AckAudit
  <2>1. /\ pc' \in {"rethrown", "threw", "idle"} /\ scan' = NoScan
        /\ UNCHANGED <<score, rows, run, deadline, jobs, pagePc>>
        /\ auditStatus' = auditStatus \/ (auditStatus = "running" /\ auditStatus' = "failed")
    BY <1>7
    DEF AbortBeforeTry, HandlerThrows, CatchWrite, CatchWriteFails, AckAudit, dbVars, pageVars, ScoreInv
  <2>2. First => SkipsAreCancelled' /\ DoneJobs'
    BY <1>f, <2>1 DEF SkipsAreCancelled, DoneJobs
  <2>3. QED
    BY <2>1, <2>2, ScoreFrame
<1>8. CASE \E P \in SUBSET Pages : DiscoverPages(P)
  <2>1. PICK P \in SUBSET Pages : DiscoverPages(P)
    BY <1>8
  <2>2. /\ pc = "started" /\ pc' = "rowsCreated" /\ found' = P
        /\ rows' = [r \in Rows |-> IF r[1] = run /\ r[2] \in P THEN "queued" ELSE rows[r]]
        /\ UNCHANGED <<auditStatus, score, run, scan, deadline, jobs, pagePc>>
    BY <2>1 DEF DiscoverPages, pageVars
  <2>3. auditStatus \in {"running", "cancelled"} /\ scan = NoScan
    BY <2>2 DEF EndInv, Working, ScoreInv
  <2>4. First => FirstRows' /\ SkipsAreCancelled' /\ DoneJobs'
    <3>1. SUFFICES ASSUME First PROVE FirstRows' /\ SkipsAreCancelled' /\ DoneJobs'
      OBVIOUS
    <3>2. run = 1 /\ (\A r \in Rows : rows[r] = "none") /\ DoneJobs
      BY <1>f, <2>2, <3>1, FirstNumbers DEF First
    <3>3. \A r \in Rows : rows'[r] = IF r[1] = 1 /\ r[2] \in P THEN "queued" ELSE "none"
      BY <2>2, <3>2
    <3>4. ExistingRows' = {1} \X P
      <4>1. ExistingRows' = {r \in Rows : r[1] = 1 /\ r[2] \in P}
        BY <3>3 DEF ExistingRows
      <4>2. 1 \in Runs
        BY AttemptsAssumption DEF Runs, MaxStalledCount
      <4>3. QED
        BY <4>1, <4>2 DEF Rows
    <3>5. SkipsAreCancelled'
      BY <3>3 DEF SkipsAreCancelled
    <3>6. DoneJobs'
      BY <1>0, <2>2, <3>2 DEF DoneJobs, TerminalRow
    <3>7. QED
      BY <2>2, <3>4, <3>5, <3>6 DEF FirstRows
  <2>5. First' = First
    BY <2>2 DEF First
  <2>6. QED
    BY <2>2, <2>3, <2>4, <2>5
    DEF ScoreInv, PublishedScoreExact, CompletedMeansPagesDone, ScoreMatchesRows
<1>9. CASE FanOutFlow
  <2>1. /\ pc = "rowsCreated" /\ pc' = "waiting"
        /\ jobs' = [j \in Jobs |-> IF j[1] = run /\ j[2] \in found THEN AddedJob ELSE jobs[j]]
        /\ UNCHANGED <<auditStatus, score, rows, run, found, scan, deadline, pagePc>>
    BY <1>9 DEF FanOutFlow, dbVars
  <2>2. \A j \in Jobs : jobs'[j].state = "completed" => jobs[j].state = "completed"
    BY <2>1, FreshJobs
  <2>3. First => SkipsAreCancelled' /\ DoneJobs'
    BY <1>f, <2>1, <2>2 DEF SkipsAreCancelled, DoneJobs
  <2>4. QED
    BY <2>1, <2>3, ScoreFrame
<1>10. CASE FannedOut \/ \E p \in Pages, r \in Runs : FanOutPolling(p, r)
  BY <1>10 DEF FannedOut, FanOutPolling
<1>11. ASSUME NEW j \in Jobs, NEW s \in Slots, PageHandler(j, s) PROVE ScoreInv'
  <2>1. UNCHANGED <<auditStatus, score, run, pc, found, scan, deadline>>
    BY <1>11
    DEF PageHandler, SkipPage, StartPage, CommitPage, FailPage, AbortPage, AckPage, dbVars, handlerVars
  <2>2. CASE First
    <3>1. /\ ExistingRows' = ExistingRows
          /\ SkipsAreCancelled' /\ DoneJobs'
          /\ Settled => rows' = rows
      BY <1>f, <1>11, <2>2, PageSteps
    <3>2. FirstRows'
      BY <2>1, <2>2, <3>1 DEF ScoreInv, FirstRows
    <3>3. pc' = "scoring" => Settled' /\ ScanExact'
      BY <2>1, <2>2, <3>1 DEF ScoreInv, Settled, ScanExact, RowsIn
    <3>4. PublishedScoreExact'
      <4>1. CASE auditStatus = "completed"
        <5>1. Settled
          BY <2>2, <4>1 DEF First, ScoreInv, PublishedScoreExact, CompletedMeansPagesDone, Settled
        <5>2. rows' = rows
          BY <3>1, <5>1
        <5>3. QED
          BY <2>1, <5>2
          DEF ScoreInv, PublishedScoreExact, CompletedMeansPagesDone, ScoreMatchesRows, RowsIn
      <4>2. CASE auditStatus # "completed"
        BY <2>1, <4>2 DEF PublishedScoreExact, CompletedMeansPagesDone, ScoreMatchesRows
      <4>3. QED
        BY <4>1, <4>2
    <3>5. First'
      BY <2>1, <2>2 DEF First
    <3>6. QED
      BY <2>1, <3>1, <3>2, <3>3, <3>4, <3>5 DEF ScoreInv
  <2>3. CASE ~First
    BY <2>1, <2>3
    DEF ScoreInv, First, PublishedScoreExact, CompletedMeansPagesDone, ScoreMatchesRows
  <2>4. QED
    BY <2>2, <2>3
<1>12. ASSUME NEW j \in Jobs, TakePage(j) PROVE ScoreInv'
  <2>1. UNCHANGED <<auditStatus, score, rows, run, deadline, pc, found, scan>>
    BY <1>12 DEF TakePage, dbVars, handlerVars
  <2>2. First => SkipsAreCancelled' /\ DoneJobs'
    BY <1>f, <1>12, <2>1, QueueSteps DEF SkipsAreCancelled
  <2>3. QED
    BY <2>1, <2>2, ScoreFrame
<1>13. CASE Crash
  <2>1. /\ UNCHANGED <<auditStatus, score, rows, run, deadline>>
        /\ pc' = "idle" /\ scan' = NoScan
        /\ pagePc' = [e \in Jobs \X Slots |-> "idle"]
        /\ jobs' = [j \in Jobs |-> IF jobs[j].state = "active" THEN StalledJob(jobs[j]) ELSE jobs[j]]
    BY <1>13 DEF Crash, dbVars
  <2>2. \A j \in Jobs : jobs'[j].state = "completed" => jobs[j].state = "completed"
    BY <1>0, <2>1, Stalled
  <2>3. First => SkipsAreCancelled' /\ DoneJobs'
    BY <1>0, <1>f, <2>1, <2>2 DEF SkipsAreCancelled, DoneJobs
  <2>4. QED
    BY <2>1, <2>3, ScoreFrame
<1>14. ~(\E j \in Jobs : LoseLock(j))
  BY <1>0, BoundsAssumption DEF LoseLock, TypeOK
<1>15. CASE UNCHANGED vars
  BY <1>1, <1>15 DEF vars, dbVars, handlerVars, pageVars
<1>16. QED
  <2>1. CASE Api
    BY <1>2, <1>3, <1>4, <2>1 DEF Api
  <2>2. CASE AuditHandler
    BY <1>5, <1>6, <1>7, <1>8, <1>9, <1>10, <2>2, WaitSteps, RollupSteps DEF AuditHandler
  <2>3. CASE \E j \in Jobs : PageWorker(j)
    BY <1>11, <1>12, <1>14, <2>3 DEF PageWorker
  <2>4. QED
    BY <1>13, <1>15, <2>1, <2>2, <2>3 DEF Next

\* audit-job.ts, completeAuditFromPageScores: under the flow orchestrator the
\* score of an audit completed by its first execution within the deadline is
\* exactly that of its rows, and no page is outstanding, for any number of
\* pages, attempts, crashes, faults and DELETEs, provided no live worker loses
\* its lock.
THEOREM PublishedScoreIsExact ==
    ASSUME Orchestrator = "flow", MaxLockLosses = 0
    PROVE  Spec => []PublishedScoreExact
<1>1. Orchestrator = "flow" /\ MaxLockLosses = 0
  OBVIOUS
<1>2. Init => ScoreInv
  BY DEF Init, ScoreInv, First, PublishedScoreExact, CompletedMeansPagesDone, ScoreMatchesRows
<1>3. IInv /\ PageInv /\ [Next]_vars => PageInv'
  BY <1>1, NextPageInv
<1>4. IInv /\ EndInv /\ PageInv /\ ScoreInv /\ [Next]_vars => ScoreInv'
  BY <1>1, NextScoreInv
<1>5. ScoreInv => PublishedScoreExact
  BY DEF ScoreInv
<1>6. QED
  BY <1>2, <1>3, <1>4, <1>5, InitPageInv, InitEndInv, NextEndInv, Invariance, PTL DEF Spec
=============================================================================
