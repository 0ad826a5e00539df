----------------------- MODULE PublishPipelineProofs -----------------------
(***************************************************************************)
(* Safety of PublishPipeline for every number of channels, requests,       *)
(* attempts, crashes and errors.                                           *)
(*                                                                         *)
(* NoOrphanPublish is proved by saying WHO covers a queued or running row: *)
(* a waiting job, an execution that has not yet written the row's outcome  *)
(* or added the next job, or a request that has written the row and not    *)
(* added its job.  Every step that ends one cover starts another or writes *)
(* a terminal status; a thrown execution is given back while the errors    *)
(* are fewer than the attempts (Accounts).                                 *)
(***************************************************************************)
EXTENDS PublishPipeline, BullJobProofs, FiniteSetTheorems, TLAPS

Responsible == {"took", "tx", "txRead", "ready", "adding", "threw"}
Owing == {"created", "marked", "retried"}

JobCovers(n) == jobs[n].state = "wait" \/ work[n].pc \in Responsible
Covered(c) ==
    \/ \E n \in Jobs : n[1] = c /\ JobCovers(n)
    \/ \E k \in Clients : c \in client[k].on /\ client[k].pc \in Owing

\* The transitions the handler makes, and where each leads.
TransitionOf(w) ==
    \/ w.to = "running" /\ w.after = "ready"
    \/ w.to = "completed" /\ w.after = "recompute"
    \/ w.to = "failed" /\ w.after \in {"recompute", "returned"}
    \/ w.to = "queued" /\ w.after = "adding"

WorkOwnership ==
    \A n \in Jobs : /\ work[n].pc # "idle" <=> jobs[n].state = "active"
                    /\ work[n].pc \in {"tx", "txRead"} => TransitionOf(work[n])

Accounts ==
    \A n \in Jobs : /\ jobs[n].made <= faults
                    /\ work[n].pc = "threw" => jobs[n].made + 1 <= faults
                    /\ jobs[n].stalled <= crashes

Coverage ==
    \A c \in Channels \ lost :
        /\ status[c] \in {"queued", "running"}
        /\ crashes <= MaxStalledCount
        /\ faults < QueueAttempts
        => Covered(c)

PInv == TypeOK /\ WorkOwnership /\ Accounts /\ Coverage

-----------------------------------------------------------------------------
(* The records and the helpers. *)

\* Jobs of the publish queue are pairs of a row and a number.
LEMMA JobPairs ==
    /\ \A n \in Jobs : n[1] \in Channels /\ n[2] \in 1 .. MaxJobs /\ n = <<n[1], n[2]>>
    /\ \A c \in Channels, i \in 1 .. MaxJobs :
           <<c, i>> \in Jobs /\ <<c, i>>[1] = c /\ <<c, i>>[2] = i
BY DEF Jobs

\* The program counters and statuses the initial records hold.
LEMMA IdleRecords == IdleWork \in Work /\ IdleClient \in Client
BY DEF IdleWork, Work, WorkPcs, IdleClient, Client, ClientPcs, RowStatus, PublishStatus,
       TerminalPublish, ReviewState

\* publishQueue.add and addBulk touch free slots only, and give every row of
\* C a waiting job.
LEMMA Adding ==
    ASSUME TypeOK, NEW C \in SUBSET Channels, RoomFor(C)
    PROVE  /\ WithJobsFor(C) \in [Jobs -> Job]
           /\ \A n \in Jobs : \/ WithJobsFor(C)[n] = jobs[n]
                              \/ jobs[n] = NoJob /\ WithJobsFor(C)[n] = AddedJob
           /\ \A c \in C : \E n \in Jobs : n[1] = c /\ WithJobsFor(C)[n] = AddedJob
<1> DEFINE slot(c) == CHOOSE i \in FreeJobs(c) : TRUE
<1>1. \A c \in C : slot(c) \in 1 .. MaxJobs /\ jobs[<<c, slot(c)>>] = NoJob
  BY DEF RoomFor, FreeJobs
<1>2. WithJobsFor(C) = [n \in Jobs |-> IF n[1] \in C /\ n[2] = slot(n[1])
                                       THEN AddedJob ELSE jobs[n]]
  BY DEF WithJobsFor
<1> HIDE DEF slot
<1>3. \A n \in Jobs : n[1] \in C /\ n[2] = slot(n[1]) => jobs[n] = NoJob
  BY <1>1, JobPairs
<1>4. \A c \in C : <<c, slot(c)>> \in Jobs /\ WithJobsFor(C)[<<c, slot(c)>>] = AddedJob
  BY <1>1, <1>2, JobPairs
<1>5. WithJobsFor(C) \in [Jobs -> Job]
  BY <1>2, FreshJobs DEF TypeOK
<1>6. \A n \in Jobs : \/ WithJobsFor(C)[n] = jobs[n]
                      \/ jobs[n] = NoJob /\ WithJobsFor(C)[n] = AddedJob
  <2>1. ASSUME NEW n \in Jobs
        PROVE  WithJobsFor(C)[n] = IF n[1] \in C /\ n[2] = slot(n[1]) THEN AddedJob ELSE jobs[n]
    BY <1>2
  <2>2. QED
    BY ONLY <1>3, <2>1
<1>7. \A c \in C : <<c, slot(c)>>[1] = c
  OBVIOUS
<1>8. QED
  BY <1>4, <1>5, <1>6, <1>7

-----------------------------------------------------------------------------
(* Types. *)

\* The bounds' counters stay in range.
LEMMA InitType == Init => TypeOK
<1> SUFFICES ASSUME Init PROVE TypeOK
  OBVIOUS
<1>1. /\ reviewState \in ReviewState
      /\ status \in [Channels -> RowStatus]
      /\ event \in [Channels -> [from : RowStatus, to : RowStatus]]
      /\ attempts \in [Channels -> Nat] /\ acked \in [Channels -> Nat]
  BY DEF Init, ReviewState, RowStatus, NoEvent
<1>2. jobs \in [Jobs -> Job] /\ work \in [Jobs -> Work] /\ client \in [Clients -> Client]
  BY IdleRecords, FreshJobs DEF Init
<1>3. QED
  BY <1>1, <1>2, BoundsAssumption DEF Init, TypeOK

\* The commit of recordPublishTransition keeps the rows' types.
LEMMA TransitionType ==
    ASSUME TypeOK, NEW c \in Channels, NEW from \in RowStatus, NEW to \in RowStatus,
           Transition(c, from, to)
    PROVE  /\ status' \in [Channels -> RowStatus]
           /\ event' \in [Channels -> [from : RowStatus, to : RowStatus]]
BY DEF TypeOK, Transition

\* routes/publishes.ts: the requests keep every variable in its type.
LEMMA RequestType == ASSUME TypeOK, NEW k \in Clients, Request(k) PROVE TypeOK'
<1> USE DEF TypeOK, rowVars, bounds, ClientAt
<1>0. client[k] \in Client
  OBVIOUS
<1>1. /\ client[k].on \in SUBSET Channels /\ client[k].seen \in RowStatus
      /\ \A pc \in ClientPcs : [client[k] EXCEPT !.pc = pc] \in Client
      /\ {"queued", "failed", "cancelled", "none"} \subseteq RowStatus
  BY <1>0 DEF Client, RowStatus, PublishStatus, TerminalPublish
<1>2. ClientEnds(k) => client' \in [Clients -> Client]
  BY IdleRecords DEF ClientEnds
<1>3. \A pc \in ClientPcs : ClientGoes(k, pc) => client' \in [Clients -> Client]
  BY <1>1 DEF ClientGoes
<1>4. ASSUME NEW C \in (SUBSET Channels) \ {{}}, PostRead(k, C) PROVE TypeOK'
  <2>1. [pc |-> "posting", on |-> C, seen |-> "none"] \in Client
    BY <1>1 DEF Client, ClientPcs
  <2>2. QED
    BY <1>4, <2>1, BoundsAssumption DEF PostRead
<1>5. ASSUME NEW c \in Channels, RetryRead(k, c) \/ CancelRead(k, c) PROVE TypeOK'
  <2>1. /\ [pc |-> "retrying", on |-> {c}, seen |-> "none"] \in Client
        /\ [pc |-> "cancelling", on |-> {c}, seen |-> "none"] \in Client
    BY <1>1 DEF Client, ClientPcs
  <2>2. CASE RetryRead(k, c)
    BY <2>1, <2>2, BoundsAssumption DEF RetryRead
  <2>3. CASE CancelRead(k, c)
    BY <2>1, <2>3, BoundsAssumption DEF CancelRead
  <2>4. QED
    BY <1>5, <2>2, <2>3
<1>6. CASE PostCreate(k) \/ PostConflict(k) \/ PostMark(k)
  BY <1>1, <1>2, <1>3, <1>6 DEF PostCreate, PostConflict, PostMark, ClientPcs, ReviewState
<1>7. CASE PostEnqueue(k) \/ RetryEnqueue(k)
  BY <1>1, <1>2, <1>7, Adding DEF PostEnqueue, RetryEnqueue
<1>8. CASE PostEnqueueFails(k) \/ RetryEnqueueFails(k)
  BY <1>1, <1>2, <1>8, BoundsAssumption DEF PostEnqueueFails, RetryEnqueueFails, Outage, ReviewState
<1>9. ASSUME NEW c \in Channels, ClientTxRead(k, c) PROVE TypeOK'
  <2>1. \A pc \in ClientPcs : [client[k] EXCEPT !.pc = pc, !.seen = status[c]] \in Client
    BY <1>0 DEF Client
  <2>2. client' \in [Clients -> Client]
    BY <1>9, <2>1 DEF ClientTxRead, ClientPcs
  <2>3. QED
    BY <1>9, <2>2 DEF ClientTxRead
<1>10. ASSUME NEW c \in Channels, RetryCommit(k, c) \/ CancelCommit(k, c) PROVE TypeOK'
  BY <1>1, <1>2, <1>3, <1>10, TransitionType DEF RetryCommit, CancelCommit, ClientPcs
<1>11. QED
  BY <1>4, <1>5, <1>6, <1>7, <1>8, <1>9, <1>10 DEF Request, RequestStep

\* publish-job.ts: so do the executions of the handler.
LEMMA WorkType ==
    ASSUME TypeOK, NEW n \in Jobs, WorkStep(n) \/ BookkeepingFails(n) \/ HandlerThrows(n)
    PROVE  TypeOK'
<1> USE DEF TypeOK, rowVars, bounds, At
<1>0. work[n] \in Work /\ jobs[n] \in Job /\ n[1] \in Channels
  BY JobPairs
<1>1. /\ work[n].seen \in RowStatus /\ work[n].to \in RowStatus
      /\ work[n].after \in WorkPcs /\ work[n].tried \in Nat /\ work[n].next \in ReviewState
      /\ \A pc \in WorkPcs : [work[n] EXCEPT !.pc = pc] \in Work
      /\ {"queued", "running", "completed", "failed"} \subseteq RowStatus
  BY <1>0 DEF Work, RowStatus, PublishStatus, TerminalPublish
<1>2. \A pc \in WorkPcs : Goes(n, pc) => work' \in [Jobs -> Work]
  BY <1>1 DEF Goes
<1>3. \A to \in RowStatus, after \in WorkPcs :
          BeginTransition(n, to, after) => work' \in [Jobs -> Work]
  <2>1. \A to \in RowStatus, after \in WorkPcs :
          [work[n] EXCEPT !.pc = "tx", !.to = to, !.after = after] \in Work
    BY <1>0 DEF Work, WorkPcs
  <2>2. ASSUME NEW to \in RowStatus, NEW after \in WorkPcs, BeginTransition(n, to, after)
        PROVE  work' \in [Jobs -> Work]
    <3>1. work' = [work EXCEPT ![n] = [work[n] EXCEPT !.pc = "tx", !.to = to, !.after = after]]
      BY <2>2 DEF BeginTransition
    <3>2. QED
      BY <2>1, <3>1
  <2>3. QED
    BY <2>2
<1>4. RetryOrFail(n) => work' \in [Jobs -> Work]
  BY <1>1, <1>3 DEF RetryOrFail, WorkPcs
<1>5. CASE Take(n)
  <2>1. [IdleWork EXCEPT !.pc = "took", !.tried = attempts[n[1]]] \in Work
    BY <1>0, IdleRecords DEF Work, WorkPcs
  <2>2. QED
    BY <1>0, <1>5, <2>1, TakeAndComplete DEF Take
<1>6. CASE CountAttempt(n)
  BY <1>0, <1>1, <1>3, <1>6 DEF CountAttempt, WorkPcs
<1>7. CASE TxRead(n)
  <2>1. [work[n] EXCEPT !.pc = "txRead", !.seen = status[n[1]]] \in Work
    BY <1>0 DEF Work, WorkPcs
  <2>2. QED
    BY <1>7, <2>1 DEF TxRead
<1>8. CASE TxCommit(n)
  <2>1. [IdleWork EXCEPT !.pc = work[n].after, !.tried = work[n].tried] \in Work
    BY <1>1, IdleRecords DEF Work
  <2>2. work' \in [Jobs -> Work]
    BY <1>8, <2>1 DEF TxCommit
  <2>3. QED
    BY <1>0, <1>1, <1>8, <2>2, TransitionType DEF TxCommit
<1>9. CASE CannotPublish(n) \/ Accepted(n) \/ RetryableError(n) \/ FinalError(n)
  BY <1>0, <1>1, <1>3, <1>4, <1>9 DEF CannotPublish, Accepted, RetryableError, FinalError, WorkPcs
<1>10. CASE BookkeepingFails(n)
  BY <1>4, <1>10, BoundsAssumption DEF BookkeepingFails, Fault, exceptFaults
<1>11. CASE AddRetry(n)
  BY <1>0, <1>2, <1>11, Adding DEF AddRetry, WorkPcs
<1>12. CASE RecomputeRead(n)
  <2>1. [work[n] EXCEPT !.pc = "locked", !.next = Aggregate] \in Work
    BY <1>0 DEF Work, WorkPcs, Aggregate, ReviewState
  <2>2. QED
    BY <1>12, <2>1 DEF RecomputeRead
<1>13. CASE RecomputeWrite(n)
  BY <1>1, <1>2, <1>13 DEF RecomputeWrite, WorkPcs
<1>14. CASE HandlerThrows(n)
  BY <1>2, <1>14, BoundsAssumption DEF HandlerThrows, Fault, exceptFaults, WorkPcs
<1>15. CASE Ack(n)
  BY <1>0, <1>15, LimitsAssumption, IdleRecords, TakeAndComplete, Thrown DEF Ack
<1>16. QED
  BY <1>5, <1>6, <1>7, <1>8, <1>9, <1>10, <1>11, <1>12, <1>13, <1>14, <1>15 DEF WorkStep

\* Every step keeps the variables in their types.
LEMMA NextType == TypeOK /\ [Next]_vars => TypeOK'
<1> SUFFICES ASSUME TypeOK, [Next]_vars PROVE TypeOK'
  OBVIOUS
<1>1. CASE Crash
  <2>1. jobs' \in [Jobs -> Job]
    BY <1>1, Stalled DEF Crash, TypeOK
  <2>2. lost' \in SUBSET Channels
    BY <1>1 DEF Crash, TypeOK, Client
  <2>3. QED
    BY <1>1, <2>1, <2>2, IdleRecords, BoundsAssumption DEF Crash, TypeOK, rowVars
<1>2. CASE UNCHANGED vars
  BY <1>2 DEF vars, TypeOK, rowVars, bounds
<1>3. QED
  BY <1>1, <1>2, RequestType, WorkType DEF Next

\* Every variable keeps the type its column, Redis state or local variable has.
THEOREM PublishTypes == Spec => []TypeOK
  BY InitType, NextType, PTL DEF Spec

-----------------------------------------------------------------------------
(***************************************************************************)
(* Steps by what they touch: an execution that advances changes its own    *)
(* record and row, and either still has something to do for the row, or    *)
(* leaves the row terminal or with a new job, or had nothing left to do.   *)
(***************************************************************************)
JobsGrow ==
    \A m \in Jobs : jobs'[m] = jobs[m] \/ (jobs[m] = NoJob /\ jobs'[m] = AddedJob)

Advance(n) ==
    /\ work[n].pc # "idle" /\ work'[n].pc # "idle"
    /\ work'[n].pc \in {"tx", "txRead"} => TransitionOf(work'[n])
    /\ work'[n].pc = "threw" => faults' = faults + 1
    /\ faults' \in {faults, faults + 1}
    /\ UNCHANGED <<client, lost, crashes>>
    /\ \A m \in Jobs : m # n => work'[m] = work[m]
    /\ JobsGrow
    /\ \A c \in Channels : c # n[1] => status'[c] = status[c]
    /\ \/ work'[n].pc \in Responsible
       \/ status'[n[1]] \notin {"queued", "running"}
       \/ \E m \in Jobs : m[1] = n[1] /\ jobs'[m].state = "wait"
       \/ work[n].pc \notin Responsible /\ status' = status

\* publish-job.ts: every step of the handler between taking the job and
\* acknowledging it is of this kind.
LEMMA Advances ==
    ASSUME TypeOK, WorkOwnership, NEW n \in Jobs,
           \/ CountAttempt(n) \/ TxRead(n) \/ TxCommit(n) \/ CannotPublish(n) \/ Accepted(n)
           \/ RetryableError(n) \/ FinalError(n) \/ BookkeepingFails(n) \/ AddRetry(n)
           \/ RecomputeRead(n) \/ RecomputeWrite(n) \/ HandlerThrows(n)
    PROVE  Advance(n)
<1> USE DEF At
<1>0. /\ work \in [Jobs -> Work] /\ status \in [Channels -> RowStatus] /\ n[1] \in Channels
      /\ jobs \in [Jobs -> Job]
  BY JobPairs DEF TypeOK
<1>1. work[n].pc \in {"tx", "txRead"} => TransitionOf(work[n])
  BY DEF WorkOwnership
<1>2. \A to, after :
        BeginTransition(n, to, after) =>
            /\ work'[n].pc = "tx" /\ work'[n].to = to /\ work'[n].after = after
            /\ \A m \in Jobs : m # n => work'[m] = work[m]
  BY <1>0 DEF BeginTransition, Work
<1>3. \A pc : Goes(n, pc) => /\ work'[n].pc = pc /\ work'[n].to = work[n].to
                             /\ work'[n].after = work[n].after
                             /\ \A m \in Jobs : m # n => work'[m] = work[m]
  BY <1>0 DEF Goes, Work
<1>4. RetryOrFail(n) => /\ work'[n].pc = "tx" /\ TransitionOf(work'[n])
                        /\ \A m \in Jobs : m # n => work'[m] = work[m]
  BY <1>2 DEF RetryOrFail, TransitionOf
<1>5. CASE CountAttempt(n)
  BY <1>2, <1>5 DEF CountAttempt, Advance, JobsGrow, TransitionOf, Responsible, bounds
<1>6. CASE TxRead(n)
  <2>1. /\ work'[n].pc = "txRead" /\ work'[n].to = work[n].to /\ work'[n].after = work[n].after
        /\ \A m \in Jobs : m # n => work'[m] = work[m]
    BY <1>0, <1>6 DEF TxRead, Work
  <2>2. QED
    BY <1>1, <1>6, <2>1 DEF TxRead, Advance, JobsGrow, TransitionOf, Responsible, rowVars, bounds
<1>7. CASE TxCommit(n)
  <2>1. /\ work'[n].pc = work[n].after
        /\ \A m \in Jobs : m # n => work'[m] = work[m]
    BY <1>0, <1>7 DEF TxCommit, IdleWork
  <2>2. /\ status'[n[1]] = work[n].to
        /\ \A c \in Channels : c # n[1] => status'[c] = status[c]
    BY <1>0, <1>7 DEF TxCommit, Transition
  <2>3. TransitionOf(work[n])
    BY <1>1, <1>7 DEF TxCommit
  <2>4. QED
    BY <1>7, <2>1, <2>2, <2>3 DEF TxCommit, Advance, JobsGrow, TransitionOf, Responsible, bounds
<1>8. CASE CannotPublish(n) \/ Accepted(n) \/ FinalError(n)
  BY <1>2, <1>8
  DEF CannotPublish, Accepted, FinalError, Advance, JobsGrow, TransitionOf, Responsible, rowVars,
      bounds
<1>9. CASE RetryableError(n)
  BY <1>4, <1>9 DEF RetryableError, Advance, JobsGrow, Responsible, rowVars, bounds
<1>10. CASE BookkeepingFails(n)
  BY <1>4, <1>10
  DEF BookkeepingFails, Fault, Advance, JobsGrow, Responsible, rowVars, exceptFaults
<1>11. CASE AddRetry(n)
  <2>1. /\ RoomFor({n[1]}) /\ jobs' = WithJobsFor({n[1]})
        /\ UNCHANGED <<rowVars, client, lost, bounds>>
        /\ work[n].pc = "adding" /\ Goes(n, "recompute")
    BY <1>11 DEF AddRetry
  <2>2. JobsGrow /\ \E m \in Jobs : m[1] = n[1] /\ jobs'[m] = AddedJob
    BY <1>0, <2>1, Adding DEF JobsGrow
  <2>3. QED
    BY <1>3, <2>1, <2>2, FreshJobs DEF Advance, rowVars, bounds
<1>12. CASE RecomputeRead(n)
  <2>1. /\ work'[n].pc = "locked" /\ \A m \in Jobs : m # n => work'[m] = work[m]
    BY <1>0, <1>12 DEF RecomputeRead, Work
  <2>2. QED
    BY <1>12, <2>1 DEF RecomputeRead, Advance, JobsGrow, Responsible, rowVars, bounds
<1>13. CASE RecomputeWrite(n)
  BY <1>3, <1>13 DEF RecomputeWrite, Advance, JobsGrow, Responsible, rowVars, bounds
<1>14. CASE HandlerThrows(n)
  BY <1>3, <1>14 DEF HandlerThrows, Fault, Advance, JobsGrow, Responsible, rowVars, exceptFaults
<1>15. QED
  BY <1>5, <1>6, <1>7, <1>8, <1>9, <1>10, <1>11, <1>12, <1>13, <1>14

\* routes/publishes.ts: a request adds jobs and never touches an execution.
LEMMA Requests ==
    ASSUME TypeOK, NEW k \in Clients, Request(k)
    PROVE  JobsGrow /\ UNCHANGED <<work, crashes, faults>>
<1>0. client[k].on \in SUBSET Channels
  BY DEF TypeOK, Client
<1>1. CASE PostEnqueue(k) \/ RetryEnqueue(k)
  BY <1>0, <1>1, Adding DEF PostEnqueue, RetryEnqueue, JobsGrow, bounds
<1>2. CASE ~(PostEnqueue(k) \/ RetryEnqueue(k))
  BY <1>2 DEF Request, RequestStep, PostRead, PostCreate, PostConflict, PostMark, PostEnqueueFails,
              RetryRead, CancelRead, ClientTxRead, RetryCommit, CancelCommit, RetryEnqueueFails,
              JobsGrow, bounds
<1>3. QED
  BY <1>1, <1>2

\* The kinds of steps.
LEMMA PublishSteps ==
    ASSUME TypeOK, WorkOwnership, Next
    PROVE  \/ \E k \in Clients : Request(k)
           \/ \E n \in Jobs : Advance(n) \/ Take(n) \/ Ack(n)
           \/ Crash
BY Advances DEF Next, WorkStep

\* BullMQ: an execution of the handler and its active job exist together.
LEMMA NextOwnership == PInv /\ Next => WorkOwnership'
<1> SUFFICES ASSUME PInv, Next PROVE WorkOwnership'
  OBVIOUS
<1>0. /\ TypeOK /\ WorkOwnership
      /\ jobs \in [Jobs -> Job] /\ work \in [Jobs -> Work]
  BY DEF PInv, TypeOK
<1>s. NoJob.state = "absent" /\ AddedJob.state = "wait"
  BY FreshJobs
<1>1. CASE \E k \in Clients : Request(k)
  BY <1>0, <1>s, <1>1, Requests DEF WorkOwnership, JobsGrow, TransitionOf
<1>2. ASSUME NEW n \in Jobs, Advance(n) PROVE WorkOwnership'
  <2>1. \A m \in Jobs : m # n => /\ work'[m].pc # "idle" <=> jobs'[m].state = "active"
                                 /\ work'[m].pc \in {"tx", "txRead"} => TransitionOf(work'[m])
    BY <1>0, <1>s, <1>2 DEF WorkOwnership, JobsGrow, TransitionOf, Advance
  <2>2. jobs[n].state = "active" /\ jobs'[n] = jobs[n]
    BY <1>0, <1>s, <1>2 DEF WorkOwnership, JobsGrow, Advance
  <2>3. /\ work'[n].pc # "idle"
        /\ work'[n].pc \in {"tx", "txRead"} => TransitionOf(work'[n])
    BY <1>2 DEF Advance
  <2>4. QED
    BY <2>1, <2>2, <2>3 DEF WorkOwnership, TransitionOf
<1>3. ASSUME NEW n \in Jobs, Take(n) PROVE WorkOwnership'
  <2>1. \A m \in Jobs : m # n => work'[m] = work[m] /\ jobs'[m] = jobs[m]
    BY <1>0, <1>3 DEF Take
  <2>2. jobs[n].state = "wait" /\ work[n].pc = "idle"
    BY <1>0, <1>3 DEF Take, WorkOwnership
  <2>3. \/ jobs'[n] = CompletedJob(jobs[n]) /\ work'[n] = work[n]
        \/ jobs'[n] = TakenJob(jobs[n]) /\ work'[n].pc = "took"
    BY <1>0, <1>3 DEF Take, IdleWork
  <2>4. jobs[n] \in Job
    BY <1>0
  <2>5. /\ work'[n].pc # "idle" <=> jobs'[n].state = "active"
        /\ work'[n].pc \notin {"tx", "txRead"}
    BY <2>2, <2>3, <2>4, TakeAndComplete
  <2>6. QED
    BY <1>0, <2>1, <2>5 DEF WorkOwnership, TransitionOf
<1>4. ASSUME NEW n \in Jobs, Ack(n) PROVE WorkOwnership'
  <2>1. \A m \in Jobs : m # n => work'[m] = work[m] /\ jobs'[m] = jobs[m]
    BY <1>0, <1>4 DEF Ack
  <2>2. /\ work'[n].pc = "idle"
        /\ jobs'[n] \in {CompletedJob(jobs[n]), ThrownJob(jobs[n], QueueAttempts)}
    BY <1>0, <1>4 DEF Ack, IdleWork
  <2>3. jobs[n] \in Job /\ QueueAttempts \in Nat
    BY <1>0, LimitsAssumption
  <2>4. jobs'[n].state # "active"
    BY <2>2, <2>3, TakeAndComplete, Thrown
  <2>5. QED
    BY <1>0, <2>1, <2>2, <2>4 DEF WorkOwnership, TransitionOf
<1>5. CASE Crash
  BY <1>0, <1>5, Stalled DEF Crash, WorkOwnership, IdleWork
<1>6. QED
  BY <1>0, <1>1, <1>2, <1>3, <1>4, <1>5, PublishSteps

\* queue.ts: an execution that throws has met an error of its own, and a job
\* that stalls a process death.
LEMMA NextAccounts == PInv /\ Next => Accounts'
<1> SUFFICES ASSUME PInv, Next PROVE Accounts'
  OBVIOUS
<1>0. /\ TypeOK /\ WorkOwnership /\ Accounts
      /\ jobs \in [Jobs -> Job] /\ work \in [Jobs -> Work]
      /\ faults \in Nat /\ crashes \in Nat
  BY BoundsAssumption DEF PInv, TypeOK
<1>s. /\ \A m \in Jobs : jobs[m].made \in Nat /\ jobs[m].stalled \in Nat
      /\ NoJob.made = 0 /\ NoJob.stalled = 0 /\ NoJob.state = "absent"
      /\ AddedJob.made = 0 /\ AddedJob.stalled = 0
  BY <1>0 DEF Job, NoJob, AddedJob
<1>a. \A m \in Jobs : /\ jobs[m].made <= faults
                      /\ work[m].pc = "threw" => jobs[m].made + 1 <= faults
                      /\ jobs[m].stalled <= crashes
  BY <1>0 DEF Accounts
<1>1. CASE \E k \in Clients : Request(k)
  <2>1. JobsGrow /\ UNCHANGED <<work, crashes, faults>>
    BY <1>0, <1>1, Requests
  <2>2. ASSUME NEW m \in Jobs
        PROVE  /\ jobs'[m].made <= faults'
               /\ work'[m].pc = "threw" => jobs'[m].made + 1 <= faults'
               /\ jobs'[m].stalled <= crashes'
    <3>1. work[m].pc = "threw" => jobs[m] # NoJob
      BY <1>0, <1>s DEF WorkOwnership
    <3>2. QED
      BY <1>0, <1>s, <1>a, <2>1, <3>1 DEF JobsGrow
  <2>3. QED
    BY <2>2 DEF Accounts
<1>2. ASSUME NEW n \in Jobs, Advance(n) PROVE Accounts'
  <2>1. ASSUME NEW m \in Jobs
        PROVE  /\ jobs'[m].made <= faults'
               /\ work'[m].pc = "threw" => jobs'[m].made + 1 <= faults'
               /\ jobs'[m].stalled <= crashes'
    <3>1. work[m].pc # "idle" => jobs[m] # NoJob
      BY <1>0, <1>s DEF WorkOwnership
    <3>2. /\ jobs'[m].made = jobs[m].made \/ (jobs[m] = NoJob /\ jobs'[m].made = 0)
          /\ jobs'[m].stalled = jobs[m].stalled \/ jobs'[m].stalled = 0
          /\ faults' \in {faults, faults + 1} /\ crashes' = crashes
      BY <1>s, <1>2 DEF Advance, JobsGrow
    <3>3. /\ m # n => work'[m] = work[m]
          /\ work[n].pc # "idle"
          /\ work'[n].pc = "threw" => faults' = faults + 1
      BY <1>2 DEF Advance
    <3>4. QED
      BY <1>0, <1>s, <1>a, <3>1, <3>2, <3>3
  <2>2. QED
    BY <2>1 DEF Accounts
<1>3. ASSUME NEW n \in Jobs, Take(n) PROVE Accounts'
  <2>1. \A m \in Jobs : m # n => work'[m] = work[m] /\ jobs'[m] = jobs[m]
    BY <1>0, <1>3 DEF Take
  <2>2. /\ jobs'[n] \in {CompletedJob(jobs[n]), TakenJob(jobs[n])}
        /\ work'[n] = work[n] \/ work'[n].pc = "took"
        /\ faults' = faults /\ crashes' = crashes
    BY <1>0, <1>3 DEF Take, IdleWork, bounds
  <2>3. jobs'[n].made = jobs[n].made /\ jobs'[n].stalled = jobs[n].stalled
    BY <1>0, <2>2, TakeAndComplete
  <2>4. QED
    BY <1>a, <2>1, <2>2, <2>3 DEF Accounts
<1>4. ASSUME NEW n \in Jobs, Ack(n) PROVE Accounts'
  <2>1. \A m \in Jobs : m # n => work'[m] = work[m] /\ jobs'[m] = jobs[m]
    BY <1>0, <1>4 DEF Ack
  <2>2. /\ work'[n].pc = "idle" /\ faults' = faults /\ crashes' = crashes
        /\ \/ jobs'[n] = CompletedJob(jobs[n])
           \/ work[n].pc = "threw" /\ jobs'[n] = ThrownJob(jobs[n], QueueAttempts)
    BY <1>0, <1>4 DEF Ack, At, IdleWork, bounds
  <2>3. /\ jobs'[n].stalled = jobs[n].stalled
        /\ \/ jobs'[n].made = jobs[n].made
           \/ work[n].pc = "threw" /\ jobs'[n].made = jobs[n].made + 1
    BY <1>0, <2>2, LimitsAssumption, TakeAndComplete, Thrown
  <2>4. QED
    BY <1>a, <2>1, <2>2, <2>3 DEF Accounts
<1>5. CASE Crash
  <2>1. ASSUME NEW m \in Jobs
        PROVE  jobs'[m].made = jobs[m].made /\ jobs'[m].stalled <= crashes + 1
    BY <1>0, <1>s, <1>a, <1>5, Stalled DEF Crash
  <2>2. /\ crashes' = crashes + 1 /\ faults' = faults
        /\ \A m \in Jobs : work'[m].pc = "idle"
    BY <1>5 DEF Crash, IdleWork
  <2>3. QED
    BY <1>a, <2>1, <2>2 DEF Accounts
<1>6. QED
  BY <1>0, <1>1, <1>2, <1>3, <1>4, <1>5, PublishSteps

\* A cover that is not ended by the step still covers.
LEMMA CoverStays ==
    ASSUME NEW c \in Channels, Covered(c),
           \A m \in Jobs : m[1] = c /\ JobCovers(m) =>
               \/ jobs'[m].state = "wait"
               \/ work'[m].pc \in Responsible,
           \A k \in Clients : c \in client[k].on /\ client[k].pc \in Owing =>
               c \in client'[k].on /\ client'[k].pc \in Owing
    PROVE  Covered(c)'
BY DEF Covered, JobCovers

\* A waiting job covers its row.
LEMMA WaitingCovers ==
    ASSUME NEW c \in Channels, NEW n \in Jobs, n[1] = c, jobs'[n].state = "wait"
    PROVE  Covered(c)'
BY DEF Covered, JobCovers

\* routes/publishes.ts: a request that stops covering a row has added its
\* job, failed it, cancelled it or is counted as lost.
LEMMA RequestCoverage ==
    ASSUME PInv, NEW k \in Clients, Request(k), Coverage PROVE Coverage'
<1>0. /\ TypeOK /\ WorkOwnership
      /\ jobs \in [Jobs -> Job] /\ status \in [Channels -> RowStatus]
      /\ client \in [Clients -> Client] /\ client[k].on \in SUBSET Channels
      /\ NoJob.state = "absent" /\ AddedJob.state = "wait"
  BY FreshJobs DEF PInv, TypeOK, Client
<1>1. JobsGrow /\ UNCHANGED <<work, crashes, faults>>
  BY <1>0, Requests
<1>2. \A m \in Jobs : JobCovers(m) => jobs'[m].state = "wait" \/ work'[m].pc \in Responsible
  BY <1>0, <1>1 DEF JobsGrow, JobCovers
<1>3. \A j \in Clients : j # k => client'[j] = client[j]
  BY <1>0 DEF Request, RequestStep, PostRead, PostCreate, PostConflict, PostMark, PostEnqueue,
              PostEnqueueFails, RetryRead, CancelRead, ClientTxRead, RetryCommit, CancelCommit,
              RetryEnqueue, RetryEnqueueFails, ClientGoes, ClientEnds
<1>4. SUFFICES ASSUME NEW c \in Channels, c \notin lost', status'[c] \in {"queued", "running"},
                      crashes <= MaxStalledCount, faults < QueueAttempts
               PROVE  Covered(c)'
  BY <1>1 DEF Coverage
<1>5. lost \subseteq lost'
  BY DEF Request, RequestStep, PostRead, PostCreate, PostConflict, PostMark, PostEnqueue,
         PostEnqueueFails, RetryRead, CancelRead, ClientTxRead, RetryCommit, CancelCommit,
         RetryEnqueue, RetryEnqueueFails
<1>6. status'[c] = status[c] => Covered(c)
  BY <1>4, <1>5 DEF Coverage
<1>7. CASE /\ status'[c] = status[c]
           /\ c \in client[k].on /\ client[k].pc \in Owing =>
                c \in client'[k].on /\ client'[k].pc \in Owing
  BY <1>2, <1>3, <1>6, <1>7, CoverStays
<1>8. ASSUME NEW C \in (SUBSET Channels) \ {{}}, PostRead(k, C) PROVE Covered(c)'
  BY <1>7, <1>8 DEF PostRead, ClientAt, Owing, rowVars
<1>9. ASSUME NEW d \in Channels, RetryRead(k, d) \/ CancelRead(k, d) PROVE Covered(c)'
  BY <1>7, <1>9 DEF RetryRead, CancelRead, ClientAt, Owing, rowVars
<1>10. CASE PostCreate(k)
  <2>1. client'[k].pc = "created" /\ client'[k].on = client[k].on
    BY <1>0, <1>10 DEF PostCreate, ClientGoes, Client
  <2>2. CASE c \in client[k].on
    BY <2>1, <2>2 DEF Covered, Owing
  <2>3. CASE c \notin client[k].on
    BY <1>0, <1>7, <1>10, <2>3 DEF PostCreate
  <2>4. QED
    BY <2>2, <2>3
<1>11. CASE PostConflict(k)
  BY <1>7, <1>11 DEF PostConflict, ClientAt, Owing, rowVars
<1>12. CASE PostMark(k)
  <2>1. client'[k].pc = "marked" /\ client'[k].on = client[k].on
    BY <1>0, <1>12 DEF PostMark, ClientGoes, Client
  <2>2. QED
    BY <1>7, <1>12, <2>1 DEF PostMark, Owing, rowVars
<1>13. CASE PostEnqueue(k) \/ RetryEnqueue(k)
  <2>1. /\ jobs' = WithJobsFor(client[k].on) /\ RoomFor(client[k].on) /\ status' = status
    BY <1>13 DEF PostEnqueue, RetryEnqueue, rowVars
  <2>2. CASE c \in client[k].on
    <3>1. \E n \in Jobs : n[1] = c /\ jobs'[n] = AddedJob
      BY <1>0, <2>1, <2>2, Adding
    <3>2. QED
      BY <1>0, <3>1, WaitingCovers
  <2>3. CASE c \notin client[k].on
    BY <1>7, <2>1, <2>3
  <2>4. QED
    BY <2>2, <2>3
<1>14. CASE PostEnqueueFails(k)
  BY <1>0, <1>4, <1>7, <1>14 DEF PostEnqueueFails
<1>15. CASE RetryEnqueueFails(k)
  BY <1>4, <1>7, <1>15 DEF RetryEnqueueFails, rowVars
<1>16. ASSUME NEW d \in Channels, ClientTxRead(k, d) PROVE Covered(c)'
  BY <1>7, <1>16 DEF ClientTxRead, Owing, rowVars
<1>17. ASSUME NEW d \in Channels, RetryCommit(k, d) PROVE Covered(c)'
  <2>1. /\ client'[k].pc = "retried" /\ client'[k].on = client[k].on /\ d \in client[k].on
        /\ client[k].pc = "retryRead"
        /\ c # d => status'[c] = status[c]
    BY <1>0, <1>17 DEF RetryCommit, ClientGoes, ClientAt, Client, Transition
  <2>2. CASE c = d
    BY <2>1, <2>2 DEF Covered, Owing
  <2>3. CASE c # d
    BY <1>7, <2>1, <2>3 DEF Owing
  <2>4. QED
    BY <2>2, <2>3
<1>18. ASSUME NEW d \in Channels, CancelCommit(k, d) PROVE Covered(c)'
  <2>1. /\ client[k].pc = "cancelRead"
        /\ c # d => status'[c] = status[c]
        /\ c = d => status'[c] = "cancelled"
    BY <1>0, <1>18 DEF CancelCommit, ClientAt, Transition
  <2>2. QED
    BY <1>4, <1>7, <2>1 DEF Owing
<1>19. QED
  BY <1>8, <1>9, <1>10, <1>11, <1>12, <1>13, <1>14, <1>15, <1>16, <1>17, <1>18
  DEF Request, RequestStep

\* publish-job.ts and queue.ts: neither a step of the handler nor the death
\* of the process leaves a queued or running row without a cover.
LEMMA NextCoverage == PInv /\ Next => Coverage'
<1> SUFFICES ASSUME PInv, Next PROVE Coverage'
  OBVIOUS
<1>0. /\ TypeOK /\ WorkOwnership /\ Accounts /\ Coverage
      /\ jobs \in [Jobs -> Job] /\ work \in [Jobs -> Work]
      /\ faults \in Nat /\ crashes \in Nat
      /\ NoJob.state = "absent"
      /\ \A n \in Jobs : n[1] \in Channels
  BY BoundsAssumption, FreshJobs, JobPairs DEF PInv, TypeOK
<1>1. CASE \E k \in Clients : Request(k)
  BY <1>0, <1>1, RequestCoverage
<1>2. ASSUME NEW n \in Jobs, Advance(n) PROVE Coverage'
  <2>1. SUFFICES ASSUME NEW c \in Channels, c \notin lost, status'[c] \in {"queued", "running"},
                        crashes <= MaxStalledCount, faults' < QueueAttempts
                 PROVE  Covered(c)'
    BY <1>2 DEF Coverage, Advance
  <2>2. status'[c] = status[c] => Covered(c)
    <3>1. QueueAttempts \in Nat /\ faults < QueueAttempts
      BY <1>0, <1>2, <2>1, LimitsAssumption DEF Advance
    <3>2. QED
      BY <1>0, <2>1, <3>1 DEF Coverage
  <2>3. \A m \in Jobs : m # n /\ JobCovers(m) =>
            jobs'[m].state = "wait" \/ work'[m].pc \in Responsible
    BY <1>0, <1>2 DEF Advance, JobsGrow, JobCovers
  <2>4. client' = client
    BY <1>2 DEF Advance
  <2>5. CASE c # n[1]
    BY <1>2, <2>2, <2>3, <2>4, <2>5, CoverStays DEF Advance
  <2>6. CASE c = n[1]
    <3>1. CASE work'[n].pc \in Responsible
      BY <2>6, <3>1 DEF Covered, JobCovers
    <3>2. CASE \E m \in Jobs : m[1] = n[1] /\ jobs'[m].state = "wait"
      BY <2>6, <3>2, WaitingCovers
    <3>3. CASE work[n].pc \notin Responsible /\ status' = status
      <4>1. ~JobCovers(n)
        BY <1>0, <1>2, <3>3 DEF JobCovers, Advance, WorkOwnership
      <4>2. QED
        BY <2>2, <2>3, <2>4, <3>3, <4>1, CoverStays
    <3>4. QED
      BY <1>2, <2>1, <2>6, <3>1, <3>2, <3>3 DEF Advance
  <2>7. QED
    BY <2>5, <2>6
<1>3. ASSUME NEW n \in Jobs, Take(n) PROVE Coverage'
  <2>1. /\ UNCHANGED <<status, client, lost, crashes, faults>>
        /\ \A m \in Jobs : m # n => work'[m] = work[m] /\ jobs'[m] = jobs[m]
        /\ status[n[1]] = "cancelled" \/ work'[n].pc = "took"
    BY <1>0, <1>3 DEF Take, rowVars, bounds, IdleWork
  <2>2. SUFFICES ASSUME NEW c \in Channels, c \notin lost, status[c] \in {"queued", "running"},
                        crashes <= MaxStalledCount, faults < QueueAttempts
                 PROVE  Covered(c)'
    BY <2>1 DEF Coverage
  <2>3. Covered(c)
    BY <1>0, <2>2 DEF Coverage
  <2>4. \A m \in Jobs : m[1] = c /\ JobCovers(m) =>
            jobs'[m].state = "wait" \/ work'[m].pc \in Responsible
    BY <2>1, <2>2 DEF JobCovers, Responsible
  <2>5. QED
    BY <2>1, <2>3, <2>4, CoverStays
<1>4. ASSUME NEW n \in Jobs, Ack(n) PROVE Coverage'
  <2>1. /\ UNCHANGED <<status, client, lost, crashes, faults>>
        /\ \A m \in Jobs : m # n => work'[m] = work[m] /\ jobs'[m] = jobs[m]
        /\ work[n].pc \in {"returned", "threw"}
        /\ work[n].pc = "threw" => jobs'[n] = ThrownJob(jobs[n], QueueAttempts)
    BY <1>0, <1>4 DEF Ack, At, rowVars, bounds
  <2>2. SUFFICES ASSUME NEW c \in Channels, c \notin lost, status[c] \in {"queued", "running"},
                        crashes <= MaxStalledCount, faults < QueueAttempts
                 PROVE  Covered(c)'
    BY <2>1 DEF Coverage
  <2>3. Covered(c)
    BY <1>0, <2>2 DEF Coverage
  <2>4. work[n].pc = "threw" => jobs'[n].state = "wait"
    <3>1. work[n].pc = "threw" => jobs[n].made + 1 <= faults
      BY <1>0 DEF Accounts
    <3>2. jobs[n].made \in Nat /\ QueueAttempts \in Nat
      BY <1>0, LimitsAssumption DEF Job
    <3>3. QED
      BY <1>0, <2>1, <2>2, <3>1, <3>2 DEF ThrownJob
  <2>5. work[n].pc = "returned" => ~JobCovers(n)
    BY <1>0 DEF WorkOwnership, JobCovers, Responsible
  <2>6. \A m \in Jobs : m[1] = c /\ JobCovers(m) =>
            jobs'[m].state = "wait" \/ work'[m].pc \in Responsible
    BY <2>1, <2>4, <2>5 DEF JobCovers
  <2>7. QED
    BY <2>1, <2>3, <2>6, CoverStays
<1>5. CASE Crash
  <2>1. SUFFICES ASSUME NEW c \in Channels, c \notin lost', status[c] \in {"queued", "running"},
                        crashes + 1 <= MaxStalledCount, faults < QueueAttempts
                 PROVE  Covered(c)'
    BY <1>5 DEF Coverage, Crash, rowVars
  <2>2. c \notin lost /\ \A k \in Clients : ~(c \in client[k].on /\ client[k].pc \in Owing)
    BY <1>5, <2>1 DEF Crash, Owing
  <2>3. Covered(c)
    BY <1>0, <2>1, <2>2 DEF Coverage, MaxStalledCount
  <2>4. PICK n \in Jobs : n[1] = c /\ JobCovers(n)
    BY <2>2, <2>3 DEF Covered
  <2>5. jobs'[n].state = "wait"
    <3>1. CASE jobs[n].state = "wait"
      BY <1>5, <3>1 DEF Crash
    <3>2. CASE jobs[n].state # "wait"
      <4>1. jobs[n].state = "active"
        BY <1>0, <2>4, <3>2 DEF JobCovers, WorkOwnership, Responsible
      <4>2. jobs[n].stalled <= crashes /\ jobs[n].stalled \in Nat
        BY <1>0 DEF Accounts, Job
      <4>3. jobs'[n] = StalledJob(jobs[n])
        BY <1>5, <4>1 DEF Crash
      <4>4. QED
        BY <1>0, <2>1, <4>2, <4>3 DEF StalledJob, MaxStalledCount
    <3>3. QED
      BY <3>1, <3>2
  <2>6. QED
    BY <2>4, <2>5, WaitingCovers
<1>6. QED
  BY <1>0, <1>1, <1>2, <1>3, <1>4, <1>5, PublishSteps

\* The invariant holds at first, and every step keeps it.
LEMMA InitPInv == Init => PInv
<1> SUFFICES ASSUME Init PROVE PInv
  OBVIOUS
<1>1. WorkOwnership /\ Accounts /\ Coverage
  BY FreshJobs DEF Init, WorkOwnership, Accounts, Coverage, IdleWork, NoJob
<1>2. QED
  BY <1>1, InitType DEF PInv

LEMMA NextPInv == PInv /\ [Next]_vars => PInv'
<1>1. CASE Next
  BY <1>1, NextType, NextOwnership, NextAccounts, NextCoverage DEF PInv
<1>2. CASE UNCHANGED vars
  BY <1>2, NextType
  DEF vars, rowVars, bounds, PInv, WorkOwnership, Accounts, Coverage, Covered, JobCovers,
      TransitionOf
<1>3. QED
  BY <1>1, <1>2

\* publish-job.ts, publishes.ts and queue.ts together: a queued or running
\* row always has a job or a request at work on it, for any number of
\* channels, requests, retries, cancels and outages, within the crashes and
\* errors BullMQ's attempts pay for.
THEOREM RowsHaveOwners == Spec => []NoOrphanPublish
<1>1. PInv => NoOrphanPublish
  <2>1. SUFFICES ASSUME PInv, NEW c \in Channels \ lost, status[c] \in {"queued", "running"},
                        crashes <= MaxStalledCount, faults < QueueAttempts
                 PROVE  \/ \E i \in 1 .. MaxJobs : jobs[<<c, i>>].state \in {"wait", "active"}
                        \/ \E k \in Clients : c \in client[k].on /\ client[k].pc \in Owing
    BY DEF NoOrphanPublish, Owing
  <2>2. Covered(c)
    BY <2>1 DEF PInv, Coverage
  <2>3. ASSUME NEW n \in Jobs, n[1] = c, JobCovers(n)
        PROVE  \E i \in 1 .. MaxJobs : jobs[<<c, i>>].state \in {"wait", "active"}
    <3>1. jobs[n].state \in {"wait", "active"}
      BY <2>1, <2>3 DEF PInv, JobCovers, WorkOwnership, Responsible
    <3>2. n = <<c, n[2]>> /\ n[2] \in 1 .. MaxJobs
      BY <2>3, JobPairs
    <3>3. QED
      BY <3>1, <3>2
  <2>4. QED
    BY <2>2, <2>3 DEF Covered
<1>2. QED
  BY <1>1, InitPInv, NextPInv, PTL DEF Spec

-----------------------------------------------------------------------------
(***************************************************************************)
(* ReviewStateSettles: while nothing outside the handler interferes, some  *)
(* job or request still owes the generation a recompute, or one is inside  *)
(* the lock with what the rows say, or reviewState says it already.        *)
(***************************************************************************)

Calm ==
    /\ Undisturbed
    /\ cancels = 0 /\ outages = 0
    /\ \A c \in Broken : status[c] = "none"

\* Executions and requests that will still recompute the generation.
Debtors == {"took", "tx", "txRead", "ready", "adding", "recompute"}
JobOwes(n) == jobs[n].state = "wait" \/ work[n].pc \in Debtors
RequestOwes(k) == client[k].pc \in Owing
RecomputeOwed == (\E n \in Jobs : JobOwes(n)) \/ (\E k \in Clients : RequestOwes(k))

\* Only a row that exists has jobs and requests beyond the POST's creation.
RowsExist ==
    /\ \A n \in Jobs : jobs[n] # NoJob => status[n[1]] # "none"
    /\ \A k \in Clients : /\ client[k].pc # "idle" => client[k].on # {}
                          /\ client[k].pc \notin {"idle", "posting"} =>
                                \A c \in client[k].on : status[c] # "none"

\* The handler skips the recompute for a broken channel only.
SkipsRecompute ==
    \A n \in Jobs : work[n].pc \in {"tx", "txRead"} /\ work[n].after = "returned" =>
                        n[1] \in Broken

\* The advisory lock: one execution between the read and the write.
OneRecompute == \A m, n \in Jobs : At(m, "locked") /\ At(n, "locked") => m = n

NothingCancelled ==
    cancels = 0 => /\ \A c \in Channels : status[c] # "cancelled"
                   /\ \A k \in Clients : client[k].pc \notin {"cancelling", "cancelRead"}

Settling ==
    Calm => \/ RecomputeOwed
            \/ \E n \in Jobs : At(n, "locked") /\ work[n].next = Aggregate
            \/ (\A n \in Jobs : ~At(n, "locked")) /\ reviewState = Aggregate

SInv ==
    /\ PInv
    /\ RowsExist /\ SkipsRecompute /\ OneRecompute /\ NothingCancelled
    /\ Settling

\* A new job is a job of one of the rows it was added for.
LEMMA AddedFor ==
    ASSUME NEW C, NEW n \in Jobs
    PROVE  WithJobsFor(C)[n] = jobs[n] \/ n[1] \in C
BY DEF WithJobsFor

\* No step deletes a row (routes/publishes.ts and publish-job.ts).
LEMMA RowsStay ==
    ASSUME TypeOK, WorkOwnership, Next, NEW c \in Channels, status[c] # "none"
    PROVE  status'[c] # "none"
<1>0. status \in [Channels -> RowStatus] /\ \A n \in Jobs : n[1] \in Channels
  BY JobPairs DEF TypeOK
<1>1. ASSUME NEW d \in Channels, NEW from, NEW to, to # "none", Transition(d, from, to)
      PROVE  status'[c] # "none"
  BY <1>0, <1>1 DEF Transition
<1>2. ASSUME NEW k \in Clients, Request(k) PROVE status'[c] # "none"
  <2>1. CASE \E d \in Channels : RetryCommit(k, d) \/ CancelCommit(k, d)
    BY <1>1, <2>1 DEF RetryCommit, CancelCommit
  <2>2. CASE PostCreate(k) \/ PostEnqueueFails(k)
    BY <1>0, <2>2 DEF PostCreate, PostEnqueueFails
  <2>3. CASE UNCHANGED status
    BY <2>3
  <2>4. QED
    BY <1>2, <2>1, <2>2, <2>3
    DEF Request, RequestStep, PostRead, PostConflict, PostMark, PostEnqueue, RetryRead,
        CancelRead, ClientTxRead, RetryEnqueue, RetryEnqueueFails, rowVars
<1>3. ASSUME NEW n \in Jobs, TxCommit(n) PROVE status'[c] # "none"
  BY <1>0, <1>1, <1>3 DEF TxCommit, At, WorkOwnership, TransitionOf
<1>4. ASSUME NEW n \in Jobs, WorkStep(n) \/ BookkeepingFails(n) \/ HandlerThrows(n), ~TxCommit(n)
      PROVE  status' = status
  BY <1>4
  DEF WorkStep, Take, CountAttempt, TxRead, CannotPublish, Accepted, RetryableError, FinalError,
      BookkeepingFails, AddRetry, RecomputeRead, RecomputeWrite, HandlerThrows, Ack, rowVars
<1>5. QED
  BY <1>2, <1>3, <1>4 DEF Next, Crash, rowVars

\* A step of the handler is one execution's and no request's ...
LEMMA WorkAlone ==
    ASSUME TypeOK, NEW n \in Jobs, WorkStep(n) \/ BookkeepingFails(n) \/ HandlerThrows(n)
    PROVE  /\ UNCHANGED <<client, lost, posts, retries, cancels, crashes, outages>>
           /\ faults' = faults \/ faults' = faults + 1
           /\ \A m \in Jobs : m # n => work'[m] = work[m]
BY DEF TypeOK, WorkStep, Take, CountAttempt, TxRead, TxCommit, CannotPublish, Accepted,
       RetryableError, RetryOrFail, FinalError, BookkeepingFails, AddRetry, RecomputeRead,
       RecomputeWrite, HandlerThrows, Ack, BeginTransition, Goes, Fault, bounds, exceptFaults

\* ... and a step of a request is one request's and no execution's.
LEMMA RequestAlone ==
    ASSUME TypeOK, NEW k \in Clients, Request(k)
    PROVE  /\ UNCHANGED <<work, crashes, faults>>
           /\ \A j \in Clients : j # k => client'[j] = client[j]
BY DEF TypeOK, Request, RequestStep, PostRead, PostCreate, PostConflict, PostMark, PostEnqueue,
       PostEnqueueFails, RetryRead, CancelRead, ClientTxRead, RetryCommit, CancelCommit,
       RetryEnqueue, RetryEnqueueFails, ClientGoes, ClientEnds, bounds

\* The rows that requests and jobs are about exist.
LEMMA NextRowsExist == PInv /\ RowsExist /\ Next => RowsExist'
<1> SUFFICES ASSUME PInv, RowsExist, Next PROVE RowsExist'
  OBVIOUS
<1>0. /\ TypeOK /\ WorkOwnership
      /\ jobs \in [Jobs -> Job] /\ work \in [Jobs -> Work] /\ client \in [Clients -> Client]
      /\ status \in [Channels -> RowStatus] /\ NoJob.state = "absent"
      /\ \A n \in Jobs : n[1] \in Channels
      /\ \A k \in Clients : client[k].on \in SUBSET Channels
  BY JobPairs, FreshJobs DEF PInv, TypeOK, Client
<1>1. \A c \in Channels : status[c] # "none" => status'[c] # "none"
  BY <1>0, RowsStay
<1>2. ASSUME NEW n \in Jobs, jobs'[n] # NoJob PROVE status'[n[1]] # "none"
  <2>1. SUFFICES jobs[n] # NoJob \/ status[n[1]] # "none"
    BY <1>0, <1>1 DEF RowsExist
  <2>2. ASSUME NEW k \in Clients, PostEnqueue(k) \/ RetryEnqueue(k)
        PROVE  jobs[n] # NoJob \/ status[n[1]] # "none"
    BY <1>0, <1>2, <2>2, AddedFor DEF PostEnqueue, RetryEnqueue, ClientAt, RowsExist
  <2>3. ASSUME NEW m \in Jobs, AddRetry(m)
        PROVE  jobs[n] # NoJob \/ status[n[1]] # "none"
    <3>1. jobs[m] # NoJob
      BY <1>0, <2>3 DEF AddRetry, At, WorkOwnership
    <3>2. jobs[n] # NoJob \/ n[1] \in {m[1]}
      BY <1>2, <2>3, AddedFor DEF AddRetry
    <3>3. QED
      BY <3>1, <3>2 DEF RowsExist
  <2>4. ASSUME NEW m \in Jobs, Take(m) \/ Ack(m)
        PROVE  jobs[n] # NoJob
    BY <1>0, <1>2, <2>4 DEF Take, Ack, WorkOwnership, At
  <2>5. CASE Crash
    BY <1>0, <1>2, <2>5 DEF Crash
  <2>6. CASE jobs' = jobs
    BY <1>2, <2>6
  <2>7. QED
    BY <2>2, <2>3, <2>4, <2>5, <2>6
    DEF Next, Request, RequestStep, PostRead, PostCreate, PostConflict, PostMark, PostEnqueueFails,
        RetryRead, CancelRead, ClientTxRead, RetryCommit, CancelCommit, RetryEnqueueFails,
        WorkStep, CountAttempt, TxRead, TxCommit, CannotPublish, Accepted, RetryableError,
        FinalError, BookkeepingFails, RecomputeRead, RecomputeWrite, HandlerThrows
<1>3. ASSUME NEW k \in Clients
      PROVE  /\ client'[k].pc # "idle" => client'[k].on # {}
             /\ client'[k].pc \notin {"idle", "posting"} =>
                    \A c \in client'[k].on : status'[c] # "none"
  <2>0. /\ client[k].pc # "idle" => client[k].on # {}
        /\ client[k].pc \notin {"idle", "posting"} =>
              \A c \in client[k].on : status'[c] # "none"
    BY <1>0, <1>1 DEF RowsExist
  <2>1. CASE client'[k] = client[k]
    BY <2>0, <2>1
  <2>2. CASE client'[k].pc = "idle"
    BY <2>2
  <2>3. ASSUME NEW C \in (SUBSET Channels) \ {{}}, PostRead(k, C), client'[k] # client[k]
        PROVE  client'[k].pc = "posting" /\ client'[k].on # {}
    BY <1>0, <2>3 DEF PostRead
  <2>4. ASSUME NEW c \in Channels, RetryRead(k, c) \/ CancelRead(k, c)
        PROVE  client'[k].on = {c} /\ status[c] # "none"
    BY <1>0, <2>4 DEF RetryRead, CancelRead
  <2>5. CASE PostCreate(k)
    BY <1>0, <2>0, <2>5 DEF PostCreate, ClientAt, ClientGoes
  <2>6. CASE PostMark(k)
    BY <1>0, <2>0, <2>6 DEF PostMark, ClientAt, ClientGoes
  <2>7. ASSUME NEW c \in Channels, ClientTxRead(k, c) \/ RetryCommit(k, c)
        PROVE  client'[k].on = client[k].on /\ client[k].pc \notin {"idle", "posting"}
    BY <1>0, <2>7 DEF ClientTxRead, RetryCommit, ClientAt, ClientGoes, Client
  <2>8. Request(k) \/ Crash \/ client'[k] = client[k]
    BY <1>0, WorkAlone, RequestAlone DEF Next
  <2>9. CASE Crash
    BY <2>2, <2>9 DEF Crash, IdleClient
  <2>10. ClientEnds(k) => client'[k].pc = "idle"
    BY <1>0 DEF ClientEnds, IdleClient
  <2>11. CASE Request(k)
    <3>1. CASE \E C \in (SUBSET Channels) \ {{}} : PostRead(k, C)
      BY <2>1, <2>3, <3>1
    <3>2. CASE \E c \in Channels : RetryRead(k, c) \/ CancelRead(k, c)
      BY <1>0, <1>1, <2>4, <3>2
    <3>3. CASE \E c \in Channels : ClientTxRead(k, c) \/ RetryCommit(k, c)
      BY <2>0, <2>7, <3>3
    <3>4. CASE PostConflict(k) \/ PostEnqueue(k) \/ PostEnqueueFails(k) \/ RetryEnqueue(k)
               \/ RetryEnqueueFails(k) \/ \E c \in Channels : CancelCommit(k, c)
      BY <2>2, <2>10, <3>4 DEF PostConflict, PostEnqueue, PostEnqueueFails, RetryEnqueue,
                               RetryEnqueueFails, CancelCommit
    <3>5. QED
      BY <2>5, <2>6, <2>11, <3>1, <3>2, <3>3, <3>4 DEF Request, RequestStep
  <2>12. QED
    BY <2>1, <2>8, <2>9, <2>11
<1>4. QED
  BY <1>2, <1>3 DEF RowsExist

\* What an execution does with its own record, action by action.
LEMMA WorkMoves ==
    ASSUME TypeOK, NEW n \in Jobs
    PROVE  /\ \A pc : Goes(n, pc) =>
                /\ work'[n].pc = pc /\ work'[n].to = work[n].to
                /\ work'[n].after = work[n].after /\ work'[n].tried = work[n].tried
                /\ work'[n].next = work[n].next
           /\ \A to, after : BeginTransition(n, to, after) =>
                /\ work'[n].pc = "tx" /\ work'[n].to = to /\ work'[n].after = after
                /\ work'[n].tried = work[n].tried
           /\ TxRead(n) => /\ work'[n].pc = "txRead" /\ work'[n].to = work[n].to
                           /\ work'[n].after = work[n].after /\ work'[n].tried = work[n].tried
           /\ TxCommit(n) => work'[n].pc = work[n].after /\ work'[n].tried = work[n].tried
           /\ RecomputeRead(n) => work'[n].pc = "locked" /\ work'[n].next = Aggregate
           /\ Ack(n) => work'[n].pc = "idle"
           /\ Take(n) => \/ status[n[1]] = "cancelled" /\ work' = work
                         \/ /\ status[n[1]] # "cancelled"
                            /\ work'[n].pc = "took" /\ work'[n].tried = attempts[n[1]]
<1>0. work \in [Jobs -> Work] /\ work[n] \in Work
  BY DEF TypeOK
<1>1. ASSUME NEW pc, Goes(n, pc)
      PROVE  /\ work'[n].pc = pc /\ work'[n].to = work[n].to
             /\ work'[n].after = work[n].after /\ work'[n].tried = work[n].tried
             /\ work'[n].next = work[n].next
  BY <1>0, <1>1 DEF Goes, Work
<1>2. ASSUME NEW to, NEW after, BeginTransition(n, to, after)
      PROVE  /\ work'[n].pc = "tx" /\ work'[n].to = to /\ work'[n].after = after
             /\ work'[n].tried = work[n].tried
  BY <1>0, <1>2 DEF BeginTransition, Work
<1>3. TxRead(n) => /\ work'[n].pc = "txRead" /\ work'[n].to = work[n].to
                   /\ work'[n].after = work[n].after /\ work'[n].tried = work[n].tried
  BY <1>0 DEF TxRead, Work
<1>4. TxCommit(n) => work'[n].pc = work[n].after /\ work'[n].tried = work[n].tried
  BY <1>0 DEF TxCommit, IdleWork
<1>5. RecomputeRead(n) => work'[n].pc = "locked" /\ work'[n].next = Aggregate
  BY <1>0 DEF RecomputeRead, Work
<1>6. Ack(n) => work'[n].pc = "idle"
  BY <1>0 DEF Ack, IdleWork
<1>7. Take(n) => \/ status[n[1]] = "cancelled" /\ work' = work
                 \/ /\ status[n[1]] # "cancelled"
                    /\ work'[n].pc = "took" /\ work'[n].tried = attempts[n[1]]
  <2>1. CASE Take(n) /\ status[n[1]] = "cancelled"
    BY <2>1 DEF Take
  <2>2. CASE Take(n) /\ status[n[1]] # "cancelled"
    BY <1>0, <2>2 DEF Take, IdleWork
  <2>3. QED
    BY <2>1, <2>2
<1>8. QED
  BY <1>1, <1>2, <1>3, <1>4, <1>5, <1>6, <1>7

\* publish-job.ts: only the path for a broken channel returns without the recompute.
LEMMA NextSkips == PInv /\ SkipsRecompute /\ Next => SkipsRecompute'
<1> SUFFICES ASSUME PInv, SkipsRecompute, Next, NEW n \in Jobs,
                    work'[n].pc \in {"tx", "txRead"}, work'[n].after = "returned"
             PROVE  n[1] \in Broken
  BY DEF SkipsRecompute
<1>0. TypeOK
  BY DEF PInv
<1>1. CASE work'[n] = work[n]
  BY <1>1 DEF SkipsRecompute
<1>2. CASE Crash
  BY <1>2 DEF Crash, IdleWork
<1>3. CASE WorkStep(n) \/ BookkeepingFails(n) \/ HandlerThrows(n)
  <2>1. CASE TxRead(n)
    BY <1>0, <2>1, WorkMoves DEF SkipsRecompute, TxRead, At
  <2>2. CASE CannotPublish(n)
    BY <2>2 DEF CannotPublish
  <2>3. CASE CountAttempt(n) \/ Accepted(n) \/ FinalError(n)
    BY <1>0, <2>3, WorkMoves DEF CountAttempt, Accepted, FinalError
  <2>4. CASE RetryableError(n) \/ BookkeepingFails(n)
    BY <1>0, <2>4, WorkMoves DEF RetryableError, BookkeepingFails, RetryOrFail
  <2>5. CASE AddRetry(n) \/ RecomputeRead(n) \/ RecomputeWrite(n) \/ HandlerThrows(n) \/ Ack(n)
    BY <1>0, <2>5, WorkMoves DEF AddRetry, RecomputeWrite, HandlerThrows
  <2>6. CASE TxCommit(n)
    <3>1. work'[n].pc = work[n].after /\ TransitionOf(work[n])
      BY <1>0, <2>6, WorkMoves DEF TxCommit, At, PInv, WorkOwnership
    <3>2. QED
      BY <3>1 DEF TransitionOf
  <2>7. CASE Take(n)
    BY <1>0, <1>1, <2>7, WorkMoves
  <2>8. QED
    BY <1>3, <2>1, <2>2, <2>3, <2>4, <2>5, <2>6, <2>7 DEF WorkStep
<1>4. QED
  BY <1>0, <1>1, <1>2, <1>3, WorkAlone, RequestAlone DEF Next

\* Only the recompute takes the lock.
LEMMA LockSteps ==
    ASSUME PInv, Next, NEW n \in Jobs, work'[n].pc = "locked"
    PROVE  work'[n] = work[n] \/ RecomputeRead(n)
<1>0. TypeOK
  BY DEF PInv
<1>1. CASE Crash
  BY <1>1 DEF Crash, IdleWork
<1>2. CASE WorkStep(n) \/ BookkeepingFails(n) \/ HandlerThrows(n)
  <2>1. CASE TxRead(n) \/ CannotPublish(n) \/ CountAttempt(n) \/ Accepted(n) \/ FinalError(n)
             \/ RetryableError(n) \/ BookkeepingFails(n)
    BY <1>0, <2>1, WorkMoves
    DEF CannotPublish, CountAttempt, Accepted, FinalError, RetryableError, BookkeepingFails,
        RetryOrFail
  <2>2. CASE AddRetry(n) \/ RecomputeWrite(n) \/ HandlerThrows(n) \/ Ack(n)
    BY <1>0, <2>2, WorkMoves DEF AddRetry, RecomputeWrite, HandlerThrows
  <2>3. CASE TxCommit(n)
    <3>1. work'[n].pc = work[n].after /\ TransitionOf(work[n])
      BY <1>0, <2>3, WorkMoves DEF TxCommit, At, PInv, WorkOwnership
    <3>2. QED
      BY <3>1 DEF TransitionOf
  <2>4. CASE Take(n)
    BY <1>0, <2>4, WorkMoves
  <2>5. QED
    BY <1>2, <2>1, <2>2, <2>3, <2>4 DEF WorkStep
<1>3. QED
  BY <1>0, <1>1, <1>2, WorkAlone, RequestAlone DEF Next

\* db.ts, withGenerationLock: one execution at a time is inside the recompute.
LEMMA NextOneRecompute == PInv /\ OneRecompute /\ Next => OneRecompute'
<1> SUFFICES ASSUME PInv, OneRecompute, Next, NEW m \in Jobs, NEW n \in Jobs,
                    work'[m].pc = "locked", work'[n].pc = "locked"
             PROVE  m = n
  BY DEF OneRecompute, At
<1>0. TypeOK
  BY DEF PInv
<1>1. \A j \in Jobs : RecomputeRead(j) =>
          /\ \A i \in Jobs : work[i].pc # "locked"
          /\ \A i \in Jobs : i # j => work'[i] = work[i]
  BY <1>0, WorkAlone DEF RecomputeRead, At, WorkStep
<1>2. /\ work'[m] = work[m] \/ RecomputeRead(m)
      /\ work'[n] = work[n] \/ RecomputeRead(n)
  BY LockSteps
<1>3. QED
  BY <1>1, <1>2 DEF OneRecompute, At

\* Nothing is cancelled before the first cancel is asked for.
LEMMA NextNothingCancelled == PInv /\ NothingCancelled /\ Next => NothingCancelled'
<1> SUFFICES ASSUME PInv, NothingCancelled, Next, cancels' = 0
             PROVE  /\ \A c \in Channels : status'[c] # "cancelled"
                    /\ \A k \in Clients : client'[k].pc \notin {"cancelling", "cancelRead"}
  BY DEF NothingCancelled
<1>0. /\ TypeOK /\ cancels \in Nat
      /\ client \in [Clients -> Client] /\ status \in [Channels -> RowStatus]
  BY BoundsAssumption DEF PInv, TypeOK
<1>1. cancels = 0 /\ \A k \in Clients, c \in Channels : ~CancelRead(k, c)
  <2>1. ASSUME NEW k \in Clients, Request(k)
        PROVE  cancels' \in {cancels, cancels + 1}
    BY <2>1
    DEF Request, RequestStep, PostRead, PostCreate, PostConflict, PostMark, PostEnqueue,
        PostEnqueueFails, RetryRead, CancelRead, ClientTxRead, RetryCommit, CancelCommit,
        RetryEnqueue, RetryEnqueueFails, bounds
  <2>2. \A k \in Clients, c \in Channels : CancelRead(k, c) => cancels' = cancels + 1
    BY DEF CancelRead
  <2>3. cancels' \in {cancels, cancels + 1}
    BY <1>0, <2>1, WorkAlone DEF Next, Crash
  <2>4. QED
    BY <1>0, <2>2, <2>3
<1>2. /\ \A c \in Channels : status[c] # "cancelled"
      /\ \A k \in Clients : client[k].pc \notin {"cancelling", "cancelRead"}
  BY <1>1 DEF NothingCancelled
<1>3. ASSUME NEW c \in Channels PROVE status'[c] # "cancelled"
  <2>1. ASSUME NEW k \in Clients, Request(k) PROVE status'[c] # "cancelled"
    BY <1>0, <1>2, <2>1
    DEF Request, RequestStep, PostRead, PostCreate, PostConflict, PostMark, PostEnqueue,
        PostEnqueueFails, RetryRead, CancelRead, ClientTxRead, RetryCommit, CancelCommit,
        RetryEnqueue, RetryEnqueueFails, ClientAt, Transition, rowVars
  <2>2. ASSUME NEW n \in Jobs, TxCommit(n) PROVE status'[c] # "cancelled"
    BY <1>0, <1>2, <2>2 DEF TxCommit, At, Transition, PInv, WorkOwnership, TransitionOf
  <2>3. ASSUME NEW n \in Jobs, WorkStep(n) \/ BookkeepingFails(n) \/ HandlerThrows(n), ~TxCommit(n)
        PROVE  status' = status
    BY <2>3
    DEF WorkStep, Take, CountAttempt, TxRead, CannotPublish, Accepted, RetryableError, FinalError,
        BookkeepingFails, AddRetry, RecomputeRead, RecomputeWrite, HandlerThrows, Ack, rowVars
  <2>4. QED
    BY <1>2, <2>1, <2>2, <2>3 DEF Next, Crash, rowVars
<1>4. ASSUME NEW k \in Clients PROVE client'[k].pc \notin {"cancelling", "cancelRead"}
  <2>1. CASE Request(k)
    BY <1>0, <1>1, <1>2, <2>1
    DEF Request, RequestStep, PostRead, PostCreate, PostConflict, PostMark, PostEnqueue,
        PostEnqueueFails, RetryRead, ClientTxRead, RetryCommit, CancelCommit,
        RetryEnqueue, RetryEnqueueFails, ClientAt, ClientGoes, ClientEnds, IdleClient, Client
  <2>2. CASE Crash
    BY <2>2 DEF Crash, IdleClient
  <2>3. CASE client'[k] = client[k]
    BY <1>2, <2>3
  <2>4. QED
    BY <1>0, <2>1, <2>2, <2>3, WorkAlone, RequestAlone DEF Next
<1>5. QED
  BY <1>3, <1>4

\* Calm is never reached again once it is left.
LEMMA CalmBefore == PInv /\ Next /\ Calm' => Calm
<1> SUFFICES ASSUME PInv, Next, Calm' PROVE Calm
  OBVIOUS
<1>0. /\ TypeOK /\ WorkOwnership
      /\ crashes \in Nat /\ faults \in Nat /\ cancels \in Nat /\ outages \in Nat
  BY BoundsAssumption DEF PInv, TypeOK
<1>1. \A c \in Broken : status[c] = "none"
  BY <1>0, RowsStay, BrokenAssumption DEF Calm
<1>2. ASSUME NEW k \in Clients, Request(k)
      PROVE  /\ cancels' \in {cancels, cancels + 1} /\ outages' \in {outages, outages + 1}
             /\ crashes' = crashes /\ faults' = faults /\ lost \subseteq lost'
  BY <1>2
  DEF Request, RequestStep, PostRead, PostCreate, PostConflict, PostMark, PostEnqueue,
      PostEnqueueFails, RetryRead, CancelRead, ClientTxRead, RetryCommit, CancelCommit,
      RetryEnqueue, RetryEnqueueFails, Outage, bounds
<1>3. ASSUME Crash PROVE FALSE
  BY <1>0, <1>3 DEF Crash, Calm, Undisturbed
<1>4. QED
  BY <1>0, <1>1, <1>2, <1>3, WorkAlone DEF Next, Calm, Undisturbed

\* publishes.ts: a request that writes a row or the generation owes a job,
\* and the job it adds owes the recompute.
LEMMA RequestSettling ==
    ASSUME SInv, Calm, outages' = 0, NEW k \in Clients, Request(k)
    PROVE  Settling'
<1>0. /\ TypeOK /\ outages = 0 /\ cancels = 0
      /\ jobs \in [Jobs -> Job] /\ client \in [Clients -> Client]
      /\ NoJob.state = "absent" /\ AddedJob.state = "wait"
      /\ client[k].on \in SUBSET Channels
  BY FreshJobs DEF SInv, PInv, TypeOK, Calm, Client
<1>1. /\ work' = work /\ \A j \in Clients : j # k => client'[j] = client[j]
      /\ JobsGrow
  BY <1>0, RequestAlone, Requests
<1>2. ~PostEnqueueFails(k) /\ ~RetryEnqueueFails(k)
  BY <1>0 DEF PostEnqueueFails, RetryEnqueueFails, Outage
<1>3. \A c \in Channels : ~CancelCommit(k, c)
  BY <1>0 DEF CancelCommit, ClientAt, SInv, NothingCancelled
<1>4. CASE PostCreate(k) \/ PostMark(k) \/ \E c \in Channels : RetryCommit(k, c)
  <2>1. client'[k].pc \in Owing
    BY <1>0, <1>4 DEF PostCreate, PostMark, RetryCommit, ClientGoes, Client, Owing
  <2>2. QED
    BY <2>1 DEF Settling, RecomputeOwed, RequestOwes
<1>5. CASE PostEnqueue(k) \/ RetryEnqueue(k)
  <2>1. PICK c \in client[k].on : TRUE
    BY <1>5 DEF PostEnqueue, RetryEnqueue, ClientAt, SInv, RowsExist
  <2>2. \E n \in Jobs : jobs'[n].state = "wait"
    BY <1>0, <1>5, <2>1, Adding DEF PostEnqueue, RetryEnqueue
  <2>3. QED
    BY <2>2 DEF Settling, RecomputeOwed, JobOwes
<1>6. CASE /\ UNCHANGED <<status, reviewState, jobs>>
           /\ client[k].pc \notin Owing
  <2>1. RecomputeOwed => RecomputeOwed'
    BY <1>1, <1>6 DEF RecomputeOwed, JobOwes, RequestOwes
  <2>2. Aggregate' = Aggregate
    BY <1>6 DEF Aggregate, Rows
  <2>3. QED
    BY <1>1, <1>6, <2>1, <2>2 DEF SInv, Settling, At
<1>7. QED
  BY <1>2, <1>3, <1>4, <1>5, <1>6
  DEF Request, RequestStep, PostRead, PostConflict, RetryRead, CancelRead, ClientTxRead, ClientAt,
      Owing, rowVars

\* publish-job.ts: an execution owes the recompute until it reads the rows
\* under the lock, and what it then writes is what the rows still say.
LEMMA WorkSettling ==
    ASSUME SInv, Calm, faults' = 0, NEW n \in Jobs,
           WorkStep(n) \/ BookkeepingFails(n) \/ HandlerThrows(n)
    PROVE  Settling'
<1>0. /\ TypeOK /\ WorkOwnership /\ faults = 0
      /\ jobs \in [Jobs -> Job] /\ work \in [Jobs -> Work]
      /\ NoJob.state = "absent" /\ AddedJob.state = "wait"
      /\ n[1] \in Channels
  BY FreshJobs, JobPairs DEF SInv, PInv, TypeOK, Calm, Undisturbed
<1>1. /\ client' = client
      /\ \A m \in Jobs : m # n => work'[m] = work[m]
  BY <1>0, WorkAlone
<1>2. ~BookkeepingFails(n) /\ ~HandlerThrows(n)
  BY <1>0 DEF BookkeepingFails, HandlerThrows, Fault
<1>3. \/ RecomputeOwed
      \/ \E m \in Jobs : At(m, "locked") /\ work[m].next = Aggregate
      \/ (\A m \in Jobs : ~At(m, "locked")) /\ reviewState = Aggregate
  BY DEF SInv, Settling
<1>4. CASE work'[n].pc \in Debtors
  BY <1>4 DEF Settling, RecomputeOwed, JobOwes
<1>5. jobs[n] # NoJob => n[1] \notin Broken /\ status[n[1]] # "cancelled"
  BY <1>0 DEF SInv, RowsExist, Calm, NothingCancelled
<1>6. CASE Take(n)
  <2>1. work'[n].pc = "took"
    BY <1>0, <1>5, <1>6, WorkMoves DEF Take
  <2>2. QED
    BY <1>4, <2>1 DEF Debtors
<1>7. CASE \/ CountAttempt(n) \/ TxRead(n) \/ CannotPublish(n) \/ Accepted(n)
           \/ RetryableError(n) \/ FinalError(n) \/ AddRetry(n)
  <2>1. work'[n].pc \in {"tx", "txRead", "recompute"}
    BY <1>0, <1>7, WorkMoves
    DEF CountAttempt, CannotPublish, Accepted, RetryableError, RetryOrFail, FinalError, AddRetry
  <2>2. QED
    BY <1>4, <2>1 DEF Debtors
<1>8. CASE TxCommit(n)
  <2>1. work'[n].pc = work[n].after /\ TransitionOf(work[n]) /\ jobs[n] # NoJob
    BY <1>0, <1>8, WorkMoves DEF TxCommit, At, WorkOwnership
  <2>2. work[n].after # "returned"
    BY <1>5, <1>8, <2>1 DEF SInv, SkipsRecompute, TxCommit, At
  <2>3. QED
    BY <1>4, <2>1, <2>2 DEF Debtors, TransitionOf
<1>9. CASE RecomputeRead(n)
  <2>1. At(n, "locked")' /\ work'[n].next = Aggregate /\ status' = status
    BY <1>0, <1>9, WorkMoves DEF RecomputeRead, At, rowVars
  <2>2. QED
    BY <2>1 DEF Settling, Aggregate, Rows
<1>10. CASE RecomputeWrite(n) \/ Ack(n)
  <2>1. /\ status' = status /\ work[n].pc \notin Debtors /\ work'[n].pc # "locked"
        /\ \A m \in Jobs : m # n => jobs'[m] = jobs[m]
        /\ jobs[n].state # "wait"
    BY <1>0, <1>10, WorkMoves DEF RecomputeWrite, Ack, At, Debtors, WorkOwnership, rowVars
  <2>2. RecomputeOwed => RecomputeOwed'
    BY <1>1, <2>1 DEF RecomputeOwed, JobOwes, RequestOwes
  <2>3. Aggregate' = Aggregate
    BY <2>1 DEF Aggregate, Rows
  <2>4. CASE RecomputeWrite(n)
    <3>1. At(n, "locked") /\ reviewState' = work[n].next
      BY <2>4 DEF RecomputeWrite
    <3>2. \A m \in Jobs : ~At(m, "locked")'
      BY <1>1, <2>1, <3>1 DEF At, SInv, OneRecompute
    <3>3. (\E m \in Jobs : At(m, "locked") /\ work[m].next = Aggregate) => reviewState' = Aggregate
      BY <3>1 DEF SInv, OneRecompute
    <3>4. QED
      BY <1>3, <2>2, <2>3, <3>1, <3>2, <3>3 DEF Settling
  <2>5. CASE Ack(n)
    <3>1. reviewState' = reviewState /\ work[n].pc # "locked"
      BY <2>5 DEF Ack
    <3>2. \A m \in Jobs : At(m, "locked") => m # n /\ work'[m] = work[m] /\ At(m, "locked")'
      BY <1>1, <3>1 DEF At
    <3>3. \A m \in Jobs : At(m, "locked")' => At(m, "locked")
      BY <1>1, <2>1 DEF At
    <3>4. QED
      BY <1>3, <2>2, <2>3, <3>1, <3>2, <3>3 DEF Settling
  <2>6. QED
    BY <1>10, <2>4, <2>5
<1>11. QED
  BY <1>2, <1>6, <1>7, <1>8, <1>9, <1>10 DEF WorkStep

\* publishes.ts, publish-job.ts and aggregate.ts together: once nothing is
\* left to run, the generation's reviewState is the aggregate of its rows.
THEOREM GenerationSettles == Spec => []ReviewStateSettles
<1>1. Init => SInv
  <2>1. Init => PInv
    BY InitPInv
  <2>2. ASSUME Init PROVE RowsExist /\ SkipsRecompute /\ OneRecompute /\ NothingCancelled
    BY <2>2, JobPairs
    DEF Init, RowsExist, SkipsRecompute, OneRecompute, NothingCancelled, At, IdleWork, IdleClient
  <2>3. ASSUME Init PROVE Settling
    <3>1. Rows = {} /\ reviewState = "approved" /\ \A n \in Jobs : ~At(n, "locked")
      BY <2>3 DEF Init, Rows, At, IdleWork
    <3>2. QED
      BY <3>1 DEF Settling, Aggregate
  <2>4. QED
    BY <2>1, <2>2, <2>3 DEF SInv
<1>2. SInv /\ [Next]_vars => SInv'
  <2>1. ASSUME SInv, Next PROVE PInv'
    BY <2>1, NextPInv DEF SInv
  <2>2. ASSUME SInv, Next PROVE Settling'
    <3>1. SUFFICES ASSUME Calm' PROVE Settling'
      BY DEF Settling
    <3>2. Calm
      BY <2>2, <3>1, CalmBefore DEF SInv
    <3>3. outages' = 0 /\ faults' = 0 /\ ~Crash
      <4>1. crashes \in Nat
        BY <2>2, BoundsAssumption DEF SInv, PInv, TypeOK
      <4>2. QED
        BY <3>1, <4>1 DEF Calm, Undisturbed, Crash
    <3>4. QED
      BY <2>2, <3>2, <3>3, RequestSettling, WorkSettling DEF Next
  <2>3. CASE Next
    BY <2>1, <2>2, <2>3, NextRowsExist, NextSkips, NextOneRecompute, NextNothingCancelled DEF SInv
  <2>4. CASE UNCHANGED vars
    <3>1. PInv => PInv'
      BY <2>4, NextPInv
    <3>2. RowsExist /\ SkipsRecompute /\ OneRecompute /\ NothingCancelled =>
              (RowsExist /\ SkipsRecompute /\ OneRecompute /\ NothingCancelled)'
      BY <2>4 DEF vars, rowVars, bounds, RowsExist, SkipsRecompute, OneRecompute,
                  NothingCancelled, At
    <3>3. Settling => Settling'
      BY <2>4 DEF vars, rowVars, bounds, Settling, Calm, Undisturbed, RecomputeOwed, JobOwes,
                  RequestOwes, Aggregate, Rows, At
    <3>4. QED
      BY <3>1, <3>2, <3>3 DEF SInv
  <2>5. QED
    BY <2>3, <2>4
<1>3. SInv => ReviewStateSettles
  <2>1. SUFFICES ASSUME SInv, Calm, Quiet PROVE reviewState = Aggregate
    BY DEF ReviewStateSettles, Calm, Settled
  <2>2. \A n \in Jobs : jobs[n].state \in {"absent", "completed", "failed"} /\ work[n].pc = "idle"
    BY <2>1 DEF Quiet, Finished, SInv, PInv, WorkOwnership
  <2>3. ~RecomputeOwed /\ \A n \in Jobs : ~At(n, "locked")
    BY <2>1, <2>2 DEF RecomputeOwed, JobOwes, RequestOwes, Debtors, Owing, Quiet, ClientAt, At
  <2>4. QED
    BY <2>1, <2>3 DEF SInv, Settling
<1>4. QED
  BY <1>1, <1>2, <1>3, PTL DEF Spec

-----------------------------------------------------------------------------
(***************************************************************************)
(* BoundedByRequests: the books of a row.  Each delivery and each attempt  *)
(* is paid for by the POST or by a retry: an unfinished request, a waiting *)
(* job or an execution holds a claim to one more, and a step can only pass *)
(* a claim on, use it up, or take a new one on with a new request.  Near   *)
(* the limit an execution that read an old count may hold two claims.      *)
(***************************************************************************)
\* An execution, or a waiting job, that may still deliver the row.
Delivers(n) ==
    \/ jobs[n].state = "wait"
    \/ work[n].pc \in {"took", "ready", "adding"}
    \/ work[n].pc \in {"tx", "txRead"} /\ work[n].to \in {"running", "queued"}

AttemptsLeft(n) == work[n].tried + 1 < MaxAttempts

\* One that may still count an attempt, in the run it is in or in the one it
\* would queue ...
Due(n) ==
    \/ jobs[n].state = "wait"
    \/ work[n].pc \in {"took", "adding"}
    \/ work[n].pc \in {"tx", "txRead"} /\ work[n].to = "queued"
    \/ /\ work[n].pc = "ready" \/ (work[n].pc \in {"tx", "txRead"} /\ work[n].to = "running")
       /\ AttemptsLeft(n)

\* ... and one that may do both, because it read few attempts.
DueTwice(n) == work[n].pc = "took" /\ AttemptsLeft(n)

\* A request that has created or is about to requeue the row.
Asks(k, c) ==
    c \in client[k].on /\ client[k].pc \in {"created", "marked", "retrying", "retryRead", "retried"}

Delivering(c) == {i \in 1 .. MaxJobs : Delivers(<<c, i>>)}
DueJobs(c) == {i \in 1 .. MaxJobs : Due(<<c, i>>)}
DueTwiceJobs(c) == {i \in 1 .. MaxJobs : DueTwice(<<c, i>>)}
Asking(c) == {k \in Clients : Asks(k, c)}

Created(c) == IF status[c] = "none" THEN 0 ELSE 1

\* Deliveries made and deliveries still possible: one per row and per retry.
DeliveriesPaid(c) ==
    acked[c] + Cardinality(Delivering(c)) + Cardinality(Asking(c)) <= Created(c) + retries

\* Once the attempts are about to run out, those counted and those due.
AttemptsPaid(c) ==
    attempts[c] + 1 >= MaxAttempts =>
        attempts[c] + Cardinality(DueJobs(c)) + Cardinality(DueTwiceJobs(c))
                    + Cardinality(Asking(c)) + 1
            <= MaxAttempts + Created(c) + 2 * retries

Paid ==
    crashes = 0 /\ faults = 0 =>
        \A c \in Channels : IsFiniteSet(Asking(c)) /\ DeliveriesPaid(c) /\ AttemptsPaid(c)

DInv == PInv /\ Paid

-----------------------------------------------------------------------------
(* Counting. *)

\* What a step does to the size of a finite set.
LEMMA AddOne ==
    ASSUME NEW S, NEW x, IsFiniteSet(S)
    PROVE  /\ IsFiniteSet(S \cup {x}) /\ Cardinality(S \cup {x}) \in Nat
           /\ Cardinality(S \cup {x}) <= Cardinality(S) + 1
<1>1. /\ Cardinality(S) \in Nat
      /\ IsFiniteSet(S \cup {x})
      /\ Cardinality(S \cup {x}) \in {Cardinality(S), Cardinality(S) + 1}
  BY FS_CardinalityType, FS_AddElement
<1>2. QED
  BY <1>1

LEMMA TakeOne ==
    ASSUME NEW S, NEW x \in S, IsFiniteSet(S)
    PROVE  /\ IsFiniteSet(S \ {x}) /\ Cardinality(S \ {x}) \in Nat
           /\ Cardinality(S \ {x}) + 1 = Cardinality(S)
<1>1. /\ Cardinality(S) \in Nat
      /\ IsFiniteSet(S \ {x}) /\ Cardinality(S \ {x}) = Cardinality(S) - 1
  BY FS_CardinalityType, FS_RemoveElement
<1>2. Cardinality(S \ {x}) \in Nat
  BY <1>1, FS_CardinalityType
<1>3. QED
  BY <1>1, <1>2

LEMMA Fewer ==
    ASSUME NEW S, IsFiniteSet(S), NEW T \in SUBSET S
    PROVE  /\ IsFiniteSet(T) /\ Cardinality(T) \in Nat /\ Cardinality(S) \in Nat
           /\ Cardinality(T) <= Cardinality(S)
BY FS_Subset, FS_CardinalityType

LEMMA Sizes ==
    ASSUME NEW S, IsFiniteSet(S), NEW T
    PROVE  /\ Cardinality(S) \in Nat
           /\ T \subseteq S =>
                IsFiniteSet(T) /\ Cardinality(T) \in Nat /\ Cardinality(T) <= Cardinality(S)
           /\ \A x : T \subseteq S \cup {x} =>
                IsFiniteSet(T) /\ Cardinality(T) \in Nat /\ Cardinality(T) <= Cardinality(S) + 1
           /\ \A x \in S : T \subseteq S \ {x} =>
                IsFiniteSet(T) /\ Cardinality(T) \in Nat /\ Cardinality(T) + 1 <= Cardinality(S)
           /\ \A x \in S : \A y : T \subseteq (S \ {x}) \cup {y} =>
                IsFiniteSet(T) /\ Cardinality(T) \in Nat /\ Cardinality(T) <= Cardinality(S)
<1>1. Cardinality(S) \in Nat
  BY FS_CardinalityType
<1>2. T \subseteq S =>
        IsFiniteSet(T) /\ Cardinality(T) \in Nat /\ Cardinality(T) <= Cardinality(S)
  BY Fewer
<1>3. ASSUME NEW R, IsFiniteSet(R), NEW y, T \subseteq R \cup {y}
      PROVE  /\ IsFiniteSet(T) /\ Cardinality(T) \in Nat /\ Cardinality(R) \in Nat
             /\ Cardinality(T) <= Cardinality(R) + 1
  <2> DEFINE Q == R \cup {y}
  <2>1. IsFiniteSet(Q) /\ Cardinality(Q) \in Nat /\ Cardinality(Q) <= Cardinality(R) + 1
    BY <1>3, AddOne
  <2>2. T \in SUBSET Q
    BY <1>3
  <2> HIDE DEF Q
  <2>3. Cardinality(R) \in Nat
    BY <1>3, FS_CardinalityType
  <2>4. IsFiniteSet(T) /\ Cardinality(T) \in Nat /\ Cardinality(T) <= Cardinality(Q)
    BY <2>1, <2>2, Fewer
  <2>5. QED
    BY <2>1, <2>3, <2>4
<1>4. ASSUME NEW x \in S, T \subseteq S \ {x}
      PROVE  IsFiniteSet(T) /\ Cardinality(T) \in Nat /\ Cardinality(T) + 1 <= Cardinality(S)
  <2> DEFINE R == S \ {x}
  <2>1. IsFiniteSet(R) /\ Cardinality(R) \in Nat /\ Cardinality(R) + 1 = Cardinality(S)
    BY TakeOne
  <2>2. T \in SUBSET R
    BY <1>4
  <2> HIDE DEF R
  <2>3. IsFiniteSet(T) /\ Cardinality(T) \in Nat /\ Cardinality(T) <= Cardinality(R)
    BY <2>1, <2>2, Fewer
  <2>4. QED
    BY <1>1, <2>1, <2>3
<1>5. ASSUME NEW x \in S, NEW y, T \subseteq (S \ {x}) \cup {y}
      PROVE  IsFiniteSet(T) /\ Cardinality(T) \in Nat /\ Cardinality(T) <= Cardinality(S)
  <2> DEFINE R == S \ {x}
  <2>1. IsFiniteSet(R) /\ Cardinality(R) \in Nat /\ Cardinality(R) + 1 = Cardinality(S)
    BY TakeOne
  <2>2. T \subseteq R \cup {y}
    BY <1>5
  <2> HIDE DEF R
  <2>3. IsFiniteSet(T) /\ Cardinality(T) \in Nat /\ Cardinality(T) <= Cardinality(R) + 1
    BY <1>3, <2>1, <2>2
  <2>4. QED
    BY <1>1, <2>1, <2>3
<1>6. ASSUME NEW x, T \subseteq S \cup {x}
      PROVE  IsFiniteSet(T) /\ Cardinality(T) \in Nat /\ Cardinality(T) <= Cardinality(S) + 1
  BY <1>3, <1>6
<1>7. QED
  BY <1>1, <1>2, <1>4, <1>5, <1>6

\* A row's jobs are finitely many; those due deliver, and those due twice are due.
LEMMA JobSets ==
    ASSUME NEW c
    PROVE  /\ IsFiniteSet(Delivering(c)) /\ IsFiniteSet(DueJobs(c)) /\ IsFiniteSet(DueTwiceJobs(c))
           /\ DueJobs(c) \subseteq Delivering(c) /\ DueTwiceJobs(c) \subseteq Delivering(c)
<1>1. IsFiniteSet(1 .. MaxJobs)
  BY LimitsAssumption, FS_Interval
<1>2. /\ Delivering(c) \subseteq 1 .. MaxJobs /\ DueJobs(c) \subseteq 1 .. MaxJobs
      /\ DueTwiceJobs(c) \subseteq 1 .. MaxJobs
  BY DEF Delivering, DueJobs, DueTwiceJobs
<1>3. DueJobs(c) \subseteq Delivering(c) /\ DueTwiceJobs(c) \subseteq Delivering(c)
  BY DEF Delivering, DueJobs, DueTwiceJobs, Delivers, Due, DueTwice
<1>4. QED
  BY <1>1, <1>2, <1>3, FS_Subset

-----------------------------------------------------------------------------
(***************************************************************************)
(* What a step may do to the books of one row: nothing, take a request on, *)
(* turn a request into a job, count an attempt, deliver, or requeue.       *)
(***************************************************************************)
CountsKept(c) == acked'[c] = acked[c] /\ attempts'[c] = attempts[c]

NothingNew(c) ==
    /\ CountsKept(c)
    /\ Delivering(c)' \subseteq Delivering(c) /\ DueJobs(c)' \subseteq DueJobs(c)
    /\ attempts[c] + 1 >= MaxAttempts => DueTwiceJobs(c)' \subseteq DueTwiceJobs(c)
    /\ Asking(c)' \subseteq Asking(c)

TakenOn(c) ==
    /\ CountsKept(c)
    /\ Delivering(c)' \subseteq Delivering(c) /\ DueJobs(c)' \subseteq DueJobs(c)
    /\ DueTwiceJobs(c)' \subseteq DueTwiceJobs(c)
    /\ \E k : Asking(c)' \subseteq Asking(c) \cup {k}
    /\ Created(c)' = Created(c) + 1 \/ retries' = retries + 1

Enqueued(c) ==
    /\ CountsKept(c)
    /\ DueTwiceJobs(c)' \subseteq DueTwiceJobs(c)
    /\ \E k \in Asking(c) : Asking(c)' \subseteq Asking(c) \ {k}
    /\ \E i : /\ Delivering(c)' \subseteq Delivering(c) \cup {i}
              /\ DueJobs(c)' \subseteq DueJobs(c) \cup {i}

Counted(c) ==
    /\ acked'[c] = acked[c] /\ attempts'[c] = attempts[c] + 1
    /\ Asking(c)' \subseteq Asking(c) /\ Delivering(c)' \subseteq Delivering(c)
    /\ \E i \in Delivering(c) \cap DueJobs(c) :
          /\ DueTwiceJobs(c)' \subseteq DueTwiceJobs(c) \ {i}
          /\ DueJobs(c)' \subseteq DueJobs(c)
          /\ i \in DueTwiceJobs(c) \/ DueJobs(c)' \subseteq DueJobs(c) \ {i}

Delivered(c) ==
    /\ acked'[c] = acked[c] + 1 /\ attempts'[c] = attempts[c]
    /\ Asking(c)' \subseteq Asking(c) /\ DueJobs(c)' \subseteq DueJobs(c)
    /\ DueTwiceJobs(c)' \subseteq DueTwiceJobs(c)
    /\ \E i \in Delivering(c) : Delivering(c)' \subseteq Delivering(c) \ {i}

Requeued(c) ==
    /\ CountsKept(c)
    /\ Asking(c)' \subseteq Asking(c) /\ DueTwiceJobs(c)' \subseteq DueTwiceJobs(c)
    /\ \E i \in Delivering(c) \cap DueJobs(c) : \E j :
          /\ Delivering(c)' \subseteq (Delivering(c) \ {i}) \cup {j}
          /\ DueJobs(c)' \subseteq (DueJobs(c) \ {i}) \cup {j}

\* The books of a row stay balanced under each of them.
LEMMA BooksBalance ==
    ASSUME TypeOK, TypeOK', NEW c \in Channels,
           IsFiniteSet(Asking(c)), DeliveriesPaid(c), AttemptsPaid(c),
           Created(c)' >= Created(c), retries' >= retries,
           \/ NothingNew(c) \/ TakenOn(c) \/ Enqueued(c) \/ Counted(c) \/ Delivered(c)
           \/ Requeued(c)
    PROVE  IsFiniteSet(Asking(c))' /\ DeliveriesPaid(c)' /\ AttemptsPaid(c)'
<1> DEFINE l == Cardinality(Delivering(c))
           u == Cardinality(DueJobs(c))
           t == Cardinality(DueTwiceJobs(c))
           a == Cardinality(Asking(c))
           ll == Cardinality(Delivering(c)')
           uu == Cardinality(DueJobs(c)')
           tt == Cardinality(DueTwiceJobs(c)')
           aa == Cardinality(Asking(c)')
<1>0. /\ acked[c] \in Nat /\ attempts[c] \in Nat /\ retries \in Nat /\ MaxAttempts \in Nat
      /\ acked'[c] \in Nat /\ attempts'[c] \in Nat /\ retries' \in Nat
      /\ Created(c) \in {0, 1} /\ Created(c)' \in {0, 1}
  BY LimitsAssumption, BoundsAssumption DEF TypeOK, Created
<1>1. /\ IsFiniteSet(Delivering(c)) /\ IsFiniteSet(DueJobs(c)) /\ IsFiniteSet(DueTwiceJobs(c))
      /\ l \in Nat /\ u \in Nat /\ t \in Nat /\ a \in Nat
  BY JobSets, Sizes
<1>2. /\ IsFiniteSet(Delivering(c)') /\ IsFiniteSet(DueJobs(c)') /\ IsFiniteSet(DueTwiceJobs(c)')
      /\ DueJobs(c)' \subseteq Delivering(c)' /\ DueTwiceJobs(c)' \subseteq Delivering(c)'
  <2>1. IsFiniteSet(1 .. MaxJobs)
    BY LimitsAssumption, FS_Interval
  <2>2. /\ Delivering(c)' \subseteq 1 .. MaxJobs /\ DueJobs(c)' \subseteq 1 .. MaxJobs
        /\ DueTwiceJobs(c)' \subseteq 1 .. MaxJobs
    BY DEF Delivering, DueJobs, DueTwiceJobs
  <2>3. DueJobs(c)' \subseteq Delivering(c)' /\ DueTwiceJobs(c)' \subseteq Delivering(c)'
    BY DEF Delivering, DueJobs, DueTwiceJobs, Delivers, Due, DueTwice
  <2>4. QED
    BY <2>1, <2>2, <2>3, FS_Subset
<1>3. ll \in Nat /\ uu \in Nat /\ tt \in Nat /\ uu <= ll
  BY <1>2, Sizes
<1>4. acked[c] + l + a <= Created(c) + retries
  BY DEF DeliveriesPaid
<1>5. attempts[c] + 1 >= MaxAttempts =>
          attempts[c] + u + t + a + 1 <= MaxAttempts + Created(c) + 2 * retries
  BY DEF AttemptsPaid
<1>6. SUFFICES /\ IsFiniteSet(Asking(c)')
               /\ acked'[c] + ll + aa <= Created(c)' + retries'
               /\ attempts'[c] + 1 >= MaxAttempts =>
                    attempts'[c] + uu + tt + aa + 1 <= MaxAttempts + Created(c)' + 2 * retries'
  BY DEF DeliveriesPaid, AttemptsPaid
<1>7. CASE NothingNew(c)
  <2>1. /\ IsFiniteSet(Asking(c)') /\ aa \in Nat /\ aa <= a /\ ll <= l /\ uu <= u
        /\ attempts[c] + 1 >= MaxAttempts => tt <= t
    BY <1>1, <1>7, Sizes DEF NothingNew
  <2>2. acked'[c] = acked[c] /\ attempts'[c] = attempts[c]
    BY <1>7 DEF NothingNew, CountsKept
  <2> HIDE DEF l, u, t, a, ll, uu, tt, aa
  <2>3. QED
    BY <1>0, <1>1, <1>3, <1>4, <1>5, <2>1, <2>2
<1>8. CASE TakenOn(c)
  <2>1. IsFiniteSet(Asking(c)') /\ aa \in Nat /\ aa <= a + 1 /\ ll <= l /\ uu <= u /\ tt <= t
    BY <1>1, <1>8, Sizes DEF TakenOn
  <2>2. /\ acked'[c] = acked[c] /\ attempts'[c] = attempts[c]
        /\ Created(c)' = Created(c) + 1 \/ retries' = retries + 1
    BY <1>8 DEF TakenOn, CountsKept
  <2> HIDE DEF l, u, t, a, ll, uu, tt, aa
  <2>3. QED
    BY <1>0, <1>1, <1>3, <1>4, <1>5, <2>1, <2>2
<1>9. CASE Enqueued(c)
  <2>1. /\ IsFiniteSet(Asking(c)') /\ aa \in Nat /\ aa + 1 <= a /\ ll <= l + 1 /\ uu <= u + 1
        /\ tt <= t
    BY <1>1, <1>9, Sizes DEF Enqueued
  <2>2. acked'[c] = acked[c] /\ attempts'[c] = attempts[c]
    BY <1>9 DEF Enqueued, CountsKept
  <2> HIDE DEF l, u, t, a, ll, uu, tt, aa
  <2>3. QED
    BY <1>0, <1>1, <1>3, <1>4, <1>5, <2>1, <2>2
<1>10. CASE Counted(c)
  <2>1. PICK i \in Delivering(c) \cap DueJobs(c) :
          /\ DueTwiceJobs(c)' \subseteq DueTwiceJobs(c) \ {i}
          /\ DueJobs(c)' \subseteq DueJobs(c)
          /\ i \in DueTwiceJobs(c) \/ DueJobs(c)' \subseteq DueJobs(c) \ {i}
    BY <1>10 DEF Counted
  <2>2. /\ IsFiniteSet(Asking(c)') /\ aa \in Nat /\ aa <= a /\ ll <= l
    BY <1>1, <1>10, Sizes DEF Counted
  <2>3. uu <= u /\ tt <= t
    <3>1. DueTwiceJobs(c)' \subseteq DueTwiceJobs(c)
      BY <2>1
    <3>2. QED
      BY <1>1, <2>1, <3>1, Sizes
  <2>4. tt + 1 <= l
    <3>1. DueTwiceJobs(c)' \subseteq Delivering(c) \ {i}
      BY <2>1, JobSets
    <3>2. QED
      BY <1>1, <2>1, <3>1, Sizes
  <2>5. uu + tt + 1 <= u + t
    <3>1. CASE i \in DueTwiceJobs(c)
      <4>1. tt + 1 <= t
        BY <1>1, <2>1, <3>1, Sizes
      <4> HIDE DEF l, u, t, a, ll, uu, tt, aa
      <4>2. QED
        BY <1>1, <1>3, <2>3, <4>1
    <3>2. CASE DueJobs(c)' \subseteq DueJobs(c) \ {i}
      <4>1. uu + 1 <= u
        BY <1>1, <2>1, <3>2, Sizes
      <4> HIDE DEF l, u, t, a, ll, uu, tt, aa
      <4>2. QED
        BY <1>1, <1>3, <2>3, <4>1
    <3>3. QED
      BY <2>1, <3>1, <3>2
  <2>6. acked'[c] = acked[c] /\ attempts'[c] = attempts[c] + 1
    BY <1>10 DEF Counted
  <2> HIDE DEF l, u, t, a, ll, uu, tt, aa
  <2>7. acked'[c] + ll + aa <= Created(c)' + retries'
    BY <1>0, <1>1, <1>3, <1>4, <2>2, <2>6
  <2>8. CASE attempts[c] + 1 >= MaxAttempts
    BY <1>0, <1>1, <1>3, <1>5, <2>2, <2>5, <2>6, <2>7, <2>8
  <2>9. CASE attempts[c] + 2 = MaxAttempts
    <3>1. uu + tt + aa + 1 <= 2 * l + a
      BY <1>1, <1>3, <2>2, <2>4
    <3>2. 2 * l + 2 * a <= 2 * Created(c) + 2 * retries
      BY <1>0, <1>1, <1>4
    <3>3. uu + tt + aa + 1 <= 2 * Created(c) + 2 * retries
      BY <1>0, <1>1, <1>3, <2>2, <3>1, <3>2
    <3>4. attempts'[c] + 1 = MaxAttempts /\ 2 * Created(c) <= Created(c)' + 1
      BY <1>0, <2>6, <2>9
    <3>5. QED
      BY <1>0, <1>1, <1>3, <2>2, <2>7, <3>3, <3>4
  <2>10. CASE attempts'[c] + 1 < MaxAttempts
    BY <1>0, <2>2, <2>7, <2>10
  <2>11. QED
    BY <1>0, <2>6, <2>8, <2>9, <2>10
<1>11. CASE Delivered(c)
  <2>1. IsFiniteSet(Asking(c)') /\ aa \in Nat /\ aa <= a /\ ll + 1 <= l /\ uu <= u /\ tt <= t
    BY <1>1, <1>11, Sizes DEF Delivered
  <2>2. acked'[c] = acked[c] + 1 /\ attempts'[c] = attempts[c]
    BY <1>11 DEF Delivered
  <2> HIDE DEF l, u, t, a, ll, uu, tt, aa
  <2>3. QED
    BY <1>0, <1>1, <1>3, <1>4, <1>5, <2>1, <2>2
<1>12. CASE Requeued(c)
  <2>1. IsFiniteSet(Asking(c)') /\ aa \in Nat /\ aa <= a /\ tt <= t
    BY <1>1, <1>12, Sizes DEF Requeued
  <2>2. ll <= l /\ uu <= u
    <3>1. PICK i \in Delivering(c) \cap DueJobs(c) :
             \E j : /\ Delivering(c)' \subseteq (Delivering(c) \ {i}) \cup {j}
                    /\ DueJobs(c)' \subseteq (DueJobs(c) \ {i}) \cup {j}
      BY <1>12 DEF Requeued
    <3>2. PICK j : /\ Delivering(c)' \subseteq (Delivering(c) \ {i}) \cup {j}
                   /\ DueJobs(c)' \subseteq (DueJobs(c) \ {i}) \cup {j}
      BY <3>1
    <3>3. QED
      BY <1>1, <3>1, <3>2, Sizes
  <2>3. acked'[c] = acked[c] /\ attempts'[c] = attempts[c]
    BY <1>12 DEF Requeued, CountsKept
  <2> HIDE DEF l, u, t, a, ll, uu, tt, aa
  <2>4. QED
    BY <1>0, <1>1, <1>3, <1>4, <1>5, <2>1, <2>2, <2>3
<1>13. QED
  BY <1>7, <1>8, <1>9, <1>10, <1>11, <1>12

-----------------------------------------------------------------------------
(* Which step does what to the books. *)

JobKept(m) ==
    /\ Delivers(m)' => Delivers(m)
    /\ Due(m)' => Due(m)
    /\ DueTwice(m)' => DueTwice(m)

LEMMA SameJob ==
    ASSUME NEW m \in Jobs, work'[m] = work[m], jobs'[m] = jobs[m]
    PROVE  JobKept(m)
BY DEF JobKept, Delivers, Due, DueTwice, AttemptsLeft

\* The jobs of a row that a step does not touch ...
LEMMA KeptSets ==
    ASSUME NEW c \in Channels, \A m \in Jobs : m[1] = c => JobKept(m)
    PROVE  /\ Delivering(c)' \subseteq Delivering(c)
           /\ DueJobs(c)' \subseteq DueJobs(c)
           /\ DueTwiceJobs(c)' \subseteq DueTwiceJobs(c)
<1>1. \A i \in 1 .. MaxJobs : JobKept(<<c, i>>)
  BY JobPairs
<1>2. QED
  BY <1>1 DEF Delivering, DueJobs, DueTwiceJobs, JobKept

\* ... and those of a row with one job that it does.
LEMMA KeptBut ==
    ASSUME NEW n \in Jobs, \A m \in Jobs : m[1] = n[1] /\ m # n => JobKept(m)
    PROVE  /\ Delivering(n[1])' \subseteq Delivering(n[1]) \cup {n[2]}
           /\ DueJobs(n[1])' \subseteq DueJobs(n[1]) \cup {n[2]}
           /\ ~Delivers(n)' => Delivering(n[1])' \subseteq Delivering(n[1]) \ {n[2]}
           /\ ~Due(n)' => DueJobs(n[1])' \subseteq DueJobs(n[1]) \ {n[2]}
           /\ ~DueTwice(n)' => DueTwiceJobs(n[1])' \subseteq DueTwiceJobs(n[1]) \ {n[2]}
           /\ Delivers(n) => n[2] \in Delivering(n[1])
           /\ Due(n) => n[2] \in DueJobs(n[1])
           /\ DueTwice(n) => n[2] \in DueTwiceJobs(n[1])
<1>1. \A i \in 1 .. MaxJobs : i # n[2] => JobKept(<<n[1], i>>)
  BY JobPairs
<1>2. n = <<n[1], n[2]>> /\ n[2] \in 1 .. MaxJobs
  BY JobPairs
<1> DEFINE c == n[1]  i == n[2]
<1>3. n = <<c, i>> /\ i \in 1 .. MaxJobs /\ \A j \in 1 .. MaxJobs : j # i => JobKept(<<c, j>>)
  BY <1>1, <1>2
<1> HIDE DEF c, i
<1>4. /\ Delivering(c)' \subseteq Delivering(c) \cup {i}
      /\ DueJobs(c)' \subseteq DueJobs(c) \cup {i}
      /\ ~Delivers(<<c, i>>)' => Delivering(c)' \subseteq Delivering(c) \ {i}
      /\ ~Due(<<c, i>>)' => DueJobs(c)' \subseteq DueJobs(c) \ {i}
      /\ ~DueTwice(<<c, i>>)' => DueTwiceJobs(c)' \subseteq DueTwiceJobs(c) \ {i}
      /\ Delivers(<<c, i>>) => i \in Delivering(c)
      /\ Due(<<c, i>>) => i \in DueJobs(c)
      /\ DueTwice(<<c, i>>) => i \in DueTwiceJobs(c)
  BY <1>3 DEF Delivering, DueJobs, DueTwiceJobs, JobKept
<1>5. QED
  BY <1>3, <1>4 DEF c, i

\* publishQueue.add and addBulk put one new job into the books of each row.
LEMMA OneSlot ==
    ASSUME NEW C, NEW c \in Channels
    PROVE  /\ c \notin C => \A m \in Jobs : m[1] = c => WithJobsFor(C)[m] = jobs[m]
           /\ \E i : \A m \in Jobs : m[1] = c /\ m[2] # i => WithJobsFor(C)[m] = jobs[m]
<1> DEFINE slot(d) == CHOOSE i \in FreeJobs(d) : TRUE
<1>1. WithJobsFor(C) = [n \in Jobs |-> IF n[1] \in C /\ n[2] = slot(n[1])
                                       THEN AddedJob ELSE jobs[n]]
  BY DEF WithJobsFor
<1> HIDE DEF slot
<1>2. \A m \in Jobs : m[1] = c /\ m[2] # slot(c) => WithJobsFor(C)[m] = jobs[m]
  BY <1>1
<1>3. c \notin C => \A m \in Jobs : m[1] = c => WithJobsFor(C)[m] = jobs[m]
  BY <1>1
<1>4. QED
  BY <1>2, <1>3

\* publish-job.ts: without errors an execution counts an attempt, delivers or
\* requeues its own row's job, and otherwise owes no more than before.
LEMMA WorkBooks ==
    ASSUME PInv, faults = 0, NEW n \in Jobs, WorkStep(n), NEW c \in Channels
    PROVE  NothingNew(c) \/ Counted(c) \/ Delivered(c) \/ Requeued(c)
<1>0. /\ TypeOK /\ WorkOwnership /\ Accounts
      /\ jobs \in [Jobs -> Job] /\ work \in [Jobs -> Work]
      /\ attempts \in [Channels -> Nat] /\ acked \in [Channels -> Nat]
      /\ MaxAttempts \in Nat /\ n[1] \in Channels
  BY JobPairs, LimitsAssumption DEF PInv, TypeOK
<1>1. /\ client' = client
      /\ \A m \in Jobs : m # n => work'[m] = work[m]
  BY <1>0, WorkAlone
<1>2. Asking(c)' \subseteq Asking(c)
  BY <1>1 DEF Asking, Asks
<1>3. /\ work[n].pc # "idle" <=> jobs[n].state = "active"
      /\ work[n].tried \in Nat
      /\ work[n].pc \in {"tx", "txRead"} => TransitionOf(work[n])
  BY <1>0 DEF WorkOwnership, Work
<1>4. CASE AddRetry(n)
  <2>1. /\ work[n].pc = "adding" /\ work'[n].pc = "recompute" /\ CountsKept(c)
        /\ jobs' = WithJobsFor({n[1]}) /\ RoomFor({n[1]}) /\ jobs'[n] = jobs[n]
    <3>1. jobs'[n] = jobs[n]
      BY <1>0, <1>3, <1>4, Adding, FreshJobs DEF AddRetry, At
    <3>2. QED
      BY <1>0, <1>4, <3>1, WorkMoves DEF AddRetry, At, CountsKept, rowVars
  <2>2. CASE c # n[1]
    <3>1. \A m \in Jobs : m[1] = c => jobs'[m] = jobs[m]
      BY <2>1, <2>2, OneSlot
    <3>2. \A m \in Jobs : m[1] = c => JobKept(m)
      BY <1>1, <2>2, <3>1, SameJob
    <3>3. QED
      BY <1>2, <2>1, <3>2, KeptSets DEF NothingNew
  <2>3. CASE c = n[1]
    <3>0. \E j : \A m \in Jobs : m[1] = c /\ m[2] # j => WithJobsFor({n[1]})[m] = jobs[m]
      BY OneSlot
    <3>1. PICK j : \A m \in Jobs : m[1] = c /\ m[2] # j => jobs'[m] = jobs[m]
      BY <2>1, <3>0
    <3>2. \A m \in Jobs : m # n /\ DueTwice(m)' => DueTwice(m)
      BY <1>1 DEF DueTwice, AttemptsLeft
    <3>3. \A m \in Jobs : m[1] = c /\ m # n /\ m[2] # j => JobKept(m)
      BY <1>1, <3>1, SameJob
    <3>4. ~Delivers(n)' /\ ~Due(n)' /\ ~DueTwice(n)' /\ Delivers(n) /\ Due(n)
      BY <1>3, <2>1 DEF Delivers, Due, DueTwice
    <3>5. n[2] \in Delivering(c) \cap DueJobs(c)
      BY <2>3, <3>4, JobPairs DEF Delivering, DueJobs
    <3>6. \A i \in 1 .. MaxJobs : i # n[2] /\ i # j => JobKept(<<c, i>>)
      BY <3>3, JobPairs
    <3>7. \A i \in 1 .. MaxJobs : <<c, i>> \in Jobs /\ (<<c, i>> = n <=> i = n[2])
      BY <2>3, JobPairs
    <3>8. DueTwiceJobs(c)' \subseteq DueTwiceJobs(c)
      BY <3>2, <3>4, <3>7 DEF DueTwiceJobs
    <3>9. Delivering(c)' \subseteq (Delivering(c) \ {n[2]}) \cup {j}
      BY <3>4, <3>6, <3>7 DEF Delivering, JobKept
    <3>10. DueJobs(c)' \subseteq (DueJobs(c) \ {n[2]}) \cup {j}
      BY <3>4, <3>6, <3>7 DEF DueJobs, JobKept
    <3>11. QED
      BY <1>2, <2>1, <3>5, <3>8, <3>9, <3>10 DEF Requeued
  <2>4. QED
    BY <2>2, <2>3
<1>5. CASE ~AddRetry(n)
  <2>1. \A m \in Jobs : m # n => JobKept(m)
    <3>1. \A m \in Jobs : m # n => jobs'[m] = jobs[m]
      BY <1>0, <1>5
      DEF WorkStep, Take, CountAttempt, TxRead, TxCommit, CannotPublish, Accepted,
          RetryableError, FinalError, RecomputeRead, RecomputeWrite, Ack
    <3>2. QED
      BY <1>1, <3>1, SameJob
  <2>2. CASE c # n[1]
    <3>1. CountsKept(c)
      BY <1>0, <1>5, <2>2
      DEF CountsKept, WorkStep, Take, CountAttempt, TxRead, TxCommit, CannotPublish, Accepted,
          RetryableError, FinalError, RecomputeRead, RecomputeWrite, Ack, rowVars
    <3>2. QED
      BY <1>2, <2>1, <2>2, <3>1, KeptSets DEF NothingNew
  <2>3. SUFFICES ASSUME c = n[1]
                 PROVE  NothingNew(c) \/ Counted(c) \/ Delivered(c)
    BY <2>2
  <2>4. CASE JobKept(n) /\ CountsKept(c)
    BY <1>2, <2>1, <2>4, KeptSets DEF NothingNew
  <2>5. CASE Take(n)
    <3>1. CountsKept(c) /\ jobs[n].state = "wait" /\ work[n].pc = "idle"
      BY <1>3, <2>5 DEF Take, CountsKept, rowVars
    <3>2. CASE status[n[1]] = "cancelled"
      <4>1. jobs'[n] = CompletedJob(jobs[n]) /\ work' = work
        BY <1>0, <2>5, <3>2 DEF Take
      <4>2. jobs'[n].state = "completed"
        BY <1>0, <4>1, TakeAndComplete
      <4>3. QED
        BY <2>4, <3>1, <4>1, <4>2 DEF JobKept, Delivers, Due, DueTwice
    <3>3. CASE status[n[1]] # "cancelled"
      <4>1. work'[n].pc = "took" /\ work'[n].tried = attempts[c]
        BY <1>0, <2>3, <2>5, <3>3, WorkMoves
      <4>2. /\ Delivering(c)' \subseteq Delivering(c) /\ DueJobs(c)' \subseteq DueJobs(c)
        BY <2>1, <2>3, <3>1, KeptBut DEF Delivers, Due
      <4>3. attempts[c] + 1 >= MaxAttempts => ~DueTwice(n)'
        BY <1>0, <4>1 DEF DueTwice, AttemptsLeft
      <4>4. QED
        BY <1>2, <2>1, <2>3, <3>1, <4>2, <4>3, KeptBut DEF NothingNew
    <3>4. QED
      BY <3>2, <3>3
  <2>6. CASE CountAttempt(n)
    <3>1. /\ acked'[c] = acked[c] /\ attempts'[c] = attempts[c] + 1 /\ work[n].pc = "took"
          /\ jobs' = jobs /\ work'[n].pc = "tx" /\ work'[n].to = "running"
          /\ work'[n].tried = work[n].tried
      BY <1>0, <2>3, <2>6, WorkMoves DEF CountAttempt, At
    <3>2. /\ Delivers(n) /\ Due(n) /\ ~DueTwice(n)'
          /\ DueTwice(n) \/ ~Due(n)'
      BY <1>3, <3>1 DEF Delivers, Due, DueTwice, AttemptsLeft
    <3>3. /\ n[2] \in Delivering(c) \cap DueJobs(c)
          /\ DueTwiceJobs(c)' \subseteq DueTwiceJobs(c) \ {n[2]}
          /\ DueJobs(c)' \subseteq DueJobs(c) /\ Delivering(c)' \subseteq Delivering(c)
          /\ n[2] \in DueTwiceJobs(c) \/ DueJobs(c)' \subseteq DueJobs(c) \ {n[2]}
      BY <2>1, <2>3, <3>2, KeptBut
    <3>4. QED
      BY <1>2, <3>1, <3>3 DEF Counted
  <2>7. CASE Accepted(n)
    <3>1. /\ acked'[c] = acked[c] + 1 /\ attempts'[c] = attempts[c] /\ work[n].pc = "ready"
          /\ jobs' = jobs /\ work'[n].pc = "tx" /\ work'[n].to = "completed"
      BY <1>0, <2>3, <2>7, WorkMoves DEF Accepted, At
    <3>2. Delivers(n) /\ ~Delivers(n)' /\ ~Due(n)' /\ ~DueTwice(n)'
      BY <1>3, <3>1 DEF Delivers, Due, DueTwice
    <3>3. /\ n[2] \in Delivering(c) /\ Delivering(c)' \subseteq Delivering(c) \ {n[2]}
          /\ DueJobs(c)' \subseteq DueJobs(c) /\ DueTwiceJobs(c)' \subseteq DueTwiceJobs(c)
      BY <2>1, <2>3, <3>2, KeptBut
    <3>4. QED
      BY <1>2, <3>1, <3>3 DEF Delivered
  <2>8. CASE TxRead(n)
    <3>1. /\ jobs' = jobs /\ CountsKept(c) /\ work[n].pc = "tx" /\ work'[n].pc = "txRead"
          /\ work'[n].to = work[n].to /\ work'[n].tried = work[n].tried
      BY <1>0, <2>8, WorkMoves DEF TxRead, At, CountsKept, rowVars
    <3>2. QED
      BY <2>4, <3>1 DEF JobKept, Delivers, Due, DueTwice, AttemptsLeft
  <2>9. CASE TxCommit(n)
    <3>1. /\ jobs' = jobs /\ CountsKept(c) /\ work[n].pc = "txRead"
          /\ work'[n].pc = work[n].after /\ work'[n].tried = work[n].tried
      BY <1>0, <2>9, WorkMoves DEF TxCommit, At, CountsKept
    <3>2. QED
      BY <1>3, <2>4, <3>1 DEF TransitionOf, JobKept, Delivers, Due, DueTwice, AttemptsLeft
  <2>10. CASE CannotPublish(n) \/ FinalError(n) \/ RetryableError(n)
    <3>1. /\ jobs' = jobs /\ CountsKept(c) /\ work[n].pc = "ready" /\ work'[n].pc = "tx"
          /\ work'[n].to = "failed" \/ (work'[n].to = "queued" /\ AttemptsLeft(n))
      BY <1>0, <2>10, WorkMoves
      DEF CannotPublish, FinalError, RetryableError, RetryOrFail, At, CountsKept, AttemptsLeft,
          rowVars
    <3>2. QED
      BY <1>3, <2>4, <3>1 DEF JobKept, Delivers, Due, DueTwice
  <2>11. CASE RecomputeRead(n) \/ RecomputeWrite(n)
    <3>1. jobs' = jobs /\ CountsKept(c) /\ work'[n].pc \in {"locked", "returned"}
      BY <1>0, <2>11, WorkMoves DEF RecomputeRead, RecomputeWrite, CountsKept, rowVars
    <3>2. QED
      BY <2>4, <3>1 DEF JobKept, Delivers, Due, DueTwice
  <2>12. CASE Ack(n)
    <3>1. work[n].pc # "threw"
      <4>1. jobs[n].made \in Nat
        BY <1>0 DEF Job
      <4>2. QED
        BY <1>0, <4>1 DEF Accounts
    <3>2. /\ jobs'[n] = CompletedJob(jobs[n]) /\ CountsKept(c) /\ work'[n].pc = "idle"
      BY <1>0, <2>12, <3>1, WorkMoves DEF Ack, At, CountsKept, rowVars
    <3>3. jobs'[n].state = "completed"
      BY <1>0, <3>2, TakeAndComplete
    <3>4. QED
      BY <2>4, <3>2, <3>3 DEF JobKept, Delivers, Due, DueTwice
  <2>13. QED
    BY <1>5, <2>5, <2>6, <2>7, <2>8, <2>9, <2>10, <2>11, <2>12 DEF WorkStep
<1>6. QED
  BY <1>4, <1>5

\* publishes.ts: the POST and each retry take one request on, which becomes at
\* most one job of the row.
LEMMA RequestBooks ==
    ASSUME PInv, NEW k \in Clients, Request(k), NEW c \in Channels
    PROVE  NothingNew(c) \/ TakenOn(c) \/ Enqueued(c)
<1>0. /\ TypeOK /\ client \in [Clients -> Client] /\ client[k].on \in SUBSET Channels
      /\ status \in [Channels -> RowStatus]
  BY DEF PInv, TypeOK, Client
<1>1. /\ work' = work
      /\ \A j \in Clients : j # k => client'[j] = client[j]
  BY <1>0, RequestAlone
<1>2. CountsKept(c)
  BY DEF CountsKept, Request, RequestStep, PostRead, PostCreate, PostConflict, PostMark,
         PostEnqueue, PostEnqueueFails, RetryRead, CancelRead, ClientTxRead, RetryCommit,
         CancelCommit, RetryEnqueue, RetryEnqueueFails, rowVars
<1>3. /\ Asking(c)' \subseteq Asking(c) \cup {k}
      /\ (Asks(k, c)' => Asks(k, c)) => Asking(c)' \subseteq Asking(c)
      /\ ~Asks(k, c)' => Asking(c)' \subseteq Asking(c) \ {k}
      /\ Asks(k, c) => k \in Asking(c)
  BY <1>1 DEF Asking, Asks
<1>4. CASE jobs' = jobs
  <2>1. /\ Delivering(c)' \subseteq Delivering(c) /\ DueJobs(c)' \subseteq DueJobs(c)
        /\ DueTwiceJobs(c)' \subseteq DueTwiceJobs(c)
    BY <1>1, <1>4, SameJob, KeptSets
  <2>2. CASE Asks(k, c)' => Asks(k, c)
    BY <1>2, <1>3, <2>1, <2>2 DEF NothingNew
  <2>3. CASE Created(c)' = Created(c) + 1 \/ retries' = retries + 1
    BY <1>2, <1>3, <2>1, <2>3 DEF TakenOn
  <2>4. CASE PostCreate(k)
    <3>1. c \in client[k].on => Created(c) = 0 /\ Created(c)' = 1
      BY <1>0, <2>4 DEF PostCreate, Created, Rows
    <3>2. CASE c \in client[k].on
      BY <2>3, <3>1, <3>2
    <3>3. CASE c \notin client[k].on
      <4>1. client'[k].on = client[k].on
        BY <1>0, <2>4 DEF PostCreate, ClientGoes, Client
      <4>2. QED
        BY <2>2, <3>3, <4>1 DEF Asks
    <3>4. QED
      BY <3>2, <3>3
  <2>5. ASSUME NEW d \in Channels, RetryRead(k, d) PROVE retries' = retries + 1
    BY <2>5 DEF RetryRead
  <2>6. ASSUME NEW C \in (SUBSET Channels) \ {{}}, PostRead(k, C) PROVE ~Asks(k, c)'
    BY <1>0, <2>6 DEF PostRead, Asks
  <2>7. ASSUME NEW d \in Channels, CancelRead(k, d) PROVE ~Asks(k, c)'
    BY <1>0, <2>7 DEF CancelRead, Asks
  <2>8. ASSUME PostMark(k) PROVE Asks(k, c)' => Asks(k, c)
    BY <1>0, <2>8 DEF PostMark, ClientAt, ClientGoes, Asks, Client
  <2>9. ASSUME NEW d \in Channels, ClientTxRead(k, d) PROVE Asks(k, c)' => Asks(k, c)
    <3>1. /\ client'[k].on = client[k].on
          /\ client'[k].pc = IF client[k].pc = "retrying" THEN "retryRead" ELSE "cancelRead"
      BY <1>0, <2>9 DEF ClientTxRead, Client
    <3>2. QED
      BY <3>1 DEF Asks
  <2>10. ASSUME NEW d \in Channels, RetryCommit(k, d) PROVE Asks(k, c)' => Asks(k, c)
    BY <1>0, <2>10 DEF RetryCommit, ClientAt, ClientGoes, Asks, Client
  <2>11. ClientEnds(k) => ~Asks(k, c)'
    BY <1>0 DEF ClientEnds, IdleClient, Asks
  <2>12. QED
    BY <2>2, <2>3, <2>4, <2>5, <2>6, <2>7, <2>8, <2>9, <2>10, <2>11
    DEF Request, RequestStep, PostConflict, PostEnqueue, PostEnqueueFails, CancelCommit,
        RetryEnqueue, RetryEnqueueFails
<1>5. CASE PostEnqueue(k) \/ RetryEnqueue(k)
  <2>1. /\ jobs' = WithJobsFor(client[k].on) /\ ~Asks(k, c)'
        /\ client[k].pc \in {"marked", "retried"}
    BY <1>0, <1>5 DEF PostEnqueue, RetryEnqueue, ClientAt, ClientEnds, IdleClient, Asks
  <2>2. CASE c \notin client[k].on
    <3>1. \A m \in Jobs : m[1] = c => JobKept(m)
      BY <1>1, <2>1, <2>2, OneSlot, SameJob
    <3>2. QED
      BY <1>2, <1>3, <2>1, <3>1, KeptSets DEF NothingNew
  <2>3. CASE c \in client[k].on
    <3>1. k \in Asking(c) /\ Asking(c)' \subseteq Asking(c) \ {k}
      BY <1>3, <2>1, <2>3 DEF Asks
    <3>2. \E i : \A m \in Jobs : m[1] = c /\ m[2] # i => WithJobsFor(client[k].on)[m] = jobs[m]
      BY OneSlot
    <3>3. PICK j : \A m \in Jobs : m[1] = c /\ m[2] # j => jobs'[m] = jobs[m]
      BY <2>1, <3>2
    <3>4. \A i \in 1 .. MaxJobs : i # j => JobKept(<<c, i>>)
      BY <1>1, <3>3, SameJob, JobPairs
    <3>5. DueTwiceJobs(c)' \subseteq DueTwiceJobs(c)
      BY <1>1 DEF DueTwiceJobs, DueTwice, AttemptsLeft
    <3>6. Delivering(c)' \subseteq Delivering(c) \cup {j} /\ DueJobs(c)' \subseteq DueJobs(c) \cup {j}
      BY <3>4 DEF Delivering, DueJobs, JobKept
    <3>7. QED
      BY <1>2, <3>1, <3>5, <3>6 DEF Enqueued
  <2>4. QED
    BY <2>2, <2>3
<1>6. jobs' = jobs \/ PostEnqueue(k) \/ RetryEnqueue(k)
  BY DEF Request, RequestStep, PostRead, PostCreate, PostConflict, PostMark, PostEnqueueFails,
         RetryRead, CancelRead, ClientTxRead, RetryCommit, CancelCommit, RetryEnqueueFails
<1>7. QED
  BY <1>4, <1>5, <1>6

\* Every step that meets no error and no death keeps the books balanced.
LEMMA NextPaid == DInv /\ Next => Paid'
<1> SUFFICES ASSUME DInv, Next, crashes' = 0, faults' = 0, NEW c \in Channels
             PROVE  (IsFiniteSet(Asking(c)) /\ DeliveriesPaid(c) /\ AttemptsPaid(c))'
  BY DEF Paid
<1>0. /\ PInv /\ TypeOK /\ WorkOwnership /\ TypeOK'
      /\ crashes \in Nat /\ faults \in Nat /\ retries \in Nat
  BY NextType, BoundsAssumption DEF DInv, PInv, TypeOK
<1>1. ASSUME NEW k \in Clients, Request(k)
      PROVE  crashes' = crashes /\ faults' = faults /\ retries' >= retries
  <2>1. retries' \in {retries, retries + 1}
    BY <1>1
    DEF Request, RequestStep, PostRead, PostCreate, PostConflict, PostMark, PostEnqueue,
        PostEnqueueFails, RetryRead, CancelRead, ClientTxRead, RetryCommit, CancelCommit,
        RetryEnqueue, RetryEnqueueFails, bounds
  <2>2. QED
    BY <1>0, <1>1, <2>1, RequestAlone
<1>2. ~Crash /\ \A n \in Jobs : ~BookkeepingFails(n) /\ ~HandlerThrows(n)
  BY <1>0 DEF Crash, BookkeepingFails, HandlerThrows, Fault
<1>3. crashes = 0 /\ faults = 0 /\ retries' >= retries
  BY <1>0, <1>1, <1>2, WorkAlone DEF Next
<1>4. Created(c)' >= Created(c)
  BY <1>0, RowsStay DEF Created
<1>5. IsFiniteSet(Asking(c)) /\ DeliveriesPaid(c) /\ AttemptsPaid(c)
  BY <1>3 DEF DInv, Paid
<1>6. \/ NothingNew(c) \/ TakenOn(c) \/ Enqueued(c) \/ Counted(c) \/ Delivered(c)
      \/ Requeued(c)
  BY <1>0, <1>2, <1>3, RequestBooks, WorkBooks DEF Next
<1>7. QED
  BY <1>0, <1>3, <1>4, <1>5, <1>6, BooksBalance

\* publish-job.ts and publishes.ts: for any number of channels, requests,
\* workers and attempts, a row is delivered at most once for its POST and once
\* for each retry, and attempted at most MAX_ATTEMPTS_DEFAULT times and twice
\* more for each retry, although a run compares a count it read before.
THEOREM WorkIsBounded == Spec => []BoundedByRequests
<1>1. Init => DInv
  <2>1. Init => PInv
    BY InitPInv
  <2>2. ASSUME Init, NEW c \in Channels
        PROVE  IsFiniteSet(Asking(c)) /\ DeliveriesPaid(c) /\ AttemptsPaid(c)
    <3>1. /\ Asking(c) = {} /\ acked[c] = 0 /\ attempts[c] = 0 /\ retries = 0 /\ Created(c) = 0
      BY <2>2 DEF Init, Asking, Asks, IdleClient, Created
    <3>2. Delivering(c) = {} /\ DueJobs(c) = {} /\ DueTwiceJobs(c) = {}
      BY <2>2, JobPairs
      DEF Init, Delivering, DueJobs, DueTwiceJobs, Delivers, Due, DueTwice, IdleWork, NoJob
    <3>3. IsFiniteSet({}) /\ Cardinality({}) = 0 /\ MaxAttempts \in Nat
      BY FS_EmptySet, LimitsAssumption
    <3>4. QED
      BY <3>1, <3>2, <3>3, LimitsAssumption DEF DeliveriesPaid, AttemptsPaid
  <2>3. QED
    BY <2>1, <2>2 DEF DInv, Paid
<1>2. DInv /\ [Next]_vars => DInv'
  <2>1. CASE Next
    BY <2>1, NextPInv, NextPaid DEF DInv
  <2>2. CASE UNCHANGED vars
    <3>1. PInv => PInv'
      BY <2>2, NextPInv
    <3>2. Paid => Paid'
      <4>1. /\ UNCHANGED <<status, attempts, acked, jobs, work, client, retries, crashes, faults>>
        BY <2>2 DEF vars, rowVars, bounds
      <4>2. ASSUME NEW c
            PROVE  /\ Delivering(c)' = Delivering(c) /\ DueJobs(c)' = DueJobs(c)
                   /\ DueTwiceJobs(c)' = DueTwiceJobs(c) /\ Asking(c)' = Asking(c)
                   /\ Created(c)' = Created(c)
        BY <4>1
        DEF Delivering, DueJobs, DueTwiceJobs, Asking, Delivers, Due, DueTwice, AttemptsLeft,
            Asks, Created
      <4>3. QED
        BY <4>1, <4>2 DEF Paid, DeliveriesPaid, AttemptsPaid
    <3>3. QED
      BY <3>1, <3>2 DEF DInv
  <2>3. QED
    BY <2>1, <2>2
<1>3. DInv => BoundedByRequests
  <2>1. SUFFICES ASSUME DInv, crashes = 0, faults = 0, NEW c \in Channels
                 PROVE  acked[c] <= 1 + retries /\ attempts[c] <= MaxAttempts + 2 * retries
    BY DEF BoundedByRequests, OneDeliveryPerRequest, AttemptsBounded
  <2>2. /\ acked[c] \in Nat /\ attempts[c] \in Nat /\ retries \in Nat /\ MaxAttempts \in Nat
        /\ Created(c) \in {0, 1}
        /\ IsFiniteSet(Asking(c)) /\ DeliveriesPaid(c) /\ AttemptsPaid(c)
    BY <2>1, LimitsAssumption, BoundsAssumption DEF DInv, PInv, TypeOK, Paid, Created
  <2>3. /\ Cardinality(Delivering(c)) \in Nat /\ Cardinality(DueJobs(c)) \in Nat
        /\ Cardinality(DueTwiceJobs(c)) \in Nat /\ Cardinality(Asking(c)) \in Nat
    BY <2>2, JobSets, Sizes
  <2>4. QED
    BY <2>2, <2>3 DEF DeliveriesPaid, AttemptsPaid
<1>4. QED
  BY <1>1, <1>2, <1>3, PTL DEF Spec
=============================================================================
