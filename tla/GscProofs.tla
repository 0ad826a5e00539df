------------------------------ MODULE GscProofs ------------------------------
(***************************************************************************)
(* Theorems about GscSync.                                                 *)
(*                                                                         *)
(*   SyncsAreKept   the days a connection says are synced are stored and   *)
(*                  reach whoever reads them, and a connection shows       *)
(*                  "syncing" only while there is a job for it, but for    *)
(*                  one BullMQ gave up as stalled or a failure nobody      *)
(*                  could record.                                          *)
(*                                                                         *)
(* GscInv is the invariant: an execution holds an active job and its       *)
(* window is of this day or the one before (ExecInv); the days of the      *)
(* window are stored once the rows are (WindowStored), and so are those of *)
(* the last window a connection names, until they are too old (LastStored).*)
(* Requests of users and of the cron change the connection only (Visited). *)
(***************************************************************************)
EXTENDS GscSync, BullJobProofs

Statuses == {"none", "ok", "syncing", "failed", "decrypt_error"}
ConnSet == [site : Sites \cup {NoSite}, key : Secrets \cup {Unset}, last : Today \cup {0}, status : Statuses]
SyncPcs == {"idle", "reading", "no_secret", "marking", "fetching", "upserting", "pruning", "finishing", "catching"}
ExecSet == [pc : SyncPcs, day : Today \cup {0}, site : Sites \cup {NoSite},
            key : Secrets \cup {Unset}, end : DataDays \cup {0}]
LeftSet == [restarts : Nat, faults : 0 .. MaxSyncFaults, visits : Nat]

\* A connection is a site's; a site being tested is one.
SitesInv ==
    /\ conn # NoConn => conn.site \in Sites
    /\ \A r \in Panels \cup {Cron} : req[r].pc = "testing" => req[r].site \in Sites

\* An execution has its job, and its window is of this day or the one before.
ExecInv ==
    /\ exec.pc = "idle" => exec = IdleSync
    /\ exec.pc # "idle" => exec.day \in Today /\ job[exec.day].state = "active"
    /\ exec.pc \in {"marking", "fetching", "upserting", "pruning", "finishing"} => exec.site \in Sites
    /\ exec.end \in {0, today - Lag, today - Lag - 1} /\ (exec.end = 0 \/ exec.end >= Retention)
    /\ exec.pc \in {"upserting", "pruning", "finishing"} => exec.end # 0

\* The days of a window are stored once it is, until they are too old.
StoredFrom(first, last) == \A d \in Int : first <= d /\ d <= last /\ today - Retention < d => d \in DaysOf(stored)
WindowStored == exec.pc \in {"pruning", "finishing"} => StoredFrom(exec.end - Retention + 1, exec.end)
LastStored == conn.last # 0 => StoredFrom(conn.last - Retention + 1, conn.last - Lag - 1)

GscInv ==
    /\ GscTypeOK /\ left \in LeftSet
    /\ SitesInv /\ ExecInv /\ SyncingHasJob /\ WindowStored /\ LastStored

\* The calendar of the model: a window ends Lag days ago, well after the first
\* day with data.
LEMMA Days ==
    /\ Lag \in Nat /\ Lag >= 1 /\ Retention \in Nat /\ Recent \in Nat /\ Lag + 1 < Recent /\ Recent <= Retention
    /\ SyncDays \in Nat /\ SyncDays >= 1 /\ FirstDay \in Today /\ 0 \notin Today
    /\ \A t \in Today : /\ t \in Nat /\ t >= Lag + Retention
                        /\ t - Lag \in DataDays /\ t - Lag \in Nat \ {0}
                        /\ t - Lag - 1 \in Nat \ {0}
    /\ MaxSyncFaults \in Nat /\ MaxRestarts \in Nat /\ MaxVisits \in Nat /\ SyncAttempts \in Nat
    /\ NoSite \notin Sites /\ Unset = 0
BY SyncAssumption DEF FirstDay, Today, DataDays, Unset

\* What updating one field of a record changes.
LEMMA ConnUpdate ==
    ASSUME NEW c \in ConnSet, NEW s \in Statuses
    PROVE  /\ [c EXCEPT !.status = s] \in ConnSet
           /\ [c EXCEPT !.status = s].site = c.site /\ [c EXCEPT !.status = s].last = c.last
           /\ [c EXCEPT !.status = s].status = s
BY DEF ConnSet

\* What updating the place of an execution leaves.
LEMMA ExecUpdate ==
    ASSUME NEW e \in ExecSet, NEW pc \in SyncPcs
    PROVE  /\ [e EXCEPT !.pc = pc] \in ExecSet /\ [e EXCEPT !.pc = pc].pc = pc
           /\ [e EXCEPT !.pc = pc].day = e.day /\ [e EXCEPT !.pc = pc].site = e.site
           /\ [e EXCEPT !.pc = pc].key = e.key /\ [e EXCEPT !.pc = pc].end = e.end
BY DEF ExecSet

\* The empty records.
LEMMA IdleRecords ==
    /\ NoConn \in ConnSet /\ NoConn.status = "none" /\ NoConn.last = 0 /\ NoConn.site = NoSite
    /\ IdleSync \in ExecSet /\ IdleSync.pc = "idle" /\ IdleSync.end = 0 /\ IdleSync.day = 0
    /\ IdleVisit.pc = "idle" /\ [IdleVisit EXCEPT !.pc = "refetch"].pc = "refetch"
BY DEF NoConn, ConnSet, IdleSync, ExecSet, SyncPcs, Statuses, IdleVisit, Unset

ReqSet == [pc : {"idle", "refetch", "sealed", "testing", "adding"}, site : Sites \cup {NoSite}, day : Today \cup {0}]

\* The records of a request.
LEMMA Visits ==
    /\ IdleVisit \in ReqSet
    /\ \A q \in {"refetch", "sealed", "adding"} :
           [IdleVisit EXCEPT !.pc = q] \in ReqSet /\ [IdleVisit EXCEPT !.pc = q].pc = q
BY DEF IdleVisit, ReqSet

\* A fault uses up one of those the model allows.
LEMMA FaultTaken ==
    ASSUME left \in LeftSet, Fault
    PROVE  left' \in LeftSet /\ left'.faults < MaxSyncFaults
<1>1. left.faults \in Nat /\ left.faults <= MaxSyncFaults /\ left.faults > 0 /\ MaxSyncFaults \in Nat
  BY Days DEF Fault, LeftSet
<1>2. PICK n : n = left.faults - 1
  OBVIOUS
<1>3. left' = [left EXCEPT !.faults = n] /\ n \in 0 .. MaxSyncFaults /\ n < MaxSyncFaults
  BY <1>1, <1>2 DEF Fault
<1>4. QED
  BY <1>3 DEF LeftSet

\* The types of the variables, as the steps below need them.
LEMMA GscTypes ==
    GscInv => /\ today \in Today /\ today \in Nat /\ conn \in ConnSet /\ exec \in ExecSet /\ job \in [Today -> Job]
              /\ req \in [Panels \cup {Cron} -> ReqSet] /\ left \in LeftSet
              /\ shown \in [Panels -> Statuses] /\ secret \in Secrets \cup {Unset}
              /\ stored \subseteq Sites \X DataDays
BY Days DEF GscInv, GscTypeOK, ConnSet, ExecSet, ReqSet, Statuses, SyncPcs

\* Initially there is no connection, no row and no job.
LEMMA GscInvInit == GscInit => GscInv
<1> SUFFICES ASSUME GscInit PROVE GscInv
  OBVIOUS
<1>1. GscTypeOK
  BY Days, IdleRecords, Visits, FreshJobs DEF GscInit, GscTypeOK, ConnSet, ExecSet, ReqSet, Statuses, SyncPcs
<1>2. left \in LeftSet
  BY Days DEF GscInit, LeftSet
<1>3. SitesInv
  BY IdleRecords DEF GscInit, SitesInv
<1>4. ExecInv /\ WindowStored /\ LastStored /\ SyncingHasJob
  BY IdleRecords DEF GscInit, ExecInv, WindowStored, LastStored, SyncingHasJob
<1>5. QED
  BY <1>1, <1>2, <1>3, <1>4 DEF GscInv

\* Requests: the job and the rows are left alone, the connection is one of a
\* site and shows "syncing" only if it did.
Visited ==
    /\ today' = today /\ secret' = secret /\ stored' = stored /\ exec' = exec
    /\ job' \in [Today -> Job]
    /\ \A d \in Today : job[d] # NoJob => job'[d] = job[d]
    /\ conn' \in ConnSet /\ (conn' # NoConn => conn'.site \in Sites)
    /\ conn'.status = "syncing" => conn.status = "syncing"
    /\ conn'.last \in {0, conn.last}
    /\ req' \in [Panels \cup {Cron} -> ReqSet]
    /\ \A r \in Panels \cup {Cron} : req'[r].pc = "testing" => req'[r].site \in Sites
    /\ shown' \in [Panels -> Statuses]
    /\ left' \in LeftSet /\ left'.faults = left.faults

\* What a request may change leaves the invariant.
LEMMA VisitKeeps ==
    ASSUME GscInv, Visited
    PROVE  GscInv'
<1> USE DEF Visited
<1>1. GscTypeOK' /\ left' \in LeftSet /\ SitesInv'
  BY DEF GscInv, GscTypeOK, SitesInv, ConnSet, ReqSet, Statuses
<1>2. \A d \in Today : job[d].state # "absent" => job'[d] = job[d]
  BY FreshJobs
<1>3. SyncingHasJob'
  <2> SUFFICES ASSUME conn.status = "syncing"
               PROVE  \E d \in Today : \/ job'[d].state \in {"wait", "active"}
                                       \/ job'[d].stalled > MaxStalledCount
                                       \/ job'[d].state = "failed" /\ left.faults < MaxSyncFaults
    BY DEF SyncingHasJob
  <2>1. PICK d \in Today : \/ job[d].state \in {"wait", "active"}
                           \/ job[d].stalled > MaxStalledCount
                           \/ job[d].state = "failed" /\ left.faults < MaxSyncFaults
    BY DEF GscInv, SyncingHasJob
  <2>2. NoJob.stalled = 0 /\ ~(0 > MaxStalledCount)
    BY DEF NoJob, MaxStalledCount
  <2>3. job[d] # NoJob
    BY <2>1, <2>2, FreshJobs
  <2>4. QED
    BY <2>1, <2>3
<1>4. ExecInv'
  BY <1>2 DEF GscInv, ExecInv
<1>5. WindowStored' /\ LastStored'
  BY DEF GscInv, WindowStored, LastStored, StoredFrom, DaysOf
<1>6. QED
  BY <1>1, <1>3, <1>4, <1>5 DEF GscInv

\* A request that starts changes its own record only.
LEMMA StartsVisit ==
    ASSUME GscInv, NEW r \in Panels \cup {Cron}, NEW v \in ReqSet, Start(r, v), v.pc = "testing" => v.site \in Sites
    PROVE  /\ left' \in LeftSet /\ left'.faults = left.faults
           /\ req' \in [Panels \cup {Cron} -> ReqSet]
           /\ \A q \in Panels \cup {Cron} : req'[q].pc = "testing" => req'[q].site \in Sites
<1>1. left \in LeftSet /\ left.visits > 0 /\ left' = [left EXCEPT !.visits = @ - 1] /\ req' = [req EXCEPT ![r] = v]
  BY DEF Start, GscInv
<1>2. left.visits \in Nat
  BY <1>1 DEF LeftSet
<1>3. PICK n \in Nat : n = left.visits - 1
  BY <1>1, <1>2
<1>4. left' = [left EXCEPT !.visits = n]
  BY <1>1, <1>3
<1>5. left' \in LeftSet /\ left'.faults = left.faults
  BY <1>1, <1>4 DEF LeftSet
<1>6. QED
  BY <1>1, <1>5, GscTypes DEF GscInv, SitesInv

\* A request that goes on changes its own record only.
LEMMA AnswersVisit ==
    ASSUME GscInv, NEW r \in Panels \cup {Cron}, NEW v \in ReqSet, req' = [req EXCEPT ![r] = v], v.pc # "testing"
    PROVE  /\ req' \in [Panels \cup {Cron} -> ReqSet]
           /\ \A q \in Panels \cup {Cron} : req'[q].pc = "testing" => req'[q].site \in Sites
BY GscTypes DEF GscInv, SitesInv

\* gsc.ts, GET: reads the connection, and drops one it cannot decrypt to an
\* error status.
LEMMA GetReadVisits ==
    ASSUME GscInv, NEW p \in Panels, GetRead(p), left' \in LeftSet, left'.faults = left.faults
    PROVE  Visited
<1>1. today' = today /\ secret' = secret /\ conn' = conn /\ stored' = stored /\ job' = job /\ exec' = exec
  BY DEF GetRead
<1>2. PICK v \in ReqSet : req' = [req EXCEPT ![p] = v] /\ v.pc # "testing"
  BY Visits, IdleRecords DEF GetRead, Reply
<1>3. shown' \in [Panels -> Statuses]
  BY GscTypes DEF GetRead, ConnSet
<1>4. QED
  BY <1>1, <1>2, <1>3, AnswersVisit, GscTypes DEF Visited, GscInv, SitesInv

\* GscPanel.tsx and gsc.ts: what a user asks for.
LEMMA AskVisits ==
    ASSUME GscInv, NEW p \in Panels, Ask(p)
    PROVE  Visited
<1>0. /\ left \in LeftSet /\ conn \in ConnSet /\ job \in [Today -> Job] /\ shown \in [Panels -> Statuses]
      /\ (conn # NoConn => conn.site \in Sites) /\ req \in [Panels \cup {Cron} -> ReqSet]
      /\ today \in Today
  BY GscTypes DEF GscInv, SitesInv
<1>1. CASE PanelOpens(p)
  <2>1. left.visits > 0 /\ left' = [left EXCEPT !.visits = @ - 1] /\ GetRead(p)
    BY <1>1 DEF PanelOpens
  <2>2. left.visits \in Nat
    BY <1>0 DEF LeftSet
  <2>3. PICK n \in Nat : n = left.visits - 1
    BY <2>1, <2>2
  <2>4. left' = [left EXCEPT !.visits = n]
    BY <2>1, <2>3
  <2>5. left' \in LeftSet /\ left'.faults = left.faults
    BY <1>0, <2>4 DEF LeftSet
  <2>6. QED
    BY <2>1, <2>5, GetReadVisits
<1>2. CASE PanelRefetches(p) \/ PanelPolls(p)
  BY <1>0, <1>2, GetReadVisits DEF PanelRefetches, PanelPolls
<1>3. CASE MarkSealed(p)
  <2>1. /\ today' = today /\ secret' = secret /\ stored' = stored /\ job' = job /\ exec' = exec /\ left' = left
        /\ req' = [req EXCEPT ![p] = IdleVisit]
    BY <1>3 DEF MarkSealed, Reply
  <2>2. \/ conn # NoConn /\ conn' = [conn EXCEPT !.status = "decrypt_error"] /\ shown' = [shown EXCEPT ![p] = "decrypt_error"]
        \/ conn' = conn /\ shown' = shown
    BY <1>3 DEF MarkSealed, Connected
  <2>3. /\ conn' \in ConnSet /\ (conn' # NoConn => conn'.site \in Sites)
        /\ (conn'.status = "syncing" => conn.status = "syncing") /\ conn'.last = conn.last
        /\ shown' \in [Panels -> Statuses]
    <3>1. CASE conn # NoConn /\ conn' = [conn EXCEPT !.status = "decrypt_error"] /\ shown' = [shown EXCEPT ![p] = "decrypt_error"]
      <4>1. "decrypt_error" \in Statuses
        BY DEF Statuses
      <4>2. conn' \in ConnSet /\ conn'.site = conn.site /\ conn'.last = conn.last /\ conn'.status = "decrypt_error"
        BY <1>0, <3>1, <4>1, ConnUpdate
      <4>3. QED
        BY <1>0, <3>1, <4>1, <4>2
    <3>2. CASE conn' = conn /\ shown' = shown
      BY <1>0, <3>2
    <3>3. QED
      BY <2>2, <3>1, <3>2
  <2>4. QED
    BY <1>0, <2>1, <2>3, AnswersVisit, Visits, IdleRecords DEF Visited
<1>4. CASE PutTests(p)
  <2>1. PICK s \in Sites : Start(p, [pc |-> "testing", site |-> s, day |-> 0])
    BY <1>4 DEF PutTests
  <2>2. [pc |-> "testing", site |-> s, day |-> 0] \in ReqSet
    BY DEF ReqSet
  <2>3. today' = today /\ secret' = secret /\ conn' = conn /\ stored' = stored /\ job' = job /\ exec' = exec /\ shown' = shown
    BY <1>4 DEF PutTests
  <2>4. QED
    BY <1>0, <2>1, <2>2, <2>3, StartsVisit DEF Visited
<1>5. CASE PutEnds(p)
  <2>1. /\ today' = today /\ secret' = secret /\ stored' = stored /\ job' = job /\ exec' = exec /\ left' = left
        /\ shown' = shown /\ req[p].pc = "testing"
    BY <1>5 DEF PutEnds
  <2>2. \/ Reply(p) /\ conn' = conn
        \/ conn' = [site |-> req[p].site, key |-> secret, status |-> "ok", last |-> conn.last] /\ Refetch(p)
    BY <1>5 DEF PutEnds
  <2>3. PICK v \in ReqSet : req' = [req EXCEPT ![p] = v] /\ v.pc # "testing"
    BY <2>2, Visits, IdleRecords DEF Reply, Refetch
  <2>4. req[p].site \in Sites /\ secret \in Secrets \cup {Unset}
    BY <2>1, GscTypes DEF GscInv, SitesInv
  <2>5. /\ conn' \in ConnSet /\ (conn' # NoConn => conn'.site \in Sites)
        /\ (conn'.status = "syncing" => conn.status = "syncing") /\ conn'.last = conn.last
    BY <1>0, <2>2, <2>4 DEF ConnSet, Statuses
  <2>6. QED
    BY <1>0, <2>1, <2>3, <2>5, AnswersVisit DEF Visited
<1>6. CASE Delete(p)
  <2>1. /\ today' = today /\ secret' = secret /\ stored' = stored /\ job' = job /\ exec' = exec /\ shown' = shown
        /\ conn' = NoConn /\ Start(p, [IdleVisit EXCEPT !.pc = "refetch"])
    BY <1>6 DEF Delete
  <2>2. QED
    BY <1>0, <2>1, StartsVisit, Visits, IdleRecords DEF Visited
<1>7. CASE PostSyncReads(p)
  <2>1. /\ today' = today /\ secret' = secret /\ stored' = stored /\ job' = job /\ exec' = exec /\ shown' = shown
        /\ conn' = conn /\ Start(p, [IdleVisit EXCEPT !.pc = "adding"])
    BY <1>7 DEF PostSyncReads
  <2>2. QED
    BY <1>0, <2>1, StartsVisit, Visits DEF Visited
<1>8. QED
  BY <1>1, <1>2, <1>3, <1>4, <1>5, <1>6, <1>7 DEF Ask

\* gsc-cron.ts: the cron reads the connection and adds a job or nothing.
LEMMA CronReadsVisits ==
    ASSUME GscInv, CronReads
    PROVE  Visited
<1>1. /\ today' = today /\ secret' = secret /\ stored' = stored /\ job' = job /\ exec' = exec /\ shown' = shown
      /\ conn' = conn /\ Start(Cron, [pc |-> "adding", site |-> NoSite, day |-> today])
  BY DEF CronReads
<1>2. [pc |-> "adding", site |-> NoSite, day |-> today] \in ReqSet
  BY GscTypes DEF ReqSet
<1>3. QED
  BY <1>1, <1>2, StartsVisit, GscTypes DEF Visited, GscInv, SitesInv

\* gsc-sync-queue.ts: one job a day; an add of one that exists adds nothing.
LEMMA AddJobVisits ==
    ASSUME GscInv, NEW r \in Panels \cup {Cron}, AddJob(r)
    PROVE  Visited
<1>1. /\ today' = today /\ secret' = secret /\ conn' = conn /\ stored' = stored /\ exec' = exec /\ shown' = shown /\ left' = left
  BY DEF AddJob
<1>2. PICK v \in ReqSet : req' = [req EXCEPT ![r] = v] /\ v.pc # "testing"
  BY Visits, IdleRecords DEF AddJob, Reply, Refetch
<1>3. PICK d : job' = [job EXCEPT ![d] = IF @ = NoJob THEN AddedJob ELSE @]
  BY DEF AddJob
<1>4. job \in [Today -> Job]
  BY GscTypes
<1>5. job' \in [Today -> Job] /\ \A e \in Today : job[e] # NoJob => job'[e] = job[e]
  BY <1>3, <1>4, FreshJobs
<1>6. QED
  BY <1>1, <1>2, <1>5, AnswersVisit, GscTypes DEF Visited, GscInv, SitesInv

\* A step of the execution that touches its own place, its job and the bounds.
Frame == today' = today /\ secret' = secret /\ req' = req /\ shown' = shown

\* SyncingHasJob goes from one state to the next if each job that explains a
\* sync still does, and the connection was syncing already.
LEMMA JobStillThere ==
    ASSUME GscInv, conn'.status = "syncing" => conn.status = "syncing",
           left'.faults \in Nat, left'.faults <= left.faults,
           \A d \in Today : \/ job'[d] = job[d]
                            \/ job'[d].state \in {"wait", "active"}
                            \/ job'[d].state = "failed" /\ left'.faults < MaxSyncFaults
                            \/ job'[d].stalled > MaxStalledCount
    PROVE  SyncingHasJob'
<1> SUFFICES ASSUME conn.status = "syncing"
             PROVE  \E d \in Today : \/ job'[d].state \in {"wait", "active"}
                                     \/ job'[d].stalled > MaxStalledCount
                                     \/ job'[d].state = "failed" /\ left'.faults < MaxSyncFaults
  BY DEF SyncingHasJob
<1>1. PICK d \in Today : \/ job[d].state \in {"wait", "active"}
                         \/ job[d].stalled > MaxStalledCount
                         \/ job[d].state = "failed" /\ left.faults < MaxSyncFaults
  BY DEF GscInv, SyncingHasJob
<1>2. left.faults < MaxSyncFaults => left'.faults < MaxSyncFaults
  <2>1. left.faults \in Nat /\ MaxSyncFaults \in Nat
    BY Days DEF GscInv, LeftSet
  <2>2. QED
    BY <2>1
<1>3. QED
  BY <1>1, <1>2

\* An execution holds an active job.
LEMMA ExecMeans ==
    ASSUME GscInv, exec.pc # "idle"
    PROVE  /\ exec.day \in Today /\ job[exec.day] \in Job /\ job[exec.day].state = "active"
           /\ job \in [Today -> Job] /\ exec.day \in DOMAIN job
BY GscTypes DEF GscInv, ExecInv

\* A throw with a connection that does not show "syncing", or by a fault.
LEMMA ThrowKeeps ==
    ASSUME GscInv, exec.pc # "idle", Throw(exec.day), Frame, stored' \subseteq Sites \X DataDays,
           \A d \in Int : d \in DaysOf(stored) => d \in DaysOf(stored'),
           conn' \in ConnSet, conn' # NoConn => conn'.site \in Sites, conn'.last = conn.last,
           left' \in LeftSet, left'.faults <= left.faults,
           conn'.status = "syncing" => conn.status = "syncing" /\ left'.faults < MaxSyncFaults
    PROVE  GscInv'
<1>1. PICK j \in Job : /\ job' = [job EXCEPT ![exec.day] = j] /\ j.state \in {"wait", "failed"}
  <2>1. ThrownJob(job[exec.day], SyncAttempts) \in Job /\ ThrownJob(job[exec.day], SyncAttempts).state \in {"wait", "failed"}
    BY ExecMeans, Thrown, Days
  <2>2. job' = [job EXCEPT ![exec.day] = ThrownJob(job[exec.day], SyncAttempts)]
    BY DEF Throw
  <2>3. QED
    BY <2>1, <2>2
<1>2. exec' = IdleSync /\ job' \in [Today -> Job]
  BY <1>1, ExecMeans DEF Throw
<1>3. GscTypeOK' /\ left' \in LeftSet /\ SitesInv'
  BY <1>2, IdleRecords DEF Frame, GscInv, GscTypeOK, SitesInv, ConnSet, ExecSet, SyncPcs, Statuses
<1>4. ExecInv' /\ WindowStored'
  BY <1>2, IdleRecords DEF ExecInv, WindowStored
<1>5. LastStored'
  BY DEF Frame, GscInv, LastStored, StoredFrom
<1>6. SyncingHasJob'
  <2>1. CASE conn'.status = "syncing"
    <3>1. left'.faults \in Nat
      BY DEF LeftSet
    <3>2. \A d \in Today : job'[d] = job[d] \/ job'[d].state \in {"wait", "failed"}
      BY <1>1, ExecMeans
    <3>3. QED
      BY <2>1, <3>1, <3>2, JobStillThere
  <2>2. CASE conn'.status # "syncing"
    BY <2>2 DEF SyncingHasJob
  <2>3. QED
    BY <2>1, <2>2
<1>7. QED
  BY <1>3, <1>4, <1>5, <1>6 DEF GscInv

\* A completed job leaves a connection that is not syncing.
LEMMA CompleteKeeps ==
    ASSUME GscInv, exec.pc # "idle", Frame, exec' = IdleSync, job' = [job EXCEPT ![exec.day] = CompletedJob(@)],
           stored' = stored, left' = left,
           conn' \in ConnSet, conn' # NoConn => conn'.site \in Sites, conn'.status # "syncing", LastStored'
    PROVE  GscInv'
<1>1. PICK j \in Job : job' = [job EXCEPT ![exec.day] = j]
  BY ExecMeans, TakeAndComplete
<1>2. job' \in [Today -> Job]
  BY <1>1, ExecMeans
<1>3. GscTypeOK' /\ left' \in LeftSet /\ SitesInv'
  BY <1>2, IdleRecords DEF Frame, GscInv, GscTypeOK, SitesInv, ConnSet, ExecSet, SyncPcs, Statuses
<1>4. ExecInv' /\ WindowStored' /\ SyncingHasJob'
  BY IdleRecords DEF ExecInv, WindowStored, SyncingHasJob
<1>5. QED
  BY <1>3, <1>4 DEF GscInv

\* A step to another place of the same execution.
LEMMA StepKeeps ==
    ASSUME GscInv, exec.pc # "idle", Frame, job' = job, exec' \in ExecSet, exec'.pc # "idle", exec'.day = exec.day,
           exec'.pc \in {"marking", "fetching", "upserting", "pruning", "finishing"} => exec'.site \in Sites,
           exec'.end \in {0, today - Lag, today - Lag - 1}, exec'.end = 0 \/ exec'.end >= Retention,
           exec'.pc \in {"upserting", "pruning", "finishing"} => exec'.end # 0,
           stored' \subseteq Sites \X DataDays, WindowStored',
           \A d \in Int : today - Retention < d /\ d \in DaysOf(stored) => d \in DaysOf(stored'),
           conn' \in ConnSet, conn' # NoConn => conn'.site \in Sites, conn'.last = conn.last,
           left' \in LeftSet, left'.faults <= left.faults
    PROVE  GscInv'
<1>1. GscTypeOK' /\ SitesInv'
  BY DEF Frame, GscInv, GscTypeOK, SitesInv, ConnSet, ExecSet, SyncPcs, Statuses
<1>2. ExecInv'
  BY DEF Frame, GscInv, ExecInv
<1>3. LastStored'
  BY DEF Frame, GscInv, LastStored, StoredFrom
<1>4. SyncingHasJob'
  BY ExecMeans DEF SyncingHasJob
<1>5. QED
  BY <1>1, <1>2, <1>3, <1>4 DEF GscInv

\* BullMQ gives a waiting job to the worker.
LEMMA TakeKeeps ==
    ASSUME GscInv, NEW d \in Today, Take(d)
    PROVE  GscInv'
<1>1. /\ exec = IdleSync /\ job[d].state = "wait" /\ job' = [job EXCEPT ![d] = TakenJob(@)]
      /\ exec' = [IdleSync EXCEPT !.pc = "reading", !.day = d]
      /\ conn' = conn /\ stored' = stored /\ left' = left /\ Frame
  BY DEF Take, Frame
<1>2. job \in [Today -> Job] /\ left \in LeftSet /\ conn \in ConnSet
  BY GscTypes
<1>3. PICK j \in Job : job' = [job EXCEPT ![d] = j] /\ j.state = "active"
  BY <1>1, <1>2, TakeAndComplete
<1>4. job' \in [Today -> Job] /\ job'[d].state = "active" /\ \A e \in Today : e # d => job'[e] = job[e]
  BY <1>2, <1>3
<1>5. exec' \in ExecSet /\ exec'.pc = "reading" /\ exec'.day = d /\ exec'.end = 0
  BY <1>1 DEF IdleSync, ExecSet, SyncPcs, Unset
<1>6. GscTypeOK' /\ left' \in LeftSet /\ SitesInv'
  BY <1>1, <1>4, <1>5 DEF Frame, GscInv, GscTypeOK, SitesInv, ExecSet, SyncPcs
<1>7. ExecInv' /\ WindowStored'
  BY <1>4, <1>5 DEF ExecInv, WindowStored
<1>8. LastStored'
  BY <1>1 DEF Frame, GscInv, LastStored, StoredFrom, DaysOf
<1>9. SyncingHasJob'
  <2>1. left'.faults \in Nat /\ left'.faults <= left.faults
    BY <1>1, <1>2 DEF LeftSet
  <2>2. QED
    BY <1>1, <1>4, <2>1, JobStillThere
<1>10. QED
  BY <1>6, <1>7, <1>8, <1>9 DEF GscInv

\* A step takes one fault at most.
LEMMA SameLeft ==
    ASSUME GscInv, left' = left \/ Fault
    PROVE  /\ left' \in LeftSet /\ left'.faults <= left.faults
           /\ Fault => left'.faults < MaxSyncFaults
<1>1. left \in LeftSet /\ left.faults \in Nat
  BY GscTypes DEF LeftSet
<1>2. CASE left' = left /\ ~Fault
  BY <1>1, <1>2
<1>3. CASE Fault
  <2>1. left' = [left EXCEPT !.faults = left.faults - 1]
    BY <1>3 DEF Fault
  <2>2. left'.faults = left.faults - 1
    BY <1>1, <2>1 DEF LeftSet
  <2>3. QED
    BY <1>1, <1>3, <2>2, FaultTaken
<1>4. QED
  BY <1>2, <1>3

\* gsc-sync-job.ts: the connection is read and its secret opened.
LEMMA ReadConnKeeps ==
    ASSUME GscInv, ReadConn
    PROVE  GscInv'
<1>1. exec.pc = "reading" /\ conn' = conn /\ stored' = stored /\ left' = left /\ Frame
  BY DEF ReadConn, Frame
<1>2. left \in LeftSet /\ conn \in ConnSet /\ exec \in ExecSet /\ stored \subseteq Sites \X DataDays /\ left.faults \in Nat
  BY GscTypes DEF LeftSet
<1>3. CASE Connected
  <2>1. PICK q \in {"no_secret", "marking"} : exec' = [exec EXCEPT !.pc = q, !.site = conn.site, !.key = conn.key]
    BY <1>3 DEF ReadConn
  <2>2. conn.site \in Sites /\ conn.key \in Secrets \cup {Unset}
    BY <1>2, <1>3 DEF Connected, GscInv, SitesInv, ConnSet
  <2>3. /\ exec' = [pc |-> q, day |-> exec.day, site |-> conn.site, key |-> conn.key, end |-> exec.end]
    BY <1>2, <2>1 DEF ExecSet
  <2>4. exec' \in ExecSet /\ exec'.pc = q /\ exec'.site = conn.site /\ exec'.day = exec.day /\ exec'.end = exec.end
    BY <1>2, <2>2, <2>3 DEF ExecSet, SyncPcs
  <2>5. job' = job
    BY <1>3 DEF ReadConn
  <2>6. exec'.end \in {0, today - Lag, today - Lag - 1} /\ (exec'.end = 0 \/ exec'.end >= Retention) /\ WindowStored'
    BY <2>4 DEF GscInv, ExecInv, WindowStored
  <2>7. QED
    BY <1>1, <1>2, <2>2, <2>4, <2>5, <2>6, StepKeeps DEF GscInv, SitesInv
<1>4. CASE ~Connected
  <2>1. exec' = IdleSync /\ job' = [job EXCEPT ![exec.day] = CompletedJob(@)]
    BY <1>4 DEF ReadConn
  <2>2. conn'.status # "syncing" /\ conn' = NoConn
    BY <1>1, <1>4, IdleRecords DEF Connected
  <2>3. LastStored'
    BY <2>2, IdleRecords DEF LastStored
  <2>4. QED
    BY <1>1, <1>2, <2>1, <2>2, <2>3, CompleteKeeps
<1>5. QED
  BY <1>3, <1>4

\* gsc-sync-job.ts: the connection shows "syncing" while an execution holds its
\* job.
LEMMA MarkSyncingKeeps ==
    ASSUME GscInv, MarkSyncing
    PROVE  GscInv'
<1>1. exec.pc = "marking" /\ stored' = stored /\ Frame
  BY DEF MarkSyncing, Frame
<1>2. left \in LeftSet /\ conn \in ConnSet /\ exec \in ExecSet /\ stored \subseteq Sites \X DataDays /\ left.faults \in Nat
  BY GscTypes DEF LeftSet
<1>3. CASE Connected /\ conn' = [conn EXCEPT !.status = "syncing"] /\ ExecAt("fetching") /\ UNCHANGED <<job, left>>
  <2>1. conn' \in ConnSet /\ conn'.site = conn.site /\ conn'.last = conn.last /\ conn.site \in Sites
    BY <1>2, <1>3, ConnUpdate DEF Statuses, Connected, GscInv, SitesInv
  <2>2. exec' = [exec EXCEPT !.pc = "fetching"] /\ "fetching" \in SyncPcs
    BY <1>3 DEF ExecAt, SyncPcs
  <2>3. exec' \in ExecSet /\ exec'.pc = "fetching" /\ exec'.day = exec.day /\ exec'.site = exec.site /\ exec'.end = exec.end
    BY <1>2, <2>2, ExecUpdate
  <2>4. WindowStored' /\ exec'.end \in {0, today - Lag, today - Lag - 1} /\ (exec'.end = 0 \/ exec'.end >= Retention) /\ exec.site \in Sites
    BY <1>1, <2>3 DEF WindowStored, GscInv, ExecInv
  <2>5. QED
    BY <1>1, <1>2, <1>3, <2>1, <2>3, <2>4, StepKeeps
<1>4. CASE ~Connected /\ Throw(exec.day) /\ UNCHANGED <<conn, left>>
  <2>1. conn'.status # "syncing"
    BY <1>4, IdleRecords DEF Connected
  <2>2. QED
    BY <1>1, <1>2, <1>4, <2>1, ThrowKeeps DEF GscInv, SitesInv
<1>5. CASE Fault /\ Throw(exec.day) /\ UNCHANGED conn
  BY <1>1, <1>2, <1>5, SameLeft, ThrowKeeps DEF GscInv, SitesInv
<1>6. QED
  BY <1>3, <1>4, <1>5 DEF MarkSyncing

\* What a step to "catching" has to show: no more than that rows not too old stay.
LEMMA CatchingKeeps ==
    ASSUME GscInv, exec.pc # "idle", Frame, job' = job, ExecAt("catching"), conn' = conn,
           stored' \subseteq Sites \X DataDays,
           \A d \in Int : d \in DaysOf(stored) => d \in DaysOf(stored'),
           left' = left \/ Fault
    PROVE  GscInv'
<1>1. conn \in ConnSet /\ exec \in ExecSet /\ (conn # NoConn => conn.site \in Sites)
  BY GscTypes DEF GscInv, SitesInv
<1>2. exec' = [exec EXCEPT !.pc = "catching"] /\ "catching" \in SyncPcs
  BY DEF ExecAt, SyncPcs
<1>3. exec' \in ExecSet /\ exec'.pc = "catching" /\ exec'.day = exec.day /\ exec'.end = exec.end
  BY <1>1, <1>2, ExecUpdate
<1>4. WindowStored' /\ exec'.end \in {0, today - Lag, today - Lag - 1} /\ (exec'.end = 0 \/ exec'.end >= Retention)
  BY <1>3 DEF WindowStored, GscInv, ExecInv
<1>5. QED
  BY <1>1, <1>3, <1>4, SameLeft, StepKeeps

\* gsc-sync-job.ts: the window is fetched, or the execution fails.
LEMMA FetchKeeps ==
    ASSUME GscInv, Fetch
    PROVE  GscInv'
<1>1. exec.pc = "fetching" /\ conn' = conn /\ stored' = stored /\ job' = job /\ Frame
  BY DEF Fetch, Frame
<1>2. /\ left \in LeftSet /\ conn \in ConnSet /\ exec \in ExecSet /\ stored \subseteq Sites \X DataDays
      /\ left.faults \in Nat /\ today \in Today
  BY GscTypes DEF LeftSet
<1>3. CASE exec' = [exec EXCEPT !.pc = "upserting", !.end = today - Lag] /\ left' = left
  <2>1. exec' = [pc |-> "upserting", day |-> exec.day, site |-> exec.site, key |-> exec.key, end |-> today - Lag]
    BY <1>2, <1>3 DEF ExecSet
  <2>2. today - Lag \in DataDays /\ today - Lag # 0 /\ today - Lag >= Retention
    BY <1>2, Days
  <2>3. exec' \in ExecSet /\ exec'.pc = "upserting" /\ exec'.day = exec.day /\ exec'.site = exec.site /\ exec'.end = today - Lag
    BY <1>2, <2>1, <2>2 DEF ExecSet, SyncPcs
  <2>4. WindowStored' /\ exec.site \in Sites
    BY <1>1, <2>3 DEF WindowStored, GscInv, ExecInv
  <2>5. QED
    BY <1>1, <1>2, <1>3, <2>2, <2>3, <2>4, StepKeeps DEF GscInv, SitesInv
<1>4. CASE ExecAt("catching") /\ (left' = left \/ Fault)
  BY <1>1, <1>2, <1>4, CatchingKeeps
<1>5. QED
  BY <1>3, <1>4 DEF Fetch

\* A row stores its day.
LEMMA DayIsStored ==
    ASSUME NEW s, NEW d, NEW rows, <<s, d>> \in rows
    PROVE  d \in DaysOf(rows)
BY DEF DaysOf

\* gsc-sync-job.ts: the rows of the window are stored.
LEMMA UpsertKeeps ==
    ASSUME GscInv, Upsert
    PROVE  GscInv'
<1>1. exec.pc = "upserting" /\ conn' = conn /\ job' = job /\ Frame
  BY DEF Upsert, Frame
<1>2. /\ left \in LeftSet /\ conn \in ConnSet /\ exec \in ExecSet /\ stored \subseteq Sites \X DataDays
      /\ left.faults \in Nat /\ today \in Today /\ today \in Nat
  BY GscTypes DEF LeftSet
<1>3. exec.site \in Sites /\ exec.end \in {today - Lag, today - Lag - 1} /\ exec.end \in Nat /\ exec.end # 0 /\ exec.end >= Retention
  BY <1>1, <1>2, Days DEF GscInv, ExecInv
<1>a. exec.end \in DataDays /\ \A d \in exec.end - Retention + 1 .. exec.end : d \in DataDays
  <2>1. today <= FirstDay + SyncDays - 1 /\ FirstDay \in Nat
    BY <1>2, Days DEF Today, FirstDay
  <2>2. QED
    BY <1>2, <1>3, <2>1, Days DEF DataDays
<1>4. Fetched \subseteq Sites \X DataDays
  BY <1>3, <1>a DEF Fetched
<1>5. CASE stored' = stored \cup Fetched /\ ExecAt("pruning") /\ UNCHANGED left
  <2>1. exec' = [exec EXCEPT !.pc = "pruning"] /\ "pruning" \in SyncPcs
    BY <1>5 DEF ExecAt, SyncPcs
  <2>2. exec' \in ExecSet /\ exec'.pc = "pruning" /\ exec'.day = exec.day /\ exec'.site = exec.site /\ exec'.end = exec.end
    BY <1>2, <2>1, ExecUpdate
  <2>3. \A d \in Int : d \in DaysOf(stored) => d \in DaysOf(stored')
    BY <1>5 DEF DaysOf
  <2>4. WindowStored'
    <3>1. ASSUME NEW d \in Int, exec.end - Retention + 1 <= d, d <= exec.end PROVE d \in DaysOf(stored')
      <4>1. d \in exec.end - Retention + 1 .. exec.end
        BY <1>3, <3>1, Days
      <4>2. <<exec.site, d>> \in stored'
        BY <1>5, <4>1 DEF Fetched
      <4>3. QED
        BY <4>2, DayIsStored
    <3>2. QED
      BY <2>2, <3>1 DEF WindowStored, StoredFrom
  <2>5. stored' \subseteq Sites \X DataDays /\ left' = left /\ left'.faults <= left.faults /\ conn'.last = conn.last
    BY <1>1, <1>2, <1>4, <1>5
  <2>6. exec'.end \in {0, today - Lag, today - Lag - 1} /\ exec'.end >= Retention /\ exec'.end # 0 /\ exec'.site \in Sites
    BY <1>3, <2>2
  <2>7. conn' \in ConnSet /\ (conn' # NoConn => conn'.site \in Sites)
    BY <1>1, <1>2 DEF GscInv, SitesInv
  <2>8. QED
    BY <1>1, <1>2, <2>2, <2>3, <2>4, <2>5, <2>6, <2>7, StepKeeps
<1>6. CASE Fault /\ ExecAt("catching") /\ \E some \in {{}, {<<exec.site, exec.end>>}} : stored' = stored \cup some
  <2>2. stored' \subseteq Sites \X DataDays
    BY <1>2, <1>3, <1>6, <1>a
  <2>3. \A d \in Int : d \in DaysOf(stored) => d \in DaysOf(stored')
    BY <1>6 DEF DaysOf
  <2>4. QED
    BY <1>1, <1>6, <2>2, <2>3, CatchingKeeps
<1>7. QED
  BY <1>5, <1>6 DEF Upsert

\* gsc-sync-job.ts: rows older than the retention go, none of the window does.
LEMMA PruneKeeps ==
    ASSUME GscInv, Prune
    PROVE  GscInv'
<1>1. exec.pc = "pruning" /\ conn' = conn /\ job' = job /\ Frame
  BY DEF Prune, Frame
<1>2. /\ left \in LeftSet /\ conn \in ConnSet /\ exec \in ExecSet /\ stored \subseteq Sites \X DataDays
      /\ left.faults \in Nat /\ today \in Today
  BY GscTypes DEF LeftSet
<1>3. CASE stored' = {row \in stored : row[2] > today - Retention} /\ ExecAt("finishing") /\ UNCHANGED left
  <2>1. exec' = [exec EXCEPT !.pc = "finishing"] /\ "finishing" \in SyncPcs
    BY <1>3 DEF ExecAt, SyncPcs
  <2>2. exec' \in ExecSet /\ exec'.pc = "finishing" /\ exec'.day = exec.day /\ exec'.site = exec.site /\ exec'.end = exec.end
    BY <1>2, <2>1, ExecUpdate
  <2>3. \A d \in Int : today - Retention < d /\ d \in DaysOf(stored) => d \in DaysOf(stored')
    <3> SUFFICES ASSUME NEW d \in Int, today - Retention < d, d \in DaysOf(stored) PROVE d \in DaysOf(stored')
      OBVIOUS
    <3>1. PICK row \in stored : row[2] = d
      BY DEF DaysOf
    <3>2. row \in stored'
      BY <1>2, <1>3, <3>1, Days
    <3>3. QED
      BY <3>1, <3>2 DEF DaysOf
  <2>4. WindowStored'
    BY <1>1, <2>2, <2>3 DEF WindowStored, StoredFrom, GscInv, Frame
  <2>5. exec.site \in Sites /\ exec'.end \in {0, today - Lag, today - Lag - 1} /\ (exec'.end = 0 \/ exec'.end >= Retention) /\ exec.end # 0
    BY <1>1, <2>2 DEF GscInv, ExecInv
  <2>6. QED
    BY <1>1, <1>2, <1>3, <2>2, <2>3, <2>4, <2>5, StepKeeps DEF GscInv, SitesInv
<1>4. CASE Fault /\ ExecAt("catching") /\ UNCHANGED stored
  BY <1>1, <1>2, <1>4, CatchingKeeps
<1>5. QED
  BY <1>3, <1>4 DEF Prune

\* gsc-sync-job.ts: the connection is "ok" and its last day is one that is
\* stored.
LEMMA FinishKeeps ==
    ASSUME GscInv, Finish
    PROVE  GscInv'
<1>1. exec.pc = "finishing" /\ stored' = stored /\ Frame
  BY DEF Finish, Frame
<1>2. /\ left \in LeftSet /\ conn \in ConnSet /\ exec \in ExecSet /\ stored \subseteq Sites \X DataDays
      /\ left.faults \in Nat /\ today \in Today /\ today \in Nat
  BY GscTypes DEF LeftSet
<1>3. CASE /\ Connected /\ conn' = [conn EXCEPT !.status = "ok", !.last = today] /\ UNCHANGED left
           /\ exec' = IdleSync /\ job' = [job EXCEPT ![exec.day] = CompletedJob(@)]
  <2>1. conn' = [site |-> conn.site, key |-> conn.key, last |-> today, status |-> "ok"]
    BY <1>2, <1>3 DEF ConnSet
  <2>2. conn.site \in Sites
    BY <1>3 DEF Connected, GscInv, SitesInv
  <2>3. conn' \in ConnSet /\ conn'.site = conn.site /\ conn'.last = today /\ conn'.status = "ok"
    BY <1>2, <2>1 DEF ConnSet, Statuses
  <2>4. exec.end \in {today - Lag, today - Lag - 1} /\ StoredFrom(exec.end - Retention + 1, exec.end)
    BY <1>1 DEF GscInv, ExecInv, WindowStored
  <2>5. \A d \in Int : today - Retention + 1 <= d /\ d <= today - Lag - 1 /\ today - Retention < d => d \in DaysOf(stored)
    BY <1>2, <2>4, Days DEF StoredFrom
  <2>6. LastStored'
    BY <1>1, <2>3, <2>5 DEF LastStored, StoredFrom, Frame
  <2>7. QED
    BY <1>1, <1>3, <2>2, <2>3, <2>6, CompleteKeeps
<1>4. CASE ~Connected /\ ExecAt("catching") /\ UNCHANGED <<conn, job, left>>
  BY <1>1, <1>2, <1>4, CatchingKeeps
<1>5. CASE Fault /\ ExecAt("catching") /\ UNCHANGED <<conn, job>>
  BY <1>1, <1>2, <1>5, CatchingKeeps
<1>6. QED
  BY <1>3, <1>4, <1>5 DEF Finish

\* gsc-sync-job.ts: the failure is recorded, and BullMQ tries again or gives
\* up.
LEMMA CatchKeeps ==
    ASSUME GscInv, Catch
    PROVE  GscInv'
<1>1. exec.pc # "idle" /\ Throw(exec.day) /\ stored' = stored /\ Frame
  BY DEF Catch, Frame
<1>2. /\ left \in LeftSet /\ conn \in ConnSet /\ stored \subseteq Sites \X DataDays /\ left.faults \in Nat
      /\ (conn # NoConn => conn.site \in Sites)
  BY GscTypes DEF LeftSet, GscInv, SitesInv
<1>3. CASE Connected /\ conn' = [conn EXCEPT !.status = "failed"] /\ UNCHANGED left
  <2>1. conn' \in ConnSet /\ conn'.site = conn.site /\ conn'.last = conn.last /\ conn'.status = "failed"
    BY <1>2, <1>3, ConnUpdate DEF Statuses
  <2>2. QED
    BY <1>1, <1>2, <1>3, <2>1, ThrowKeeps DEF Connected
<1>4. CASE ~Connected /\ UNCHANGED <<conn, left>>
  <2>1. conn'.status # "syncing"
    BY <1>4, IdleRecords DEF Connected
  <2>2. QED
    BY <1>1, <1>2, <1>4, <2>1, ThrowKeeps
<1>5. CASE Fault /\ UNCHANGED conn
  BY <1>1, <1>2, <1>5, SameLeft, ThrowKeeps
<1>6. QED
  BY <1>3, <1>4, <1>5 DEF Catch

\* A restart leaves the job active until it is found stalled.
LEMMA RestartKeeps ==
    ASSUME GscInv, Restart
    PROVE  GscInv'
<1>1. /\ left.restarts > 0 /\ left' = [left EXCEPT !.restarts = @ - 1] /\ secret' \in Secrets \cup {Unset}
      /\ exec' = IdleSync /\ req' = [r \in DOMAIN req |-> IdleVisit]
      /\ job' = IF exec = IdleSync THEN job ELSE [job EXCEPT ![exec.day] = StalledJob(@)]
      /\ today' = today /\ conn' = conn /\ stored' = stored /\ shown' = shown
  BY DEF Restart
<1>2. left \in LeftSet /\ job \in [Today -> Job] /\ req \in [Panels \cup {Cron} -> ReqSet]
  BY GscTypes
<1>3. left' \in LeftSet /\ left'.faults = left.faults /\ left'.faults \in Nat
  <2>1. left.restarts \in Nat
    BY <1>2 DEF LeftSet
  <2>2. PICK n \in Nat : n = left.restarts - 1
    BY <1>1, <2>1
  <2>3. left' = [left EXCEPT !.restarts = n]
    BY <1>1, <2>2
  <2>4. QED
    BY <1>2, <2>3 DEF LeftSet
<1>4. job' \in [Today -> Job] /\ \A d \in Today : \/ job'[d] = job[d] \/ job'[d].state = "wait"
                                                 \/ job'[d].stalled > MaxStalledCount
  <2>1. CASE exec = IdleSync
    BY <1>1, <1>2, <2>1
  <2>2. CASE exec # IdleSync
    <3>1. exec.pc # "idle"
      BY <2>2 DEF GscInv, ExecInv
    <3>2. PICK j \in Job : j = StalledJob(job[exec.day])
      BY <3>1, ExecMeans, Stalled
    <3>3. j.state = "wait" \/ j.stalled > MaxStalledCount
      BY <3>1, <3>2, ExecMeans DEF StalledJob, MaxStalledCount, Job
    <3>4. job' = [job EXCEPT ![exec.day] = j]
      BY <1>1, <2>2, <3>2
    <3>5. QED
      BY <1>2, <3>3, <3>4
  <2>3. QED
    BY <2>1, <2>2
<1>5. req' \in [Panels \cup {Cron} -> ReqSet] /\ \A r \in Panels \cup {Cron} : req'[r].pc = "idle"
  BY <1>1, <1>2, Visits, IdleRecords
<1>6. GscTypeOK' /\ SitesInv'
  BY <1>1, <1>4, <1>5, IdleRecords DEF GscInv, GscTypeOK, SitesInv, ExecSet, SyncPcs, ReqSet
<1>7. ExecInv' /\ WindowStored' /\ LastStored'
  BY <1>1, IdleRecords DEF ExecInv, WindowStored, GscInv, LastStored, StoredFrom, DaysOf
<1>8. SyncingHasJob'
  BY <1>1, <1>3, <1>4, JobStillThere
<1>9. QED
  BY <1>3, <1>6, <1>7, <1>8 DEF GscInv

\* Midnight: the rows of the last window are still young enough.
LEMMA NextDayKeeps ==
    ASSUME GscInv, NextDay
    PROVE  GscInv'
<1>1. /\ today + 1 \in Today /\ exec.end \in {0, today - Lag} /\ today' = today + 1
      /\ secret' = secret /\ conn' = conn /\ stored' = stored /\ job' = job /\ exec' = exec
      /\ req' = req /\ shown' = shown /\ left' = left
  BY DEF NextDay
<1>2. today \in Today /\ today \in Nat
  BY GscTypes
<1>3. GscTypeOK' /\ left' \in LeftSet /\ SitesInv'
  BY <1>1 DEF GscInv, GscTypeOK, SitesInv
<1>4. ExecInv'
  <2>1. today' - Lag - 1 = today - Lag
    BY <1>1, <1>2, Days
  <2>2. QED
    BY <1>1, <2>1 DEF GscInv, ExecInv
<1>5. \A d \in Int : today' - Retention < d => today - Retention < d
  BY <1>1, <1>2, Days
<1>6. WindowStored' /\ LastStored'
  BY <1>1, <1>5 DEF GscInv, WindowStored, LastStored, StoredFrom, DaysOf
<1>7. SyncingHasJob'
  BY <1>1 DEF GscInv, SyncingHasJob
<1>8. QED
  BY <1>3, <1>4, <1>6, <1>7 DEF GscInv

\* gsc-sync-job.ts, gsc.ts, gsc-cron.ts: every step.
LEMMA GscStep == GscInv /\ [GscNext]_gscVars => GscInv'
<1> SUFFICES ASSUME GscInv, [GscNext]_gscVars PROVE GscInv'
  OBVIOUS
<1>1. CASE Work
  BY <1>1, TakeKeeps, ReadConnKeeps, MarkSyncingKeeps, FetchKeeps, UpsertKeeps, PruneKeeps, FinishKeeps, CatchKeeps DEF Work
<1>2. CASE CronReads \/ (\E p \in Panels : Ask(p)) \/ (\E r \in Panels \cup {Cron} : AddJob(r))
  BY <1>2, CronReadsVisits, AskVisits, AddJobVisits, VisitKeeps
<1>3. CASE Restart \/ NextDay
  BY <1>3, RestartKeeps, NextDayKeeps
<1>4. CASE UNCHANGED gscVars
  BY <1>4 DEF gscVars, GscInv, GscTypeOK, SitesInv, ExecInv, SyncingHasJob, WindowStored, LastStored, StoredFrom, DaysOf
<1>5. QED
  BY <1>1, <1>2, <1>3, <1>4 DEF GscNext

\* What was synced is stored; hence what is read on that day.
LEMMA LastReachesReaders ==
    ASSUME GscInv
    PROVE  SyncedDaysStored /\ SyncReachesReaders
<1>0. today \in Today /\ today \in Nat /\ conn.last \in Nat /\ stored \subseteq Sites \X DataDays
  BY GscTypes, Days DEF ConnSet
<1>1. SyncedDaysStored
  <2> SUFFICES ASSUME conn.last # 0, NEW d \in conn.last - Retention + 1 .. conn.last - Lag - 1, d > today - Retention
               PROVE  d \in DaysOf(stored)
    BY DEF SyncedDaysStored
  <2>1. d \in Int /\ conn.last - Retention + 1 <= d /\ d <= conn.last - Lag - 1 /\ today - Retention < d
    BY <1>0, Days
  <2>2. QED
    BY <2>1 DEF GscInv, LastStored, StoredFrom
<1>2. SyncReachesReaders
  <2> SUFFICES ASSUME conn.last = today, conn.status = "ok"
               PROVE  /\ today - Retention + 1 .. today - Lag - 1
                             \subseteq DaysOf(TopLists(Retention)) \cap DaysOf(ReportSummary)
                      /\ AuditContext # {}
    BY DEF SyncReachesReaders
  <2>0. today # 0
    BY <1>0, Days
  <2>1. ASSUME NEW d \in today - Retention + 1 .. today - Lag - 1
        PROVE  \E row \in stored : row[2] = d
    <3>1. d \in Int /\ today - Retention + 1 <= d /\ d <= today - Lag - 1 /\ today - Retention < d
      BY <1>0, Days
    <3>2. d \in DaysOf(stored)
      BY <2>0, <3>1 DEF GscInv, LastStored, StoredFrom
    <3>3. QED
      BY <3>2 DEF DaysOf
  <2>2. ASSUME NEW d \in today - Retention + 1 .. today - Lag - 1
        PROVE  d \in DaysOf(TopLists(Retention)) /\ d \in DaysOf(ReportSummary)
    <3>1. PICK row \in stored : row[2] = d
      BY <2>1
    <3>2. row[2] \in today - Lag - Retention + 1 .. today - Lag /\ row[2] > today - Retention
      BY <1>0, <3>1, Days
    <3>3. row \in TopLists(Retention) /\ row \in ReportSummary
      BY <3>1, <3>2 DEF TopLists, Overview, ReportSummary
    <3>4. QED
      BY <3>1, <3>3 DEF DaysOf
  <2>3. AuditContext # {}
    <3>1. today - Lag - 1 \in today - Retention + 1 .. today - Lag - 1 /\ today - Lag - 1 > today - Recent
      BY <1>0, Days
    <3>2. PICK row \in stored : row[2] = today - Lag - 1
      BY <2>1, <3>1
    <3>3. row[2] > today - Recent
      BY <3>1, <3>2
    <3>4. QED
      BY <3>2, <3>3 DEF AuditContext
  <2>4. QED
    BY <2>2, <2>3
<1>3. QED
  BY <1>1, <1>2

\* A sync in progress has its job, and what a sync brought stays and reaches
\* its readers.
THEOREM SyncsAreKept == GscSpec => []SyncKept
<1>1. GscInv => SyncKept
  BY LastReachesReaders DEF GscInv, SyncKept
<1>2. QED
  BY <1>1, GscInvInit, GscStep, PTL DEF GscSpec
=============================================================================
