----------------------------- MODULE PageReaudit -----------------------------
(***************************************************************************)
(* One page of a project: the re-audits users ask for, the audits of the   *)
(* whole site that reach it, the lineage of its findings and the diff the  *)
(* dashboard shows.                                                        *)
(*                                                                         *)
(*   routes/pages.ts          POST /api/pages/:id/audit looks for a live   *)
(*                            PageAudit, creates one, adds its job;        *)
(*                            GET /api/page-audits/:id computes the diff;  *)
(*   jobs/page-audit-job.ts   the handler of a standalone page job, and    *)
(*                            attachLineage.                               *)
(*                                                                         *)
(* What a site audit does to its own rows is AuditPipeline's subject: here *)
(* it is another source of PageAudits of the same page.                    *)
(***************************************************************************)
EXTENDS Naturals, FiniteSets, FiniteSetsExt, Sequences, SequencesExt, BullJob

CONSTANTS
    Clients,        \* browsers
    Occurrences,    \* places a rule can fire: <<(url, category, rule), n>>
    Looks,          \* what a finding says: <<severity rank, message>>
    PageAttempts,   \* attempts of a page job (RETRY_POLICY)
    MaxRows,        \* bound: PageAudits of the page
    MaxCrashes,     \* bound: process crashes
    MaxFaults       \* bound: Postgres, Redis and network errors

ASSUME ReauditAssumption ==
    /\ PageAttempts \in Nat \ {0}
    /\ MaxRows \in Nat /\ MaxCrashes \in Nat /\ MaxFaults \in Nat
    /\ IsFiniteSet(Occurrences) /\ \A o \in Occurrences : o[2] \in Nat
    /\ \A l \in Looks : l[1] \in Nat

Rows == 1 .. MaxRows
LiveStatus == {"queued", "running"}
EndedStatus == {"completed", "failed"}
None == <<>>

VARIABLES
    status,     \* PageAudit.status
    batch,      \* the Finding rows of a PageAudit
    finished,   \* PageAudit.finishedAt
    committed,  \* completed PageAudits in the order of their transactions
    basis,      \* history: PageAudits committed when the row read its lineage
    job,        \* the auditPage job of a row
    exec,       \* where the handler of a row is
    req,        \* where each browser's POST is
    clock, lost, crashes, faults

dataVars == <<status, batch, finished, committed, basis>>
bounds == <<clock, lost, crashes, faults>>
pageVars == <<dataVars, job, exec, req, bounds>>

Finding == [on : Occurrences, look : Looks, prev : {None} \cup (Rows \X Occurrences)]
Contents == UNION {[O -> Looks] : O \in SUBSET Occurrences}
RuleOf(o) == o[1]

IdleExec == [pc |-> "idle", sees |-> None, at |-> 0]
IdleReq == [pc |-> "idle", row |-> 0]

PageInit ==
    /\ status = [r \in Rows |-> "none"]
    /\ batch = [r \in Rows |-> {}]
    /\ finished = [r \in Rows |-> 0]
    /\ committed = <<>>
    /\ basis = [r \in Rows |-> {}]
    /\ job = [r \in Rows |-> NoJob]
    /\ exec = [r \in Rows |-> IdleExec]
    /\ req = [k \in Clients |-> IdleReq]
    /\ clock = 0 /\ lost = {} /\ crashes = 0 /\ faults = 0

ReauditFault == faults < MaxFaults /\ faults' = faults + 1

-----------------------------------------------------------------------------
(* routes/pages.ts: POST /api/pages/:id/audit *)

LiveRows == {r \in Rows : status[r] \in LiveStatus}
FreeRows == {r \in Rows : status[r] = "none"}

\* 409 if a PageAudit of the page is queued or running, else go on.
CheckLive(k) ==
    /\ req[k].pc = "idle"
    /\ FreeRows # {}
    /\ req' = [req EXCEPT ![k].pc = IF LiveRows = {} THEN "checked" ELSE "busy"]
    /\ UNCHANGED <<dataVars, job, exec, bounds>>

CreateRow(k) ==
    /\ req[k].pc = "checked"
    /\ FreeRows # {}
    /\ LET r == Min(FreeRows) IN
       /\ status' = [status EXCEPT ![r] = "queued"]
       /\ req' = [req EXCEPT ![k] = [pc |-> "created", row |-> r]]
    /\ UNCHANGED <<batch, finished, committed, basis, job, exec, bounds>>

EnqueueRow(k) ==
    /\ req[k].pc = "created"
    /\ job' = [job EXCEPT ![req[k].row] = AddedJob]
    /\ req' = [req EXCEPT ![k].pc = "ok"]
    /\ UNCHANGED <<dataVars, exec, bounds>>

\* auditPageQueue.add rejects: nothing undoes the create.
EnqueueRowFails(k) ==
    /\ req[k].pc = "created"
    /\ ReauditFault
    /\ lost' = lost \cup {req[k].row}
    /\ req' = [req EXCEPT ![k].pc = "failed"]
    /\ UNCHANGED <<dataVars, job, exec, clock, crashes>>

\* The browser gets the answer.
Answered(k) ==
    /\ req[k].pc \in {"ok", "busy", "failed"}
    /\ req' = [req EXCEPT ![k] = IdleReq]
    /\ UNCHANGED <<dataVars, job, exec, bounds>>

\* A site audit creates its row of the page and the job, whatever is live.
SiteAuditReaches ==
    /\ FreeRows # {}
    /\ LET r == Min(FreeRows) IN
       /\ status' = [status EXCEPT ![r] = "queued"]
       /\ job' = [job EXCEPT ![r] = AddedJob]
    /\ UNCHANGED <<batch, finished, committed, basis, exec, req, bounds>>

-----------------------------------------------------------------------------
(* jobs/page-audit-job.ts *)

Goto(r, pc) == exec' = [exec EXCEPT ![r].pc = pc]

TakeRow(r) ==
    /\ job[r].state = "wait"
    /\ job' = [job EXCEPT ![r] = TakenJob(@)]
    /\ Goto(r, IF status[r] \in EndedStatus THEN "returned" ELSE "taken")
    /\ UNCHANGED <<dataVars, req, bounds>>

\* Faulty variant: the row is given BullMQ's name of the state.
StartRowActive(r) ==
    /\ exec[r].pc = "taken"
    /\ status' = [status EXCEPT ![r] = "active"]
    /\ Goto(r, "fetching")
    /\ UNCHANGED <<batch, finished, committed, basis, job, req, bounds>>

StartRow(r) ==
    /\ exec[r].pc = "taken"
    /\ status' = [status EXCEPT ![r] = "running"]
    /\ Goto(r, "fetching")
    /\ UNCHANGED <<batch, finished, committed, basis, job, req, bounds>>

\* The update to running rejects, before the try block.
StartRowFails(r) ==
    /\ exec[r].pc = "taken"
    /\ ReauditFault
    /\ job' = [job EXCEPT ![r] = ThrownJob(@, PageAttempts)]
    /\ Goto(r, "idle")
    /\ UNCHANGED <<dataVars, req, clock, lost, crashes>>

\* The page is fetched and audited; finishedAt is taken here, two awaits
\* before the transaction that stores it.
AuditRow(r) ==
    /\ exec[r].pc = "fetching"
    /\ \E content \in Contents :
          exec' = [exec EXCEPT ![r] = [pc |-> "audited", sees |-> content, at |-> clock + 1]]
    /\ clock' = clock + 1
    /\ UNCHANGED <<dataVars, job, req, lost, crashes, faults>>

\* The fetch fails or answers an error status, or the transaction rejects.
AuditRowFails(r) ==
    /\ exec[r].pc \in {"fetching", "audited", "linked"}
    /\ ReauditFault
    /\ Goto(r, "catch")
    /\ UNCHANGED <<dataVars, job, req, clock, lost, crashes>>

Completed == {r \in Rows : status[r] = "completed"}
Heads(rs) == UNION {{<<r, f.on>> : f \in {g \in batch[r] : g.prev = None}} : r \in rs}

\* attachLineage reads the findings of the page that have no predecessor.  A
\* Finding never changes once committed, so the set of rows says what it read.
ReadLineage(r) ==
    /\ exec[r].pc = "audited"
    /\ Goto(r, "linked")
    /\ basis' = [basis EXCEPT ![r] = Completed]
    /\ UNCHANGED <<status, batch, finished, committed, job, req, bounds>>

\* Ids grow with the transaction, then with the place in the batch.
Newer(g, h) ==
    LET at(x) == SelectInSeq(committed, LAMBDA r : r = x[1])
    IN \/ at(g) > at(h)
       \/ g[1] = h[1] /\ g[2][2] > h[2][2]

\* Faulty variant: only a head of the very same place is a predecessor.
PredecessorSamePlace(o, heads) ==
    LET same == {h \in heads : h[2] = o}
    IN IF same = {} THEN None
       ELSE CHOOSE h \in same : \A g \in same : ~Newer(g, h)

\* The newest head with the same url, category and rule.
Predecessor(o, heads) ==
    LET same == {h \in heads : RuleOf(h[2]) = RuleOf(o)}
    IN IF same = {} THEN None
       ELSE CHOOSE h \in same : \A g \in same : ~Newer(g, h)

CommitRow(r) ==
    /\ exec[r].pc = "linked"
    /\ batch' = [batch EXCEPT ![r] =
          {[on |-> o, look |-> exec[r].sees[o], prev |-> Predecessor(o, Heads(basis[r]))] :
             o \in DOMAIN exec[r].sees}]
    /\ status' = [status EXCEPT ![r] = "completed"]
    /\ finished' = [finished EXCEPT ![r] = exec[r].at]
    /\ committed' = Append(committed, r)
    /\ exec' = [exec EXCEPT ![r] = [IdleExec EXCEPT !.pc = "returned"]]
    /\ UNCHANGED <<basis, job, req, bounds>>

\* Faulty variant: the catch block swallows the error without a write.
CatchRowSilent(r) ==
    /\ exec[r].pc = "catch"
    /\ Goto(r, "returned")
    /\ UNCHANGED <<dataVars, job, req, bounds>>

\* The catch block stores the failure and throws it on.
CatchRow(r) ==
    /\ exec[r].pc = "catch"
    /\ status' = [status EXCEPT ![r] = "failed"]
    /\ job' = [job EXCEPT ![r] = ThrownJob(@, PageAttempts)]
    /\ exec' = [exec EXCEPT ![r] = IdleExec]
    /\ UNCHANGED <<batch, finished, committed, basis, req, bounds>>

AckRow(r) ==
    /\ exec[r].pc = "returned"
    /\ job' = [job EXCEPT ![r] = CompletedJob(@)]
    /\ exec' = [exec EXCEPT ![r] = IdleExec]
    /\ UNCHANGED <<dataVars, req, bounds>>

\* The process dies: handlers and requests are gone, rows and jobs are not.
PageCrash ==
    /\ crashes < MaxCrashes
    /\ crashes' = crashes + 1
    /\ exec' = [r \in Rows |-> IdleExec]
    /\ req' = [k \in Clients |-> IdleReq]
    /\ lost' = lost \cup {req[k].row : k \in {c \in Clients : req[c].pc = "created"}}
    /\ job' = [r \in Rows |-> IF job[r].state = "active" THEN StalledJob(job[r]) ELSE job[r]]
    /\ UNCHANGED <<dataVars, clock, faults>>

-----------------------------------------------------------------------------
(* routes/pages.ts: GET /api/page-audits/:id *)

\* The newest completed PageAudit that finished before r did.
Prior(r) ==
    LET before == {p \in Completed \ {r} : finished[p] < finished[r]}
    IN IF before = {} THEN 0 ELSE CHOOSE p \in before : \A q \in before : finished[q] <= finished[p]

FindingAt(h) == CHOOSE f \in batch[h[1]] : f.on = h[2]

DiffLabel(f) ==
    IF f.prev = None THEN "NEW"
    ELSE LET p == FindingAt(f.prev) IN
         CASE f.look = p.look -> "UNCHANGED"
           [] f.look[1] < p.look[1] -> "IMPROVEMENT"
           [] OTHER -> "REGRESSION"

\* Faulty variant: findings are compared by their place instead of the chain.
FixedByPlace(r) ==
    IF Prior(r) = 0 THEN {}
    ELSE {h \in Heads({Prior(r)}) : \A f \in batch[r] : f.on # h[2]}

\* The heads of the prior PageAudit that no finding of r points to.
Fixed(r) ==
    IF Prior(r) = 0 THEN {}
    ELSE {h \in Heads({Prior(r)}) : \A f \in batch[r] : f.prev # h}

-----------------------------------------------------------------------------
RequestStep(k) == \/ CreateRow(k) \/ EnqueueRow(k) \/ Answered(k)
WorkerStep(r) ==
    \/ TakeRow(r) \/ StartRow(r) \/ AuditRow(r) \/ ReadLineage(r)
    \/ CommitRow(r) \/ CatchRow(r) \/ AckRow(r)

PageNext ==
    \/ \E k \in Clients : CheckLive(k) \/ RequestStep(k) \/ EnqueueRowFails(k)
    \/ \E r \in Rows : WorkerStep(r) \/ StartRowFails(r) \/ AuditRowFails(r)
    \/ SiteAuditReaches
    \/ PageCrash

\* A request that is being handled goes on, and so does a job a worker holds or
\* may take; users ask and things fail when they like.
PageFairness ==
    /\ \A k \in Clients : WF_pageVars(RequestStep(k))
    /\ \A r \in Rows : WF_pageVars(WorkerStep(r))

PageSpec == PageInit /\ [][PageNext]_pageVars /\ PageFairness

-----------------------------------------------------------------------------
PageTypeOK ==
    /\ status \in [Rows -> {"none"} \cup LiveStatus \cup EndedStatus]
    /\ batch \in [Rows -> SUBSET Finding]
    /\ finished \in [Rows -> Nat]
    /\ committed \in Seq(Rows)
    /\ basis \in [Rows -> SUBSET Rows]
    /\ job \in [Rows -> Job]
    /\ exec \in [Rows ->
          [pc : {"idle", "taken", "fetching", "audited", "linked", "catch", "returned"},
           sees : {None} \cup Contents, at : Nat]]
    /\ req \in [Clients -> [pc : {"idle", "checked", "created", "ok", "busy", "failed"},
                            row : Rows \cup {0}]]
    /\ clock \in Nat /\ lost \subseteq Rows /\ crashes \in Nat /\ faults \in Nat

\* attachLineage promises that findings of one rule form one chain on the page.
\* Two PageAudits both start a chain of a rule only if they overlapped: neither
\* transaction was committed when the other read its lineage.
ChainsSplitOnlyInRaces ==
    \A p, q \in Completed :
        (/\ p # q
         /\ \E f \in batch[p], g \in batch[q] :
               f.prev = None /\ g.prev = None /\ RuleOf(f.on) = RuleOf(g.on))
        => p \notin basis[q] /\ q \notin basis[p]

PlacesOf(r) == {f.on : f \in batch[r]}
RulesOf(r) == {RuleOf(o) : o \in PlacesOf(r)}

\* What finding f says of its rule, and what p said of it.
LookAt(f, p) == (CHOOSE g \in batch[p] : RuleOf(g.on) = RuleOf(f.on)).look

\* What GET /api/page-audits/:id says of r is the difference from p: FIXED lists
\* what is gone, NEW what was not there, and IMPROVEMENT and REGRESSION compare
\* the looks.
DiffIsExact(p, r) ==
    /\ {RuleOf(h[2]) : h \in Fixed(r)} = RulesOf(p) \ RulesOf(r)
    /\ \A f \in batch[r] :
          LET label == DiffLabel(f) IN
          /\ (label = "NEW") = (RuleOf(f.on) \notin RulesOf(p))
          /\ label = "UNCHANGED" => f.look = LookAt(f, p)
          /\ label = "IMPROVEMENT" => f.look[1] < LookAt(f, p)[1]
          /\ label = "REGRESSION" => f.look # LookAt(f, p) /\ f.look[1] >= LookAt(f, p)[1]

\* The diff of the second audit of a page is exact when the first was committed
\* before the second read its lineage and found each rule at one place only.
SecondDiffIsExact ==
    \A p, r \in Completed :
        (/\ basis[p] = {} /\ basis[r] = {p} /\ Prior(r) = p
         /\ Cardinality(RulesOf(p)) = Cardinality(PlacesOf(p)))
        => DiffIsExact(p, r)

\* A PageAudit that is queued or running ends, or every later re-audit of the
\* page is refused with 409 for ever: it does, unless its add was lost (see the
\* hazards) or its job failed without its handler writing the row.
ReauditEnds ==
    \A r \in Rows :
        status[r] = "queued" ~>
            (status[r] \in EndedStatus \/ r \in lost \/ job[r].state = "failed")

\* The chains of findings and the diffs drawn from them are what the committed
\* audits found, but for audits that overlapped (page-audit-job.ts, pages.ts).
LineageExact == PageTypeOK /\ ChainsSplitOnlyInRaces /\ SecondDiffIsExact
=============================================================================
