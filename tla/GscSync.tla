------------------------------ MODULE GscSync ------------------------------
(***************************************************************************)
(* Search Console sync of one project: routes/gsc.ts, gsc-cron.ts, the     *)
(* snapshot job (jobs/gsc-job.ts), the readers of its rows (gsc-read.ts,   *)
(* gsc-snapshot-context.ts) and the panel of the web client                *)
(* (components/GscPanel.tsx) that starts a sync and polls for its end.     *)
(*                                                                         *)
(* Time is the UTC day.  A day's rows for one site are one pair            *)
(* <<site, day>>: the table's key has the page but not the site, so rows   *)
(* of a former site stay beside those of the present one.                  *)
(***************************************************************************)
EXTENDS Integers, FiniteSets, BullJob

CONSTANTS
    Panels,          \* open GscPanels
    Sites,
    NoSite,          \* "there is no GscConnection row"
    Secrets,         \* values of JHEO_SECRET_KEY, positive
    Lag,             \* days Google needs before data is final (3)
    Retention,       \* SNAPSHOT_RETENTION_DAYS (28)
    Recent,          \* RECENT_DAYS of gsc-snapshot-context.ts (7)
    SyncAttempts,    \* GSC_RETRY_POLICY.attempts (3)
    SyncDays,        \* bound: days a behaviour lasts
    MaxRestarts,     \* bound: restarts of the process
    MaxSyncFaults,   \* bound: failing database or Google calls
    MaxVisits        \* bound: requests

ASSUME SyncAssumption ==
    /\ Lag \in Nat \ {0} /\ Retention \in Nat /\ Recent \in Nat
    /\ Lag + 1 < Recent /\ Recent <= Retention
    /\ Secrets \subseteq Nat \ {0} /\ NoSite \notin Sites
    /\ SyncDays \in Nat \ {0} /\ SyncAttempts \in Nat
    /\ MaxRestarts \in Nat /\ MaxSyncFaults \in Nat /\ MaxVisits \in Nat

FirstDay == Lag + Retention
Today == FirstDay .. FirstDay + SyncDays - 1
DataDays == 1 .. FirstDay + SyncDays
Unset == 0       \* the environment has no JHEO_SECRET_KEY

VARIABLES
    today,
    secret,    \* JHEO_SECRET_KEY of the running process
    conn,      \* the GscConnection row; `key` is the secret that sealed it
    stored,    \* GscSnapshot
    job,       \* the snapshot job of each day: its id is gsc-snapshot:<project>:<day>
    exec,      \* the one worker (GSC_CONCURRENCY 1)
    req,       \* the request of each panel, and the cron tick
    shown,     \* the status each panel shows ("none" without a connection)
    left       \* what remains of the bounds

gscVars == <<today, secret, conn, stored, job, exec, req, shown, left>>

NoConn == [site |-> NoSite, key |-> Unset, status |-> "none", last |-> 0]
IdleSync == [pc |-> "idle", day |-> 0, site |-> NoSite, key |-> Unset, end |-> 0]
IdleVisit == [pc |-> "idle", site |-> NoSite, day |-> 0]
Cron == "cron"

GscInit ==
    /\ today = FirstDay
    /\ secret \in Secrets \cup {Unset}
    /\ conn = NoConn
    /\ stored = {}
    /\ job = [d \in Today |-> NoJob]
    /\ exec = IdleSync
    /\ req = [r \in Panels \cup {Cron} |-> IdleVisit]
    /\ shown = [p \in Panels |-> "none"]
    /\ left = [restarts |-> MaxRestarts, faults |-> MaxSyncFaults, visits |-> MaxVisits]

Connected == conn # NoConn
Fault == left.faults > 0 /\ left' = [left EXCEPT !.faults = @ - 1]
Start(r, v) ==
    /\ req[r] = IdleVisit /\ left.visits > 0
    /\ left' = [left EXCEPT !.visits = @ - 1]
    /\ req' = [req EXCEPT ![r] = v]
Reply(r) == req' = [req EXCEPT ![r] = IdleVisit]
Refetch(r) == req' = [req EXCEPT ![r] = [IdleVisit EXCEPT !.pc = "refetch"]]

-----------------------------------------------------------------------------
(* GET connection: when the panel opens, after its mutations (the query is  *)
(* invalidated) and every 3 s while it shows "syncing"                      *)

\* A row the process cannot decrypt is rewritten in a second statement.
GetRead(p) ==
    /\ IF conn.key # secret /\ secret # Unset /\ Connected
       THEN req' = [req EXCEPT ![p] = [IdleVisit EXCEPT !.pc = "sealed"]] /\ UNCHANGED shown
       ELSE Reply(p) /\ shown' = [shown EXCEPT ![p] = conn.status]
    /\ UNCHANGED <<today, secret, conn, stored, job, exec>>

PanelOpens(p) ==
    /\ req[p] = IdleVisit /\ left.visits > 0
    /\ left' = [left EXCEPT !.visits = @ - 1]
    /\ GetRead(p)

PanelRefetches(p) == req[p].pc = "refetch" /\ GetRead(p) /\ UNCHANGED left

\* Faulty variant: the panel polls while it shows "ok".
PanelPollsIdle(p) == req[p] = IdleVisit /\ shown[p] = "ok" /\ GetRead(p) /\ UNCHANGED left

PanelPolls(p) == req[p] = IdleVisit /\ shown[p] = "syncing" /\ GetRead(p) /\ UNCHANGED left

\* The update fails (500) when the row was deleted after the read.
MarkSealed(p) ==
    /\ req[p].pc = "sealed"
    /\ Reply(p)
    /\ IF Connected
       THEN /\ conn' = [conn EXCEPT !.status = "decrypt_error"]
            /\ shown' = [shown EXCEPT ![p] = "decrypt_error"]
       ELSE UNCHANGED <<conn, shown>>
    /\ UNCHANGED <<today, secret, stored, job, exec, left>>

(* PUT and DELETE connection, POST sync, the cron tick *)

\* Google is asked for the site before the row is written; a process without a
\* secret answers 503.
PutTests(p) ==
    /\ secret # Unset
    /\ \E s \in Sites : Start(p, [pc |-> "testing", site |-> s, day |-> 0])
    /\ UNCHANGED <<today, secret, conn, stored, job, exec, shown>>

\* what testGscConnection answers: the refusals become 403, 404 and 502
TestResults == {"ok", "permission_denied", "site_not_found", "api_error"}

\* A site that passed is upserted: a new row was never synced, an old one keeps
\* lastSyncAt, whatever its site was.
PutEnds(p) ==
    /\ req[p].pc = "testing"
    /\ \E tested \in TestResults :
       \/ tested # "ok" /\ Reply(p) /\ UNCHANGED conn
       \/ /\ tested = "ok"
          /\ conn' = [site |-> req[p].site, key |-> secret, status |-> "ok", last |-> conn.last]
          /\ Refetch(p)
    /\ UNCHANGED <<today, secret, stored, job, exec, shown, left>>

\* The snapshot rows stay.  Without a row the answer is 404.
Delete(p) ==
    /\ Connected
    /\ conn' = NoConn
    /\ Start(p, [IdleVisit EXCEPT !.pc = "refetch"])
    /\ UNCHANGED <<today, secret, stored, job, exec, shown>>

PostSyncReads(p) ==
    /\ Connected /\ conn.status # "syncing"
    /\ Start(p, [IdleVisit EXCEPT !.pc = "adding"])
    /\ UNCHANGED <<today, secret, conn, stored, job, exec, shown>>

\* The tick comes on start and every 24 h; a sync under 20 h ago may be skipped,
\* which is no step here.  Its `today` is the day of the read.
CronReads ==
    /\ Connected /\ conn.status # "syncing"
    /\ Start(Cron, [pc |-> "adding", site |-> NoSite, day |-> today])
    /\ UNCHANGED <<today, secret, conn, stored, job, exec, shown>>

\* Queue.add ignores an id it knows, waiting or finished: the day's job is kept
\* longer than the day.
AddJob(r) ==
    /\ req[r].pc = "adding"
    /\ LET d == IF r = Cron THEN req[r].day ELSE today IN
       job' = [job EXCEPT ![d] = IF @ = NoJob THEN AddedJob ELSE @]
    /\ IF r = Cron THEN Reply(r) ELSE Refetch(r)
    /\ UNCHANGED <<today, secret, conn, stored, exec, shown, left>>

-----------------------------------------------------------------------------
(* The snapshot job *)

ExecAt(pc) == exec' = [exec EXCEPT !.pc = pc]
Throw(d) == exec' = IdleSync /\ job' = [job EXCEPT ![d] = ThrownJob(@, SyncAttempts)]

Take(d) ==
    /\ exec = IdleSync /\ job[d].state = "wait"
    /\ job' = [job EXCEPT ![d] = TakenJob(@)]
    /\ exec' = [IdleSync EXCEPT !.pc = "reading", !.day = d]
    /\ UNCHANGED <<today, secret, conn, stored, req, shown, left>>

\* Faulty variant: a row that is "syncing" already is left to whoever syncs it.
ReadConnSkipsSyncing ==
    /\ exec.pc = "reading"
    /\ IF Connected /\ conn.status # "syncing"
       THEN /\ exec' = [exec EXCEPT !.pc = IF secret = Unset THEN "no_secret" ELSE "marking",
                                    !.site = conn.site, !.key = conn.key]
            /\ UNCHANGED job
       ELSE exec' = IdleSync /\ job' = [job EXCEPT ![exec.day] = CompletedJob(@)]
    /\ UNCHANGED <<today, secret, conn, stored, req, shown, left>>

\* The site and the sealed account of this read are used to the end.
ReadConn ==
    /\ exec.pc = "reading"
    /\ IF Connected
       THEN /\ exec' = [exec EXCEPT !.pc = IF secret = Unset THEN "no_secret" ELSE "marking",
                                    !.site = conn.site, !.key = conn.key]
            /\ UNCHANGED job
       ELSE exec' = IdleSync /\ job' = [job EXCEPT ![exec.day] = CompletedJob(@)]
    /\ UNCHANGED <<today, secret, conn, stored, req, shown, left>>

\* An update of a missing row throws, here outside the handler's try.
MarkSyncing ==
    /\ exec.pc = "marking"
    /\ \/ /\ Connected
          /\ conn' = [conn EXCEPT !.status = "syncing"]
          /\ ExecAt("fetching") /\ UNCHANGED <<job, left>>
       \/ ~Connected /\ Throw(exec.day) /\ UNCHANGED <<conn, left>>
       \/ Fault /\ Throw(exec.day) /\ UNCHANGED conn
    /\ UNCHANGED <<today, secret, stored, req, shown>>

\* The account is decrypted and the days fetched, for the window of this day.
Fetch ==
    /\ exec.pc = "fetching"
    /\ \/ exec.key = secret /\ exec' = [exec EXCEPT !.pc = "upserting", !.end = today - Lag]
          /\ UNCHANGED left
       \/ exec.key # secret /\ ExecAt("catching") /\ UNCHANGED left
       \/ Fault /\ ExecAt("catching")
    /\ UNCHANGED <<today, secret, conn, stored, job, req, shown>>

\* Faulty variant: 28 days back instead of 27.
FetchedOneMore == {<<exec.site, d>> : d \in exec.end - Retention .. exec.end}

Fetched == {<<exec.site, d>> : d \in exec.end - Retention + 1 .. exec.end}

\* Chunks of 500 rows, each a statement of its own: a failure keeps the earlier
\* ones.  Rows arrive in no order of days, so any part may have been stored.
Upsert ==
    /\ exec.pc = "upserting"
    /\ \/ stored' = stored \cup Fetched /\ ExecAt("pruning") /\ UNCHANGED left
       \/ /\ Fault /\ ExecAt("catching")
          /\ \E some \in {{}, {<<exec.site, exec.end>>}} : stored' = stored \cup some
    /\ UNCHANGED <<today, secret, conn, job, req, shown>>

\* Faulty variant: the cutoff is computed from the last day fetched, as a
\* retention of 28 days of data would have it, and one day too far.
PruneTooFar ==
    /\ exec.pc = "pruning"
    /\ stored' = {row \in stored : row[2] > today - Retention + 1} /\ ExecAt("finishing")
    /\ UNCHANGED <<today, secret, conn, job, req, shown, left>>

\* date < now - 28 d, and a row's date is midnight: day today - 28 goes as well.
Prune ==
    /\ exec.pc = "pruning"
    /\ \/ /\ stored' = {row \in stored : row[2] > today - Retention}
          /\ ExecAt("finishing") /\ UNCHANGED left
       \/ Fault /\ ExecAt("catching") /\ UNCHANGED stored
    /\ UNCHANGED <<today, secret, conn, job, req, shown>>

Finish ==
    /\ exec.pc = "finishing"
    /\ \/ /\ Connected
          /\ conn' = [conn EXCEPT !.status = "ok", !.last = today]
          /\ exec' = IdleSync /\ job' = [job EXCEPT ![exec.day] = CompletedJob(@)]
          /\ UNCHANGED left
       \/ ~Connected /\ ExecAt("catching") /\ UNCHANGED <<conn, job, left>>
       \/ Fault /\ ExecAt("catching") /\ UNCHANGED <<conn, job>>
    /\ UNCHANGED <<today, secret, stored, req, shown>>

\* Faulty variant: the catch rethrows before it stores "failed".
CatchThrows ==
    /\ exec.pc \in {"catching", "no_secret"}
    /\ Throw(exec.day) /\ UNCHANGED <<conn, left>>
    /\ UNCHANGED <<today, secret, stored, req, shown>>

\* The row says "failed", unless this update fails or finds none; then the error
\* is thrown on.  Without a secret the same is done before the try.
Catch ==
    /\ exec.pc \in {"catching", "no_secret"}
    /\ Throw(exec.day)
    /\ \/ Connected /\ conn' = [conn EXCEPT !.status = "failed"] /\ UNCHANGED left
       \/ ~Connected /\ UNCHANGED <<conn, left>>
       \/ Fault /\ UNCHANGED conn
    /\ UNCHANGED <<today, secret, stored, req, shown>>

-----------------------------------------------------------------------------
\* The process dies and starts again, perhaps with another secret.
Restart ==
    /\ left.restarts > 0
    /\ left' = [left EXCEPT !.restarts = @ - 1]
    /\ secret' \in Secrets \cup {Unset}
    /\ exec' = IdleSync
    /\ job' = IF exec = IdleSync THEN job ELSE [job EXCEPT ![exec.day] = StalledJob(@)]
    /\ req' = [r \in DOMAIN req |-> IdleVisit]
    /\ UNCHANGED <<today, conn, stored, shown>>

\* A fetch of 28 days and its storing cross one midnight at most.
NextDay ==
    /\ today + 1 \in Today
    /\ exec.end \in {0, today - Lag}
    /\ today' = today + 1
    /\ UNCHANGED <<secret, conn, stored, job, exec, req, shown, left>>

Work ==
    \/ \E d \in Today : Take(d)
    \/ ReadConn \/ MarkSyncing \/ Fetch \/ Upsert \/ Prune \/ Finish \/ Catch

Ask(p) ==
    \/ PanelOpens(p) \/ PanelRefetches(p) \/ PanelPolls(p) \/ MarkSealed(p)
    \/ PutTests(p) \/ PutEnds(p) \/ Delete(p) \/ PostSyncReads(p)

GscNext ==
    \/ Work \/ CronReads \/ Restart \/ NextDay
    \/ \E p \in Panels : Ask(p)
    \/ \E r \in Panels \cup {Cron} : AddJob(r)

\* The worker serves its queue, requests are answered (the call to Google within
\* 15 s) and a panel polls and refetches.
GscFairness ==
    /\ WF_gscVars(Work)
    /\ \A p \in Panels : WF_gscVars(PanelRefetches(p) \/ PanelPolls(p) \/ MarkSealed(p) \/ PutEnds(p) \/ AddJob(p))

GscSpec == GscInit /\ [][GscNext]_gscVars /\ GscFairness

-----------------------------------------------------------------------------
(* The readers *)

\* resolveSnapshotDateRange, for the overview and the lists of the panel
Overview(days) == {row \in stored : row[2] \in today - Lag - days + 1 .. today - Lag}

\* Faulty variant: the recent days do not reach back to the data Google has.
AuditContextTooRecent ==
    IF conn.status = "ok" THEN {row \in stored : row[2] > today - Lag} ELSE {}

\* buildGscSnapshotContext: what an audit started now gets, {} for none
AuditContext ==
    IF conn.status = "ok" THEN {row \in stored : row[2] > today - Recent} ELSE {}

\* fetchGscTopQueries and fetchGscTopPages group and rank the same rows.
TopLists(days) == Overview(days)

\* buildGscReportSummary: what an executive report written now sums up
ReportSummary ==
    IF conn.status = "ok" THEN {row \in stored : row[2] > today - Retention} ELSE {}

DaysOf(rows) == {row[2] : row \in rows}

-----------------------------------------------------------------------------
GscTypeOK ==
    /\ today \in Today
    /\ secret \in Secrets \cup {Unset}
    /\ conn \in [site : Sites \cup {NoSite}, key : Secrets \cup {Unset}, last : Today \cup {0},
                 status : {"none", "ok", "syncing", "failed", "decrypt_error"}]
    /\ stored \subseteq Sites \X DataDays
    /\ job \in [Today -> Job]
    /\ exec \in [pc : {"idle", "reading", "no_secret", "marking", "fetching", "upserting",
                       "pruning", "finishing", "catching"},
                 day : Today \cup {0}, site : Sites \cup {NoSite}, key : Secrets \cup {Unset},
                 end : DataDays \cup {0}]
    /\ req \in [Panels \cup {Cron} -> [pc : {"idle", "refetch", "sealed", "testing", "adding"},
                                       site : Sites \cup {NoSite}, day : Today \cup {0}]]
    /\ shown \in [Panels -> {"none", "ok", "syncing", "failed", "decrypt_error"}]

\* A "syncing" row has a job that will still end it: cron and POST sync both skip
\* such a row, so without one it would stay for ever.  The code leaves two ways
\* out: the job failed by a second stall, and a catch whose own update fails at
\* the last attempt, which takes a database fault.
SyncingHasJob ==
    conn.status = "syncing" =>
        \E d \in Today : \/ job[d].state \in {"wait", "active"}
                         \/ job[d].stalled > MaxStalledCount
                         \/ job[d].state = "failed" /\ left.faults < MaxSyncFaults

\* lastSyncAt is the panel's freshness.  The days it vouches for are stored, for
\* the site synced then, and stay until they are too old: a failing chunk, a
\* restart or a later failing sync takes none away.  A sync that crosses midnight
\* is dated a day after the window it fetched, hence the last day less.
SyncedDaysStored ==
    conn.last # 0 =>
        \A d \in conn.last - Retention + 1 .. conn.last - Lag - 1 :
            d > today - Retention => d \in DaysOf(stored)

\* On the day of a sync the overview has every day the retention leaves, and
\* the report and an audit get rows the sync brought.  (The window of 28 days ends 3
\* days back and rows go after 28: the overview "of 28 days" has 25 at most.)
SyncReachesReaders ==
    (conn.last = today /\ conn.status = "ok") =>
        /\ today - Retention + 1 .. today - Lag - 1
               \subseteq DaysOf(TopLists(Retention)) \cap DaysOf(ReportSummary)
        /\ AuditContext # {}

\* A started sync ends: the row leaves "syncing", unless the job was lost.
SyncEnds ==
    conn.status = "syncing" ~>
        \/ conn.status # "syncing"
        \/ \E d \in Today : job[d].state = "failed"

\* A panel that shows "syncing" keeps polling until it shows how the sync ended.
PanelSeesTheEnd ==
    \A p \in Panels : shown[p] = "syncing" ~>
        \/ shown[p] # "syncing"
        \/ \E d \in Today : job[d].state = "failed"

\* Whatever restarts, errors and secrets do, a sync in progress has its job and
\* what a sync brought stays and reaches its readers (gsc-job.ts, gsc-read.ts).
SyncKept == GscTypeOK /\ SyncingHasJob /\ SyncedDaysStored /\ SyncReachesReaders

\* A sync ends, and whoever watched it begin sees the end (GscPanel.tsx).
SyncSeenToEnd == SyncEnds /\ PanelSeesTheEnd
=============================================================================
