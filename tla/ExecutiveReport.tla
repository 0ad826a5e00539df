-------------------------- MODULE ExecutiveReport ---------------------------
(***************************************************************************)
(* The executive report of one completed audit: one JSON column of the     *)
(* audit's row that serves as the result, the lock and the cache           *)
(* (routes/executive-report.ts, services/executive-report.ts, the model's  *)
(* two attempts in core/reports/run-executive-report.ts) and the views     *)
(* that poll it (ExecutiveReportView.tsx).                                 *)
(*                                                                         *)
(* Time is kept as ages: of the mark in the column, up to the age at which *)
(* it is stale, and of each generation in progress.                        *)
(***************************************************************************)
EXTENDS Integers, FiniteSets

CONSTANTS
    Views,           \* open ExecutiveReportViews, and export links
    Locales,
    StaleAfter,      \* STALE_GENERATING_MS (5 min)
    MaxGeneration,   \* two attempts of 60 s each
    MaxReportAsks,   \* bound: times a user opens, retries, forces or exports
    MaxReportFaults  \* bound: restarts and failing calls of the database

ASSUME ReportAssumption == {StaleAfter, MaxGeneration} \subseteq Nat /\ MaxGeneration <= StaleAfter

VARIABLES
    report,     \* Audit.executiveReport
    ask,        \* the request of each view
    seen,       \* what each view holds: the query's data, and its error
    used        \* what of the bounds is used

reportVars == <<report, ask, seen, used>>

NoReport == [status |-> "none", locale |-> "", age |-> 0]
Statuses == {"none", "generating", "ready", "failed"}
NoAsk == [pc |-> "idle", locale |-> "", kind |-> "get", age |-> 0]
NotSeen == [status |-> "none", locale |-> "", error |-> FALSE]

Generating == {v \in Views : ask[v].pc = "generating"}

ReportInit ==
    /\ report = NoReport
    /\ ask = [v \in Views |-> NoAsk]
    /\ seen = [v \in Views |-> NotSeen]
    /\ used = [asks |-> 0, faults |-> 0]

FaultHappens == used.faults < MaxReportFaults /\ used' = [used EXCEPT !.faults = @ + 1]

-----------------------------------------------------------------------------
(* The view *)

\* Opening, the retry button of a failed report, ?force=1, or the export link.
Open(v, locale, kind) ==
    /\ ask[v] = NoAsk /\ used.asks < MaxReportAsks
    /\ used' = [used EXCEPT !.asks = @ + 1]
    /\ ask' = [ask EXCEPT ![v] = [NoAsk EXCEPT !.pc = IF kind = "force" THEN "forcing" ELSE "reading",
                                               !.locale = locale, !.kind = kind]]
    /\ UNCHANGED <<report, seen>>

\* Every 2 s while the data says generating and the last answer was no error.
ReportPolls(v) ==
    /\ ask[v] = NoAsk /\ seen[v].status = "generating" /\ ~seen[v].error
    /\ ask' = [ask EXCEPT ![v] = [NoAsk EXCEPT !.pc = "reading", !.locale = seen[v].locale]]
    /\ UNCHANGED <<report, seen, used>>

\* An answer replaces the data; an error keeps it.  An export is a page of its
\* own (409 unless the report is ready) and changes neither.
Shown(v, status) ==
    seen' = IF ask[v].kind = "export" THEN seen
            ELSE [seen EXCEPT ![v] = [status |-> status, locale |-> ask[v].locale, error |-> FALSE]]
Failed(v) == seen' = IF ask[v].kind = "export" THEN seen ELSE [seen EXCEPT ![v].error = TRUE]
Done(v) == ask' = [ask EXCEPT ![v] = NoAsk]

-----------------------------------------------------------------------------
(* The request *)

\* ?force=1 drops the report first; an error of this update is swallowed.
Force(v) ==
    /\ ask[v].pc = "forcing"
    /\ \/ report' = NoReport /\ UNCHANGED used
       \/ FaultHappens /\ UNCHANGED report
    /\ ask' = [ask EXCEPT ![v].pc = "reading"]
    /\ UNCHANGED <<seen>>

\* Faulty variants: a generation is given up while it may still run, or never.
IsStaleSoon == report.status = "generating" /\ report.age > 0
IsStaleNever == FALSE

IsStale == report.status = "generating" /\ report.age > StaleAfter

\* Faulty variant: a ready report is answered whatever its language.
CachedAnyLocale(locale) == report.status = "ready" \/ (report.status = "generating" /\ ~IsStale)

Cached(locale) ==
    \/ report.status = "ready" /\ report.locale = locale
    \/ report.status = "generating" /\ ~IsStale

\* A failed report is asked for again.
Read(v) ==
    /\ ask[v].pc = "reading"
    /\ IF Cached(ask[v].locale)
       THEN Shown(v, report.status) /\ Done(v)
       ELSE ask' = [ask EXCEPT ![v].pc = "summing"] /\ UNCHANGED seen
    /\ UNCHANGED <<report, used>>

\* The pages that failed are counted and the audit summed up, then the report is
\* marked, or one of these calls fails: 500 and the column as it was.
Mark(v) ==
    /\ ask[v].pc = "summing"
    /\ \/ /\ report' = [status |-> "generating", locale |-> ask[v].locale, age |-> 0]
          /\ ask' = [ask EXCEPT ![v].pc = "generating", ![v].age = 0]
          /\ UNCHANGED <<seen, used>>
       \/ FaultHappens /\ Failed(v) /\ Done(v) /\ UNCHANGED report

\* runExecutiveReport: a second attempt only for JSON that is not a narrative.
\* Whatever it ends with is written over what the column holds by now.  An error
\* of the write is caught and "failed" written instead; if that fails too the
\* column stays generating until it is stale.
Write(v) ==
    /\ ask[v].pc = "generating"
    /\ \/ \E status \in {"ready", "failed"} :
             /\ report' = [status |-> status, locale |-> ask[v].locale, age |-> 0]
             /\ Shown(v, status)
             /\ UNCHANGED used
       \/ FaultHappens /\ Failed(v) /\ UNCHANGED report
    /\ Done(v)

\* The process restarts: requests in progress are lost and fail.
ReportLost ==
    /\ FaultHappens
    /\ seen' = [v \in Views |-> IF ask[v] # NoAsk /\ ask[v].kind # "export" THEN [seen[v] EXCEPT !.error = TRUE] ELSE seen[v]]
    /\ ask' = [v \in Views |-> NoAsk]
    /\ UNCHANGED report

\* A generation ends within its two attempts.
ReportTick ==
    /\ Generating # {} \/ (report.status = "generating" /\ report.age <= StaleAfter)
    /\ \A v \in Generating : ask[v].age < MaxGeneration
    /\ ask' = [v \in Views |-> IF v \in Generating THEN [ask[v] EXCEPT !.age = @ + 1] ELSE ask[v]]
    /\ report' = IF report.status = "generating" /\ report.age <= StaleAfter THEN [report EXCEPT !.age = @ + 1] ELSE report
    /\ UNCHANGED <<seen, used>>

Answering(v) == Force(v) \/ Read(v) \/ Mark(v) \/ Write(v)

ReportNext ==
    \/ \E v \in Views, l \in Locales, k \in {"get", "force", "export"} : Open(v, l, k)
    \/ \E v \in Views : ReportPolls(v) \/ Answering(v)
    \/ ReportLost \/ ReportTick

\* Requests are answered, the views poll and time passes.
ReportFairness ==
    /\ \A v \in Views : WF_reportVars(ReportPolls(v)) /\ WF_reportVars(Answering(v))
    /\ SF_reportVars(ReportTick)
ReportSpec == ReportInit /\ [][ReportNext]_reportVars /\ ReportFairness

-----------------------------------------------------------------------------
ReportTypeOK ==
    /\ report \in [status : Statuses, locale : Locales \cup {""}, age : 0 .. StaleAfter + 1]
    /\ ask \in [Views -> [pc : {"idle", "forcing", "reading", "summing", "generating"}, age : 0 .. StaleAfter + 1,
                          locale : Locales \cup {""}, kind : {"get", "force", "export"}]]
    /\ seen \in [Views -> [status : Statuses, locale : Locales \cup {""}, error : BOOLEAN]]

\* Two requests generate at once only if one of them was forced or read the
\* column before the other marked it: a request that finds a mark takes over
\* none but a dead one's.
TakeoverOnlyOfTheDead ==
    [][\A v \in Views :
           (ask[v].pc = "reading" /\ ask'[v].pc = "summing" /\ report.status = "generating")
               => \A w \in Generating : ask[w].age # report.age]_reportVars

\* A report shown as ready is in the language of the view that asked for it,
\* although the column holds one language at a time.
ReadyInOwnLocale ==
    [][\A v \in Views :
           (ask[v].pc # "idle" /\ ask'[v].pc = "idle" /\ ask[v].kind # "export" /\ seen'[v] = [status |-> "ready", locale |-> ask[v].locale, error |-> FALSE])
               => report'.locale = ask[v].locale]_reportVars

\* A view that shows "generating" comes to an end: it shows the report, the
\* failure, or an error, after which it no longer polls and offers no retry.
ViewSettles ==
    \A v \in Views : (seen[v].status = "generating" /\ ~seen[v].error) ~>
        \/ seen[v].status # "generating" \/ seen[v].error

\* A report in progress is left to its owner while that lives, a view gets its
\* own language and settles (executive-report.ts).
ReportTrue ==
    []ReportTypeOK /\ TakeoverOnlyOfTheDead /\ ReadyInOwnLocale /\ ViewSettles
=============================================================================
