----------------------------- MODULE WebSession ------------------------------
(***************************************************************************)
(* What the web client keeps beside its queries: the telemetry ring buffer *)
(* that every tab keeps in memory and writes to one localStorage key       *)
(* (telemetry/sessionTelemetry.ts), and the API indicator that pings the   *)
(* backend (hooks/useBackendReachable.ts, Layout's HealthIndicator).       *)
(***************************************************************************)
EXTENDS Integers, Sequences, SequencesExt

CONSTANTS
    Tabs,
    TelemetryMax,    \* TELEMETRY_MAX_EVENTS (200)
    MaxEvents,       \* bound: events recorded
    MaxTurns         \* bound: changes of the backend

ASSUME SessionAssumption == TelemetryMax \in Nat \ {0}

-----------------------------------------------------------------------------
(* The ring buffer: an event is its time *)

VARIABLES
    clock,    \* events recorded by all tabs
    events,   \* each tab's buffer
    kept,     \* localStorage
    writer    \* the tab whose buffer `kept` is

bufferVars == <<clock, events, kept, writer>>

NoTab == "none"
Newest(s) == SubSeq(s, (IF Len(s) > TelemetryMax THEN Len(s) - TelemetryMax ELSE 0) + 1, Len(s))

BufferInit ==
    /\ clock = 0 /\ kept = <<>> /\ writer = NoTab
    /\ events = [t \in Tabs |-> <<>>]

\* A full or disabled storage drops the write.
Persist(t, s) == \/ kept' = s /\ writer' = t
                 \/ writer' = (IF writer = t THEN NoTab ELSE writer) /\ UNCHANGED kept

\* Faulty variant: the buffer is stored before the event is in it.
PushPersistsFirst(t) ==
    /\ clock < MaxEvents /\ clock' = clock + 1
    /\ events' = [events EXCEPT ![t] = Newest(Append(@, clock'))]
    /\ Persist(t, events[t])

\* Faulty variant: the overflow is cut off at the newest end.
PushCutsNewest(t) ==
    /\ clock < MaxEvents /\ clock' = clock + 1
    /\ events' = [events EXCEPT ![t] = IF Len(@) < TelemetryMax THEN Append(@, clock') ELSE @]
    /\ Persist(t, events'[t])

Push(t) ==
    /\ clock < MaxEvents /\ clock' = clock + 1
    /\ events' = [events EXCEPT ![t] = Newest(Append(@, clock'))]
    /\ Persist(t, events'[t])

Clear(t) ==
    /\ clock < MaxEvents /\ clock' = clock + 1
    /\ events' = [events EXCEPT ![t] = <<>>]
    /\ Persist(t, <<>>)

\* Faulty variant: what is stored is added to what the tab has.
LoadMerges(t) ==
    /\ events' = [events EXCEPT ![t] = Newest(@ \o kept)]
    /\ UNCHANGED <<clock, kept, writer>>

\* A tab opens or reloads: its buffer is what is stored.
Load(t) ==
    /\ events' = [events EXCEPT ![t] = Newest(kept)]
    /\ UNCHANGED <<clock, kept, writer>>

BufferNext == \E t \in Tabs : Push(t) \/ Clear(t) \/ Load(t)

\* The tab that wrote last loses nothing by a reload; the others lose what they
\* recorded since they were opened, which that tab's write replaced.
ReloadKeepsWriter == writer # NoTab => Newest(kept) = events[writer]

\* No buffer ever holds an event twice or out of order, across tabs, reloads,
\* clears and failing writes.
EventsInOrder ==
    \A s \in {events[t] : t \in Tabs} \cup {kept} :
        Len(s) <= TelemetryMax /\ \A i \in 2 .. Len(s) : s[i - 1] < s[i]

\* What a tab records is in its buffer whatever falls out for it.
NewestIsLast ==
    [][clock' # clock =>
          \E t \in Tabs : events'[t] = <<>> \/ Last(events'[t]) = clock']_bufferVars

-----------------------------------------------------------------------------
(* The indicator; time in steps of 15 s (BASE_MS) *)

VARIABLES
    backend,   \* what a ping meets
    ping,      \* the query: its result and whether a fetch is under way
    wait,      \* until the next refetch, or "never"
    turns

healthVars == <<backend, ping, wait, turns>>

\* "sick" answers an error status, "hung" accepts the connection and no more.
Backends == {"up", "sick", "hung", "down"}
Never == 99

HealthInit ==
    /\ backend \in Backends /\ turns = MaxTurns
    /\ ping = [status |-> "pending", ok |-> TRUE, data |-> FALSE, sent |-> TRUE]
    /\ wait = Never

backoff(failures) == CASE failures = 0 -> 1 [] failures = 1 -> 2 [] OTHER -> 4

\* Faulty variant: a query in error is not asked again.
IntervalStops(q) == IF q.status = "error" THEN Never ELSE 1

\* refetchInterval: react-query counts the failures of one fetch only, so the
\* 60 s come only when an error follows an answer that was not ok.
Interval(q) ==
    LET notOk == q.data /\ ~q.ok IN
    IF q.status # "error" /\ ~notOk THEN 1
    ELSE LET failures == (IF q.status = "error" THEN 1 ELSE 0) + (IF notOk THEN 1 ELSE 0) IN
         backoff(IF failures > 1 THEN failures ELSE 1)

BackendTurns ==
    /\ turns > 0 /\ turns' = turns - 1
    /\ backend' \in Backends \ {backend}
    /\ UNCHANGED <<ping, wait>>

Tick ==
    /\ ~ping.sent /\ wait \in 1 .. 4
    /\ wait' = wait - 1
    /\ UNCHANGED <<backend, ping, turns>>

Sends ==
    /\ ~ping.sent /\ wait = 0
    /\ ping' = [ping EXCEPT !.sent = TRUE] /\ wait' = Never
    /\ UNCHANGED <<backend, turns>>

\* The ping has no timeout of its own: it waits for a hung backend.
Answers ==
    /\ ping.sent /\ backend # "hung"
    /\ \E q \in {IF backend = "down" THEN [ping EXCEPT !.status = "error", !.sent = FALSE]
                 ELSE [status |-> "success", ok |-> backend = "up", data |-> TRUE, sent |-> FALSE]} :
          ping' = q /\ wait' = Interval(q)
    /\ UNCHANGED <<backend, turns>>

HealthNext == BackendTurns \/ Tick \/ Sends \/ Answers

HealthFairness == WF_healthVars(Tick \/ Sends \/ Answers)

\* The status the top bar shows
Indicator ==
    CASE ping.status = "pending" -> "pending"
      [] ping.status = "error" \/ ~ping.ok -> "down"
      [] OTHER -> "reachable"

\* Once the backend stays as it is, the indicator comes to show it; a backend
\* that hangs keeps the colour it had.
IndicatorFollows ==
    /\ turns = 0 /\ backend = "up" ~> Indicator = "reachable"
    /\ turns = 0 /\ backend \in {"sick", "down"} ~> Indicator = "down"

SessionTypeOK ==
    /\ clock \in 0 .. MaxEvents /\ writer \in Tabs \cup {NoTab}
    /\ kept \in Seq(1 .. MaxEvents) /\ \A t \in Tabs : events[t] \in Seq(1 .. MaxEvents)
    /\ backend \in Backends /\ turns \in 0 .. MaxTurns
    /\ ping \in [status : {"pending", "error", "success"}, ok : BOOLEAN, data : BOOLEAN, sent : BOOLEAN]
    /\ wait \in 0 .. 4 \cup {Never}

\* What a tab keeps is in order and survives its reload, and the indicator
\* follows the backend (sessionTelemetry.ts, useBackendReachable.ts).
SessionKeepsUp ==
    /\ [](SessionTypeOK /\ ReloadKeepsWriter /\ EventsInOrder)
    /\ NewestIsLast /\ IndicatorFollows
=============================================================================
