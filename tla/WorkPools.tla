----------------------------- MODULE WorkPools -------------------------------
(***************************************************************************)
(* The two pools of promises: mapPool, which runs the audit plugins        *)
(* (orchestrator.ts), and fetchSearchAnalyticsRange, which fetches the days *)
(* of a Search Console snapshot (gsc/queries.ts).  Workers take the next   *)
(* index until none is left.  A plugin that throws is a result; a day that *)
(* throws rejects the whole range at once, while the other workers go on.  *)
(*                                                                         *)
(* A plugin is one step from start to settled.  A day is fetched in pages  *)
(* of RowLimit rows until one is not full.                                 *)
(***************************************************************************)
EXTENDS Integers, Sequences, FiniteSetsExt

CONSTANTS
    Items,          \* plugins or days
    Concurrency,    \* PLUGIN_CONCURRENCY, GSC_DAY_CONCURRENCY
    RowLimit,
    MaxRows         \* bound: rows of a day

ASSUME PoolAssumption == {Items, Concurrency, RowLimit, MaxRows} \subseteq Nat \ {0}

VARIABLES
    pool,       \* "plugins" or "days"
    rowsOf,     \* rows the source has of each item
    next,       \* the index no worker has taken yet
    doing,      \* what each worker runs: an index, or NoIndex
    results,    \* results[i]: what index i settled to; Waiting
    got,        \* rows of each item pushed to the answer
    settled     \* the promise of the whole pool

poolVars == <<pool, rowsOf, next, doing, results, got, settled>>

NoIndex == 0
Waiting == "pending"
Unsettled == [status |-> Waiting, of |-> 0]
Index == 1 .. Items
Workers == 1 .. Min({Concurrency, Items})
Running == {w \in Workers : doing[w] # NoIndex}

PoolInit ==
    /\ pool \in {"plugins", "days"}
    /\ rowsOf \in [Index -> 0 .. MaxRows]
    /\ next = 1
    /\ doing = [w \in Workers |-> NoIndex]
    /\ results = [i \in Index |-> Unsettled]
    /\ got = [i \in Index |-> 0]
    /\ settled = Waiting

\* Faulty variant: the index is advanced only once the item has settled.
TakenLate == next

\* next++ happens in the step that reads it
Taken == next + 1

TakeNext(w) ==
    /\ doing[w] = NoIndex /\ next <= Items
    /\ pool = "days" => \A i \in Index : results[i] # [status |-> "rejected", of |-> w]   \* w has ended
    /\ doing' = [doing EXCEPT ![w] = next]
    /\ next' = Taken
    /\ UNCHANGED <<pool, rowsOf, results, got, settled>>

\* Promise.all of the workers
Settles ==
    settled' = IF settled # Waiting THEN settled
               ELSE IF pool = "days" /\ \E i \in Index : results'[i].status = "rejected" THEN "rejected"
               ELSE IF next > Items /\ \A w \in Workers : doing'[w] = NoIndex THEN "fulfilled" ELSE Waiting

\* Faulty variant: a page that is exactly full is taken for the last one.
LastPageWhenFull(rows) == rows <= RowLimit
LastPage(rows) == rows < RowLimit

\* querySearchAnalytics from startRow on; the day ends with a page that is not full.
NextPage(i) == Min({RowLimit, rowsOf[i] - got[i]})
FetchPage(w) ==
    LET i == doing[w] IN
    /\ pool = "days" /\ i # NoIndex
    /\ got' = [got EXCEPT ![i] = @ + NextPage(i)]
    /\ IF LastPage(NextPage(i))
       THEN /\ results' = [results EXCEPT ![i] = [status |-> "fulfilled", of |-> i]]
            /\ doing' = [doing EXCEPT ![w] = NoIndex]
       ELSE UNCHANGED <<results, doing>>
    /\ Settles
    /\ UNCHANGED <<pool, rowsOf, next>>

\* A rejected page ends its worker; nothing of the day is pushed.
DayFails(w) ==
    LET i == doing[w] IN
    /\ pool = "days" /\ i # NoIndex
    /\ results' = [results EXCEPT ![i] = [status |-> "rejected", of |-> w]]
    /\ got' = [got EXCEPT ![i] = 0]
    /\ doing' = [doing EXCEPT ![w] = NoIndex]
    /\ Settles
    /\ UNCHANGED <<pool, rowsOf, next>>

\* Faulty variant: the slot is that of the order of completion.
SlotInOrder(i) == Cardinality({j \in Index : results[j] # Unsettled}) + 1
SlotOf(i) == i

RunPlugin(w) ==
    \E outcome \in {"fulfilled", "rejected"} :
        LET i == doing[w] IN
        /\ pool = "plugins" /\ i # NoIndex
        /\ results' = [results EXCEPT ![SlotOf(i)] = [status |-> outcome, of |-> i]]
        /\ got' = IF outcome = "fulfilled" THEN [got EXCEPT ![i] = rowsOf[i]] ELSE got
        /\ doing' = [doing EXCEPT ![w] = NoIndex]
        /\ Settles
        /\ UNCHANGED <<pool, rowsOf, next>>

PoolNext == \E w \in Workers : TakeNext(w) \/ FetchPage(w) \/ DayFails(w) \/ RunPlugin(w)
PoolSpec == PoolInit /\ [][PoolNext]_poolVars

-----------------------------------------------------------------------------
PoolTypeOK ==
    /\ next \in 1 .. Items + 1 /\ doing \in [Workers -> 0 .. Items]
    /\ got \in [Index -> 0 .. MaxRows] /\ settled \in {Waiting, "fulfilled", "rejected"}

\* An index is run by one worker, whatever order they take and finish in.
TakenOnce == \A v, w \in Running : v # w => doing[v] # doing[w]

\* runAudit: a plugin's findings and its failure stand at its own index, so the
\* findings come in the order of ALL_PLUGINS and a failure bears its plugin's
\* name; and the audit settles only when every plugin has.
AttributedToItsPlugin ==
    pool = "plugins" =>
        /\ \A i \in Index : results[i] # Unsettled => results[i].of = i
        /\ settled # Waiting => \A i \in Index : results[i] # Unsettled

\* A range that is fulfilled has every row of every day: a page short of one row
\* or exactly full loses nothing.
NoRowLost == pool = "days" /\ settled = "fulfilled" => got = rowsOf
=============================================================================
